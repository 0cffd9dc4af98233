------------------------- MODULE CoffeeStringsProofs -------------------------
(***************************************************************************)
(* Theorems about CoffeeStrings, for buffers, keys and values of any size: *)
(* what is stored can be read back whole, add is addition modulo the word  *)
(* size, keys that fit their buffer stay apart, and cc_get_arg returns     *)
(* arguments at every index but one.                                       *)
(*                                                                         *)
(* The inductive invariant says of every stored text what PutValue and the *)
(* wrapper's Recv make of it, and of every writer that its key is the one  *)
(* it has written under.                                                   *)
(***************************************************************************)
EXTENDS NumeralProofs

\* What the ledger may hold: text that fits the buffer of a value and is UTF-8.
Stored == {t \in Seq(Int) : Fits(t, VAL_SIZE - 1) /\ WellFormed(t)}

\* The keys of a transaction: a client's own, or the ledger's for a module.
Writer == ClientKey \union LedgerKey

StringsInv ==
    /\ ledger \in [LedgerKey -> Stored]
    /\ origin \in [LedgerKey -> SUBSET Writer]
    /\ \A k \in LedgerKey : \A r \in origin[k] : RequestKey(r) = k

-----------------------------------------------------------------------------
\* What the limits of the four files have in common.
LEMMA Sizes ==
    /\ VAL_SIZE \in Nat /\ VAL_SIZE - 1 \in Nat
    /\ VAL_MAX = VAL_SIZE /\ RESPONSE_SIZE = VAL_SIZE
    /\ ARG_SIZE - 1 \in Nat /\ KEY_SIZE = ARG_SIZE /\ KEY_MAX = ARG_SIZE /\ ARG_MAX = ARG_SIZE
    /\ ARGS_NUMBER \in Nat \ {0}
  BY SizesAgree

\* The three buffers that a key passes keep what the first of them keeps.
LEMMA OneCut ==
    ASSUME NEW s \in Seq(Int)
    PROVE  /\ RequestKey(s) = Cut(s, ARG_SIZE - 1) /\ GuestValue(s) = Cut(s, ARG_SIZE - 1)
           /\ Fits(Cut(s, ARG_SIZE - 1), ARG_SIZE - 1)
  <1> DEFINE n == ARG_SIZE - 1
             c == Cut(s, n)
  <1>1. n \in Nat /\ KEY_MAX - 1 = n /\ ARG_MAX - 1 = n /\ KEY_SIZE - 1 = n
    BY Sizes
  <1> HIDE DEF n
  <1>2. Fits(c, n)
    BY <1>1, CutFits
  <1> HIDE DEF c
  <1>3. Cut(c, n) = c
    BY <1>1, <1>2, CutKeeps
  <1> QED BY <1>1, <1>2, <1>3
          DEF RequestKey, NativeKey, GuestKey, GuestValue, ProxyArgument, c, n

\* Keys are strings, and a key of the ledger passes the buffers unchanged.
LEMMA KeysAreText == Writer \subseteq Seq(Int) /\ \A k \in LedgerKey : RequestKey(k) = k
  <1>1. \A raw \in ClientKey : raw \in Seq(Int)
    BY StringsAssumption
  <1>2. ASSUME NEW k \in LedgerKey PROVE k \in Seq(Int) /\ RequestKey(k) = k
    <2>1. PICK raw \in ClientKey : k = RequestKey(raw)
      BY DEF LedgerKey
    <2>2. Fits(k, ARG_SIZE - 1)
      BY <1>1, <2>1, OneCut
    <2>3. k \in Seq(Int)
      BY <2>2 DEF Fits
    <2>4. Cut(k, ARG_SIZE - 1) = k
      BY <2>2, Sizes, CutKeeps
    <2> QED BY <2>3, <2>4, OneCut
  <1> QED BY <1>1, <1>2 DEF Writer

\* Stored text passes the proxy's test and every buffer on its way back.
LEMMA StoredPasses ==
    ASSUME NEW t \in Stored
    PROVE  GetState(t) = t /\ ReturnResponse(t) = t /\ WellFormed(t)
  <1> DEFINE n == VAL_SIZE - 1
  <1>1. n \in Nat /\ VAL_MAX - 1 = n /\ RESPONSE_SIZE - 1 = n /\ VAL_SIZE = n + 1
    BY Sizes
  <1> HIDE DEF n
  <1>2. Fits(t, n) /\ WellFormed(t)
    BY DEF Stored, n
  <1>3. Cut(t, n) = t
    BY <1>1, <1>2, CutKeeps
  <1>4. Len(t) < VAL_SIZE
    BY <1>1, <1>2 DEF Fits
  <1> QED BY <1>1, <1>2, <1>3, <1>4 DEF GetState, Deliver, ReturnResponse, n

\* Whatever cc_put_state is given, what it sends on is stored text if it can be sent.
LEMMA PutStores ==
    ASSUME NEW text \in Seq(Int), WellFormed(PutValue(text))
    PROVE  PutValue(text) \in Stored
  <1>1. Fits(PutValue(text), VAL_SIZE - 1)
    BY Sizes, CutFits DEF PutValue
  <1> QED BY <1>1 DEF Stored, Fits

\* The text of an absent key.
LEMMA EmptyStored == <<>> \in Stored
  BY Sizes DEF Stored, Fits, WellFormed

-----------------------------------------------------------------------------
\* The empty ledger satisfies the invariant.
LEMMA InitStrings == Init => StringsInv
  BY EmptyStored DEF Init, StringsInv

\* Put writes stored text under the writer's key or nothing.
LEMMA PutKeepsInv ==
    ASSUME StringsInv, NEW f, NEW raw \in Writer, NEW v, NEW text \in Seq(Int),
           Put(f, raw, v, text)
    PROVE  StringsInv'
  <1> DEFINE k == RequestKey(raw)
  <1>1. CASE /\ WellFormed(PutValue(text))
             /\ ledger' = [ledger EXCEPT ![k] = PutValue(text)]
             /\ origin' = [origin EXCEPT ![k] = @ \union {raw}]
    <2>1. PutValue(text) \in Stored
      BY <1>1, PutStores
    <2> HIDE DEF k
    <2>2. ledger' \in [LedgerKey -> Stored]
      BY <1>1, <2>1 DEF StringsInv
    <2>3. origin' \in [LedgerKey -> SUBSET Writer]
      BY <1>1 DEF StringsInv
    <2>4. ASSUME NEW l \in LedgerKey, NEW r \in origin'[l] PROVE RequestKey(r) = l
      <3>1. CASE l = k
        <4>1. r \in origin[l] \/ r = raw
          BY <1>1, <3>1 DEF StringsInv
        <4> QED BY <3>1, <4>1 DEF StringsInv, k
      <3>2. CASE l # k
        BY <1>1, <3>2 DEF StringsInv
      <3> QED BY <3>1, <3>2
    <2> QED BY <2>2, <2>3, <2>4 DEF StringsInv
  <1>2. CASE Keep
    BY <1>2 DEF Keep, StringsInv
  <1> QED BY <1>1, <1>2 DEF Put

\* The text that add passes to cc_put_state.
LEMMA AddsUp ==
    ASSUME StringsInv, NEW raw \in ClientKey, NEW v \in ClientValue, Current(raw) # <<>>
    PROVE  LET sum  == (s_atoul(Current(raw)) + s_atoul(GuestValue(v))) % Modulus
               text == s_ultoa(sum, VAL_MAX)
           IN  /\ RequestKey(raw) \in LedgerKey
               /\ text \in Seq(Int) /\ PutValue(text) = text
               /\ IsNumeral(text)
               /\ Denotes(text) = (Denotes(ledger[RequestKey(raw)]) + Denotes(GuestValue(v))) % Modulus
  <1> DEFINE k == RequestKey(raw)
             a == ledger[k]
             g == GuestValue(v)
             sum == (s_atoul(a) + s_atoul(g)) % Modulus
             text == s_ultoa(sum, VAL_MAX)
  <1>1. k \in LedgerKey /\ Current(raw) = GetState(a)
    BY DEF Current
  <1>2. a \in Stored /\ Current(raw) = a
    BY <1>1, StoredPasses DEF StringsInv
  <1>3. a \in Seq(Int) /\ VAL_SIZE > 1
    <2>1. a \in Seq(Int) /\ Len(a) <= VAL_SIZE - 1
      BY <1>2 DEF Stored, Fits
    <2>2. a # <<>>
      BY <1>2
    <2> HIDE DEF a
    <2>3. Len(a) \in Nat /\ Len(a) > 0
      BY <2>1, <2>2
    <2> QED BY <2>1, <2>3, Sizes
  <1>4. g \in Seq(Int)
    <2>1. v \in Seq(Int)
      BY StringsAssumption
    <2>2. Fits(g, ARG_SIZE - 1)
      BY <2>1, OneCut
    <2> QED BY <2>2 DEF Fits
  <1> HIDE DEF g, a
  <1>5. /\ Denotes(a) \in Nat /\ s_atoul(a) = Denotes(a) % Modulus
        /\ Denotes(g) \in Nat /\ s_atoul(g) = Denotes(g) % Modulus
    BY <1>3, <1>4, AtoulIs
  <1>6. Modulus \in Nat \ {0}
    BY NumeralsFit
  <1>7. sum = (Denotes(a) + Denotes(g)) % Modulus /\ sum \in 0 .. Modulus - 1
    <2> DEFINE x == Denotes(a)
               y == Denotes(g)
    <2>1. x \in Nat /\ y \in Nat /\ sum = ((x % Modulus) + (y % Modulus)) % Modulus
      BY <1>5
    <2> HIDE DEF x, y, sum
    <2>2. sum = (x + y) % Modulus
      BY <1>6, <2>1, ReduceBoth
    <2>3. x + y \in Nat
      BY <2>1
    <2>4. sum \in 0 .. Modulus - 1
      BY <1>6, <2>2, <2>3, Division
    <2> QED BY <2>2, <2>4 DEF x, y
  <1> HIDE DEF sum
  <1>8. /\ text \in Seq(Digit) /\ Len(text) <= VAL_SIZE - 1
        /\ IsNumeral(text) /\ Denotes(text) = sum
    BY <1>3, <1>7, UltoaWrites
  <1> HIDE DEF text
  <1>9. text \in Seq(Int) /\ Fits(text, VAL_SIZE - 1)
    BY <1>8, Sizes, DigitsAreText
  <1>10. PutValue(text) = text
    BY <1>9, Sizes, CutKeeps DEF PutValue
  <1>11. (s_atoul(Current(raw)) + s_atoul(GuestValue(v))) % Modulus = sum
    BY <1>2 DEF sum, g
  <1>12. Denotes(text) = (Denotes(ledger[k]) + Denotes(GuestValue(v))) % Modulus
    BY <1>7, <1>8 DEF a, g
  <1> QED BY <1>1, <1>8, <1>9, <1>10, <1>11, <1>12 DEF text

\* Every transaction and every module keeps the invariant.
LEMMA NextStrings == StringsInv /\ [Next]_vars => StringsInv'
  <1> SUFFICES ASSUME StringsInv, [Next]_vars PROVE StringsInv'
    OBVIOUS
  <1>1. ClientKey \subseteq Writer /\ LedgerKey \subseteq Writer
    BY DEF Writer
  <1>2. CASE Keep
    BY <1>2 DEF Keep, StringsInv
  <1>3. ASSUME NEW raw \in ClientKey, NEW v \in ClientValue, Create(raw, v)
        PROVE  StringsInv'
    <2>1. v \in Seq(Int)
      BY StringsAssumption
    <2>2. GuestValue(v) \in Seq(Int)
      BY <2>1, OneCut DEF Fits
    <2>3. Keep \/ Put("create", raw, v, GuestValue(v))
      BY <1>3 DEF Create, RequestFails
    <2> QED BY <1>1, <1>2, <2>2, <2>3, PutKeepsInv
  <1>4. ASSUME NEW raw \in ClientKey, NEW v \in ClientValue, Add(raw, v)
        PROVE  StringsInv'
    <2> DEFINE sum == (s_atoul(Current(raw)) + s_atoul(GuestValue(v))) % Modulus
    <2>1. Keep \/ (Current(raw) # <<>> /\ Put("add", raw, v, s_ultoa(sum, VAL_MAX)))
      BY <1>4 DEF Add, RequestFails
    <2>2. ASSUME Current(raw) # <<>> PROVE s_ultoa(sum, VAL_MAX) \in Seq(Int)
      BY <2>2, AddsUp
    <2> HIDE DEF sum
    <2> QED BY <1>1, <1>2, <2>1, <2>2, PutKeepsInv
  <1>5. ASSUME NEW raw \in ClientKey, Query(raw) PROVE StringsInv'
    BY <1>2, <1>5 DEF Query, RequestFails
  <1>6. ASSUME NEW k \in LedgerKey, NEW v \in ModuleValue, ModulePuts(k, v)
        PROVE  StringsInv'
    <2>1. v \in Seq(Int)
      BY StringsAssumption
    <2> QED BY <1>1, <1>6, <2>1, PutKeepsInv DEF ModulePuts
  <1>7. ASSUME NEW list \in ArgumentList, NEW pending \in 0 .. 2,
               NEW idx \in -1 .. ARGS_NUMBER, ModuleReadsArgument(list, pending, idx)
        PROVE  StringsInv'
    BY <1>2, <1>7 DEF ModuleReadsArgument
  <1>8. CASE UNCHANGED vars
    BY <1>2, <1>8 DEF vars, Keep
  <1> QED BY <1>3, <1>4, <1>5, <1>6, <1>7, <1>8 DEF Next

\* The invariant holds in every state.
LEMMA StringsInvariant == Spec => []StringsInv
  BY InitStrings, NextStrings, PTL DEF Spec

(***************************************************************************)
(* Everything any module has written through cc_put_state can be read back *)
(* whole, whatever it has written: the four limits agree.                  *)
(***************************************************************************)
THEOREM StoredIsReadable == Spec => []LedgerReadable
  <1>1. StringsInv => LedgerReadable
    BY StoredPasses DEF StringsInv, LedgerReadable
  <1> QED BY <1>1, StringsInvariant, PTL

-----------------------------------------------------------------------------
\* A step that answers an add with OK has added.
LEMMA AddStep ==
    ASSUME StringsInv, Next, last'.fn = "add", last'.resp = "OK"
    PROVE  LET k == RequestKey(last'.key)
           IN  /\ IsNumeral(ledger'[k])
               /\ Denotes(ledger'[k]) =
                      (Denotes(ledger[k]) + Denotes(GuestValue(last'.val))) % Modulus
  <1>1. PICK raw \in ClientKey, v \in ClientValue : Add(raw, v)
    <2>1. \A f, raw, v, resp, text : Answer(f, raw, v, resp, text) => last'.fn = f
      BY DEF Answer
    <2>2. \A f, raw, v, text : Put(f, raw, v, text) => last'.fn = f
      BY <2>1 DEF Put
    <2>3. \A raw, v : Create(raw, v) => last'.fn = "create"
      BY <2>1, <2>2 DEF Create, RequestFails
    <2>4. \A raw : Query(raw) => last'.fn = "query"
      BY <2>1 DEF Query, RequestFails
    <2>5. \A k, v : ModulePuts(k, v) => last'.fn = "module"
      BY <2>2 DEF ModulePuts
    <2>6. \A list, pending, idx : ModuleReadsArgument(list, pending, idx) => last'.fn = "argument"
      BY <2>1 DEF ModuleReadsArgument
    <2> QED BY <2>3, <2>4, <2>5, <2>6 DEF Next
  <1> DEFINE k    == RequestKey(raw)
             sum  == (s_atoul(Current(raw)) + s_atoul(GuestValue(v))) % Modulus
             text == s_ultoa(sum, VAL_MAX)
  <1>2. Current(raw) # <<>> /\ Put("add", raw, v, text)
    BY <1>1 DEF Add, RequestFails, Answer
  <1>3. /\ k \in LedgerKey /\ PutValue(text) = text /\ IsNumeral(text)
        /\ Denotes(text) = (Denotes(ledger[k]) + Denotes(GuestValue(v))) % Modulus
    BY <1>2, AddsUp
  <1> HIDE DEF text
  <1>4. /\ ledger' = [ledger EXCEPT ![k] = PutValue(text)]
        /\ last'.key = raw /\ last'.val = v
    BY <1>2 DEF Put, Answer
  <1> HIDE DEF k
  <1>5. ledger'[k] = text
    BY <1>3, <1>4 DEF StringsInv
  <1> QED BY <1>3, <1>4, <1>5 DEF k

(***************************************************************************)
(* add is addition modulo the word size for every balance and argument:    *)
(* s_atoul reads, and s_ultoa writes, the place-value notation.            *)
(***************************************************************************)
THEOREM AddAdds == Spec => AddIsAddition
  <1> DEFINE k == RequestKey(last'.key)
             A == last'.fn = "add" /\ last'.resp = "OK" =>
                      /\ IsNumeral(ledger'[k])
                      /\ Denotes(ledger'[k]) =
                             (Denotes(ledger[k]) + Denotes(GuestValue(last'.val))) % Modulus
  <1>1. StringsInv /\ [Next]_vars => [A]_vars
    BY AddStep
  <1> HIDE DEF A
  <1>2. Spec => [][A]_vars
    BY <1>1, StringsInvariant, PTL DEF Spec
  <1> QED BY <1>2 DEF AddIsAddition, A

-----------------------------------------------------------------------------
(***************************************************************************)
(* Keys that fit their buffer stay apart: the keys that fall together on   *)
(* the ledger are those with the same first ARG_SIZE - 1 characters.       *)
(***************************************************************************)
THEOREM ShortKeysStayApart ==
    ASSUME \A key \in ClientKey : Fits(key, ARG_SIZE - 1)
    PROVE  Spec => []KeysStayApart
  <1>1. ASSUME NEW r \in Writer PROVE RequestKey(r) = r
    <2>1. CASE r \in ClientKey
      <3>1. r \in Seq(Int) /\ Cut(r, ARG_SIZE - 1) = r
        BY <2>1, Sizes, CutKeeps DEF Fits
      <3> QED BY <3>1, OneCut
    <2> QED BY <2>1, KeysAreText DEF Writer
  <1>2. StringsInv => KeysStayApart
    <2> SUFFICES ASSUME StringsInv, NEW k \in LedgerKey, NEW r \in origin[k], NEW s \in origin[k]
                 PROVE  r = s
      BY DEF KeysStayApart
    <2>1. r \in Writer /\ s \in Writer /\ RequestKey(r) = k /\ RequestKey(s) = k
      BY DEF StringsInv
    <2> QED BY <1>1, <2>1
  <1> QED BY <1>2, StringsInvariant, PTL

-----------------------------------------------------------------------------
\* A read of an argument by an index other than the one behind the last.
ReadsInside ==
    \E list \in ArgumentList, pending \in 0 .. 2, idx \in (-1 .. ARGS_NUMBER) \ {ARGS_NUMBER - 1} :
        ModuleReadsArgument(list, pending, idx)

\* A buffer keeps the beginning of a string.
LEMMA CutIsPrefix ==
    ASSUME NEW s \in Seq(Int), NEW n \in Nat
    PROVE  IsPrefix(Cut(s, n), s)
  <1> DEFINE c == Cut(s, n)
  <1>1. c \in Seq(Int) /\ Len(c) <= Len(s) /\ \A i \in 1 .. Len(c) : c[i] = s[i]
    BY CutFits DEF Fits
  <1> HIDE DEF c
  <1>2. SubSeq(c, 1, Len(c)) = SubSeq(s, 1, Len(c))
    BY <1>1
  <1> QED BY <1>1, <1>2 DEF IsPrefix, c

(***************************************************************************)
(* cc_get_arg returns (the beginning of) an argument the client has sent   *)
(* for every index but ARGS_NUMBER - 1, the one its bound lets through by  *)
(* mistake; behind the arguments sent it returns nothing.                  *)
(***************************************************************************)
THEOREM OneIndexAstray == Spec => [][ReadsInside => ArgumentsOnly']_vars
  <1>1. ReadsInside => ArgumentsOnly'
    <2> SUFFICES ASSUME NEW list \in ArgumentList, NEW pending \in 0 .. 2,
                        NEW idx \in (-1 .. ARGS_NUMBER) \ {ARGS_NUMBER - 1},
                        ModuleReadsArgument(list, pending, idx)
                 PROVE  ArgumentsOnly'
      BY DEF ReadsInside
    <2> DEFINE sent == IF idx + 1 \in DOMAIN list THEN list[idx + 1] ELSE <<>>
               text == CcGetArg(Arguments(list), pending, idx, ARG_MAX)
    <2>1. last'.key = sent /\ last'.text = text
      BY DEF ModuleReadsArgument, Answer
    <2>2. list \in Seq(Seq(Int)) /\ ARGS_NUMBER \in Nat \ {0}
      BY StringsAssumption, Sizes
    <2>3. sent \in Seq(Int)
      BY <2>2
    <2>4. IsPrefix(text, sent)
      <3>1. CASE idx \in 0 .. ARGS_NUMBER - 2
        <4> DEFINE n == ARG_SIZE - 1
        <4>1. idx + 1 \in 1 .. ARGS_NUMBER - 1 /\ n \in Nat /\ ARG_MAX - 1 = n
          BY <2>2, <3>1, Sizes
        <4>2. text = Cut(Arguments(list)[idx + 1], n)
          BY <3>1, <4>1 DEF CcGetArg
        <4>3. Arguments(list)[idx + 1] = Cut(sent, n)
          <5>1. CASE idx + 1 <= Len(list)
            BY <2>2, <4>1, <5>1 DEF Arguments, ProxyArgument
          <5>2. CASE ~(idx + 1 <= Len(list))
            <6>1. Arguments(list)[idx + 1] = <<>> /\ sent = <<>>
              BY <2>2, <4>1, <5>2 DEF Arguments
            <6>2. Fits(<<>>, n)
              BY <4>1 DEF Fits
            <6> HIDE DEF n, sent
            <6>3. Cut(<<>>, n) = <<>>
              BY <4>1, <6>2, CutKeeps
            <6> QED BY <6>1, <6>3
          <5> QED BY <5>1, <5>2
        <4> HIDE DEF n, sent, text
        <4>4. Fits(Cut(sent, n), n)
          BY <2>3, <4>1, CutFits
        <4>5. Cut(Cut(sent, n), n) = Cut(sent, n)
          BY <4>1, <4>4, CutKeeps
        <4> QED BY <2>3, <4>1, <4>2, <4>3, <4>5, CutIsPrefix
      <3>2. CASE idx \notin 0 .. ARGS_NUMBER - 2
        <4>1. text = <<>>
          BY <2>2, <3>2 DEF CcGetArg
        <4> HIDE DEF sent, text
        <4> QED BY <2>3, <4>1 DEF IsPrefix
      <3> QED BY <3>1, <3>2
    <2> HIDE DEF sent, text
    <2> QED BY <2>1, <2>4 DEF ArgumentsOnly
  <1>2. [Next]_vars => [ReadsInside => ArgumentsOnly']_vars
    BY <1>1
  <1> QED BY <1>2, PTL DEF Spec
=============================================================================
