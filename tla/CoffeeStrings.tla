---------------------------- MODULE CoffeeStrings ----------------------------
(***************************************************************************)
(* What the other modules abstract from: the strings.  A transaction's     *)
(* key and value pass through fixed-size buffers in four files on their    *)
(* way to the ledger and back, each with a limit of its own, and the       *)
(* balance is kept as a numeral that the guest converts itself.            *)
(*                                                                         *)
(* A string is a sequence of characters: the digits are 0 .. Base - 1,     *)
(* numbers from Base on are other characters, and Nul may occur in what a  *)
(* client sends (a Go string) but ends a string in C.  LeadByte and        *)
(* TailByte are the two bytes of a character beyond ASCII.  A transaction  *)
(* is one step here; how transactions interleave is InvocationSystem's     *)
(* subject.                                                                *)
(*                                                                         *)
(*   ledger    the stored text of each key, <<>> if it is absent           *)
(*   last      what was executed last: its key and value as the client     *)
(*             sent them, the response word and the text that came back    *)
(*   origin    history: the keys, as clients gave them, of the             *)
(*             transactions that have written under each ledger key        *)
(***************************************************************************)
EXTENDS Integers, SequencesExt

CONSTANTS
    Base,           \* 10
    Modulus,        \* 2^32, the range of unsigned long in wasm32
    ARGS_NUMBER, ARG_SIZE, KEY_SIZE, VAL_SIZE, RESPONSE_SIZE,
    KEY_MAX, ARG_MAX, VAL_MAX,      \* the guest's buffers
    ClientKey,      \* the strings clients pass as keys
    ClientValue,    \* the strings clients pass as values
    ModuleValue,    \* the values other modules write
    ArgumentList    \* argument lists of invocations of other modules

Nul      == -1
LeadByte == -2
TailByte == -3

\* The sizes of the guest and of the TA agree: "WASM과 일치하도록 증가".
ASSUME SizesAgree ==
    /\ {ARGS_NUMBER, ARG_SIZE, KEY_SIZE, VAL_SIZE} \subseteq Nat \ {0}
    /\ KEY_MAX = KEY_SIZE /\ ARG_MAX = ARG_SIZE /\ KEY_SIZE = ARG_SIZE
    /\ VAL_MAX = VAL_SIZE /\ RESPONSE_SIZE = VAL_SIZE

\* Base to the power of n.
Power[n \in Nat] == IF n = 0 THEN 1 ELSE Base * Power[n - 1]

ASSUME NumeralsFit ==
    /\ Base \in Nat \ {0, 1} /\ Modulus \in Nat \ {0}
    /\ Modulus <= Power[VAL_MAX - 1]

ASSUME StringsAssumption ==
    /\ ClientKey \union ClientValue \union ModuleValue \subseteq Seq(Int)
    /\ ArgumentList \subseteq Seq(Seq(Int))

VARIABLES ledger, last, origin

vars == <<ledger, last, origin>>

-----------------------------------------------------------------------------
(***************************************************************************)
(* C strings.  Cut(s, n) is what memcpy or TEE_MemMove of at most n        *)
(* characters into a zeroed buffer of more than n leaves there.            *)
(***************************************************************************)
PrefixOf(s, Holds(_)) ==
    SubSeq(s, 1, Max({n \in 0 .. Len(s) : \A i \in 1 .. n : Holds(s[i])}))

CString(s) == PrefixOf(s, LAMBDA c : c # Nul)
Cut(s, n)  == CString(SubSeq(s, 1, Min({Len(s), n})))

(***************************************************************************)
(* The way of an argument: the proxy copies it into struct arguments, and  *)
(* cc_get_arg copies it into a buffer of the guest.  cc_get_arg tests idx  *)
(* against ARGS_NUMBER but reads arguments[idx + 1]; behind the last       *)
(* argument of the session context lies pending_type.                      *)
(***************************************************************************)
ProxyArgument(s) == Cut(s, ARG_SIZE - 1)

Arguments(list) ==
    [n \in 1 .. ARGS_NUMBER - 1 |-> IF n <= Len(list) THEN ProxyArgument(list[n]) ELSE <<>>]

\* The bytes of pending_type, read as a string.
PendingText(pending) == IF pending = 0 THEN <<>> ELSE <<Base + pending>>

CcGetArg(args, pending, idx, out_len) ==
    IF idx \in 0 .. ARGS_NUMBER - 2 THEN Cut(args[idx + 1], out_len - 1)
    ELSE IF idx = ARGS_NUMBER - 1   THEN Cut(PendingText(pending), out_len - 1)
    ELSE <<>>

GuestKey(s)   == Cut(ProxyArgument(s), KEY_MAX - 1)
GuestValue(s) == Cut(ProxyArgument(s), ARG_MAX - 1)

(***************************************************************************)
(* The way of a request from the guest to the wrapper.                     *)
(***************************************************************************)
NativeKey(k) == Cut(k, KEY_SIZE - 1)
PutValue(v)  == Cut(v, VAL_SIZE - 1)

(***************************************************************************)
(* The way of a value back into the guest.  The proxy drops a value that   *)
(* does not fit (the guest then sees an absent key); the TA copies it up   *)
(* to the end of the guest's buffer.                                       *)
(***************************************************************************)
\* Mutant: room for two terminators.
DeliverShorter(v) == IF Len(v) < VAL_SIZE - 1 THEN Cut(v, VAL_SIZE - 1) ELSE <<>>

Deliver(v) == IF Len(v) < VAL_SIZE THEN Cut(v, VAL_SIZE - 1) ELSE <<>>

GetState(v)       == Cut(Deliver(v), VAL_MAX - 1)
ReturnResponse(r) == Cut(r, RESPONSE_SIZE - 1)

(***************************************************************************)
(* A string field of a protobuf message (external) has to be UTF-8; Recv   *)
(* of the wrapper fails for a message in which a cut has split a           *)
(* character.                                                              *)
(***************************************************************************)
WellFormed(s) ==
    \A i \in 1 .. Len(s) : /\ s[i] = LeadByte => i < Len(s) /\ s[i + 1] = TailByte
                           /\ s[i] = TailByte => i > 1 /\ s[i - 1] = LeadByte

-----------------------------------------------------------------------------
(***************************************************************************)
(* s_atoul and s_ultoa.  The 32 characters of s_ultoa's own buffer are     *)
(* more than an unsigned long has digits.                                  *)
(***************************************************************************)
IsDigit(c) == c \in 0 .. Base - 1

s_atoul(s) ==
    FoldLeft(LAMBDA v, d : (v * Base + d) % Modulus, 0, PrefixOf(s, IsDigit))

\* The loop over v % 10, v / 10: the digits of v, the last one first.
DigitLoop[v \in 0 .. Modulus - 1] ==
    IF v = 0 THEN <<>> ELSE <<v % Base>> \o DigitLoop[v \div Base]

\* Mutant: zero has no digits of its own.
UltoaWithoutZero(v, out_len) == Cut(Reverse(DigitLoop[v]), out_len - 1)

s_ultoa(v, out_len) ==
    IF v = 0 THEN <<0>> ELSE Cut(Reverse(DigitLoop[v]), out_len - 1)

-----------------------------------------------------------------------------
(***************************************************************************)
(* The transactions.  Under the empty key there is nothing: the stub       *)
(* answers a read of it with the empty string, and a create stops there.   *)
(* A transaction whose request cannot be sent to the wrapper fails there.  *)
(***************************************************************************)
RequestKey(raw) == NativeKey(GuestKey(raw))

LedgerKey == {k \in {RequestKey(raw) : raw \in ClientKey} : k # <<>> /\ WellFormed(k)}

Init ==
    /\ ledger = [k \in LedgerKey |-> <<>>]
    /\ last   = [fn |-> "none", key |-> <<>>, val |-> <<>>, resp |-> "", text |-> <<>>]
    /\ origin = [k \in LedgerKey |-> {}]

\* The transaction f(raw, v) is answered with the word resp or a text.
Answer(f, raw, v, resp, text) ==
    last' = [fn |-> f, key |-> raw, val |-> v, resp |-> resp, text |-> text]

Keep == UNCHANGED <<ledger, origin>>

\* What the guest has in g_cur_val after the GET_STATE for the key.
Current(raw) == IF RequestKey(raw) \in LedgerKey THEN GetState(ledger[RequestKey(raw)]) ELSE <<>>

RequestFails(f, raw, v) ==
    ~WellFormed(RequestKey(raw)) /\ Answer(f, raw, v, "SHIM_ERROR", <<>>) /\ Keep

\* PUT_STATE of the text under the key of the transaction, then OK.
Put(f, raw, v, text) ==
    \/ /\ WellFormed(PutValue(text))
       /\ ledger' = [ledger EXCEPT ![RequestKey(raw)] = PutValue(text)]
       /\ origin' = [origin EXCEPT ![RequestKey(raw)] = @ \union {raw}]
       /\ Answer(f, raw, v, "OK", <<>>)
    \/ /\ ~WellFormed(PutValue(text))
       /\ Answer(f, raw, v, "SHIM_ERROR", <<>>)
       /\ Keep

Create(raw, v) ==
    \/ RequestFails("create", raw, v)
    \/ RequestKey(raw) = <<>> /\ Answer("create", raw, v, "NO_RESPONSE", <<>>) /\ Keep
    \/ /\ RequestKey(raw) \in LedgerKey
       /\ \/ Current(raw) # <<>> /\ Answer("create", raw, v, "EXIST", <<>>) /\ Keep
          \/ Current(raw) = <<>> /\ Put("create", raw, v, GuestValue(v))

Add(raw, v) ==
    \/ RequestFails("add", raw, v)
    \/ /\ WellFormed(RequestKey(raw)) /\ Current(raw) = <<>>
       /\ Answer("add", raw, v, "EMPTY", <<>>)
       /\ Keep
    \/ /\ Current(raw) # <<>>
       /\ LET sum == (s_atoul(Current(raw)) + s_atoul(GuestValue(v))) % Modulus
          IN  Put("add", raw, v, s_ultoa(sum, VAL_MAX))

Query(raw) ==
    \/ RequestFails("query", raw, <<>>)
    \/ /\ WellFormed(RequestKey(raw)) /\ Keep
       /\ \/ Current(raw) = <<>> /\ Answer("query", raw, <<>>, "NOTFOUND", <<>>)
          \/ Current(raw) # <<>> /\ Answer("query", raw, <<>>, "VALUE", ReturnResponse(Current(raw)))

(***************************************************************************)
(* The wrapper runs any module file of the proxy's directory on the same   *)
(* ledger: one that writes what it likes, and one that reads its arguments *)
(* with or without a request pending (0, or the GET_STATE_REQUEST 1 or     *)
(* PUT_STATE_REQUEST 2 it has just made).                                  *)
(***************************************************************************)
ModulePuts(k, v) == Put("module", k, v, v)

ModuleReadsArgument(list, pending, idx) ==
    LET sent == IF idx + 1 \in DOMAIN list THEN list[idx + 1] ELSE <<>>
    IN  /\ Answer("argument", sent, <<>>, "", CcGetArg(Arguments(list), pending, idx, ARG_MAX))
        /\ Keep

Next ==
    \/ \E k \in ClientKey : \/ \E v \in ClientValue : Create(k, v) \/ Add(k, v)
                            \/ Query(k)
    \/ \E k \in LedgerKey, v \in ModuleValue : ModulePuts(k, v)
    \/ \E list \in ArgumentList, pending \in 0 .. 2, idx \in -1 .. ARGS_NUMBER :
           ModuleReadsArgument(list, pending, idx)

Spec == Init /\ [][Next]_vars

-----------------------------------------------------------------------------
(***************************************************************************)
(* Everything any module has written through cc_put_state can be read      *)
(* back: the proxy never drops it (main.cpp:294), the guest's buffer holds *)
(* all of it, and a query returns it whole in a message that can be sent.  *)
(* Rests on the agreement of limits in the natives, the proxy, the TA and  *)
(* the guest.                                                              *)
(***************************************************************************)
LedgerReadable ==
    \A k \in LedgerKey :
        /\ GetState(ledger[k]) = ledger[k]
        /\ ReturnResponse(ledger[k]) = ledger[k] /\ WellFormed(ledger[k])

\* Reference: the number that the leading digits of s denote, each by its place.
Denotes(s) ==
    LET n == CHOOSE m \in 0 .. Len(s) : /\ \A i \in 1 .. m : IsDigit(s[i])
                                        /\ m < Len(s) => ~IsDigit(s[m + 1])
        sum[m \in 0 .. n] == IF m = 0 THEN 0 ELSE sum[m - 1] + s[m] * Power[n - m]
    IN  sum[n]

IsNumeral(s) ==
    /\ s # <<>> /\ \A i \in 1 .. Len(s) : IsDigit(s[i])
    /\ s[1] = 0 => Len(s) = 1

(***************************************************************************)
(* add is addition: the text it stores is a numeral without leading zeros  *)
(* of the sum of what was stored and of the argument as cut to 63          *)
(* characters, modulo the word size, by a definition of decimal notation   *)
(* that is not the loops of s_atoul and s_ultoa.                           *)
(***************************************************************************)
AddIsAddition ==
    [][last'.fn = "add" /\ last'.resp = "OK" =>
          LET k == RequestKey(last'.key)
          IN  /\ IsNumeral(ledger'[k])
              /\ Denotes(ledger'[k]) =
                     (Denotes(ledger[k]) + Denotes(GuestValue(last'.val))) % Modulus]_vars

(***************************************************************************)
(* ARG_SIZE is "large enough" (chaincode_tee_ree_communication.h:10): no   *)
(* two keys that clients tell apart are one key of the ledger.             *)
(***************************************************************************)
KeysStayApart == \A k \in LedgerKey : \A r, s \in origin[k] : r = s

(***************************************************************************)
(* "arguments[0] is the function, behind it are the args"                  *)
(* (chaincode_native_functions.c:117): what cc_get_arg returns is (the     *)
(* beginning of) an argument the client has sent.                          *)
(***************************************************************************)
ArgumentsOnly == last.fn = "argument" => IsPrefix(last.text, last.key)
=============================================================================
