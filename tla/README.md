# Chaincode execution in OP-TEE: a TLA+ model

This directory models the system of the repository: Hyperledger Fabric
chaincode that is compiled to WebAssembly and executed in an ARM TrustZone
enclave.  It states what makes the system correct, checks it with TLC on small
instances, and proves with TLAPS, for every value of the constants, the safety of
the trusted application (TA), of the wrapper's setup, of the strings on their way
through the buffers, and of the whole system, up to the refinement of an abstract
ledger.

## 1. The system

A client's transaction crosses four processes:

    Fabric peer            normal world of the board           secure world
    chaincode.go  <-gRPC->  fixed-proxy/main.cpp  <-TEEC->  wrapper_ta/ta  <->  guest
    (chaincode_wrapper)     (one thread per call)            (main.c)         (WASM)

| component | state it keeps | operations |
|---|---|---|
| **coffee chaincode** (`coffee_chaincode_wasm.c`) | `current_op`, `fsm_state`, `g_function`, `g_person`, `g_arg1`, `g_cur_val` | `step_resume`: create, add, query, each cut into steps at its ledger accesses |
| **native imports** (`chaincode_native_functions.c`) | none of their own; they read and write the session context | `cc_get_function`, `cc_get_arg`, `cc_get_state`, `cc_put_state`, `cc_return_response` |
| **wrapper_ta** (`ta/main.c`, `ta/wasm.c`, `session.h`) | `heap_size`, the session context, the static `runtime_ctx`, allocated memory | open session, `CONFIGURE_HEAP`, `RUN_WASM`, `RESUME_WASM` |
| **fixed-proxy** (`main.cpp`) | one `tee_ctx` for all threads: TEE context, session, buffers | `TransactionInvocation`, `execute_wasm_with_grpc_proxy`, `restart_session`, SIGINT |
| **chaincode_wrapper** (`chaincode.go`) | the stub of the transaction, the stored `Uuid` | `invoke` (dial, send, receive loop, ten-minute deadline), `setup` |
| **gRPC, OP-TEE, WAMR, Fabric** | external | streams; sessions and memory; module instances; simulation, MVCC and commit |

The guest cannot block.  When it needs the ledger it leaves a request in the
session context and returns; `process_hostcall_flow` hands the request to the
proxy as the result of the command, the proxy forwards it to the wrapper and
waits, the wrapper asks Fabric and answers, and the proxy resumes the guest with
`RESUME_WASM`.  When the guest has answered, the proxy sends the final response
and then restarts the TA session to get its memory back.

**What is hard here.**

* Every handler thread works on the same `tee_ctx` without a lock, and every
  handler closes and reopens it at its end.  Several handlers at a time are the
  normal case: the address of the proxy is a constant of `chaincode.go`, so all
  endorsing peers call the same one for the same transaction.
* The final response is sent *before* the restart.
* A guest's operation is spread over several commands of a host that the TA
  cannot trust to keep the protocol; `has_response`, `g_function` and
  `g_cur_val` survive from one step to the next.
* `RUN_WASM` replaces the arguments before it can fail, frees nothing, and
  reuses one static `runtime_ctx`; `CONFIGURE_HEAP` takes any size at any time, and
  the proxy does not look at its result.
* Strings pass through buffers of four files, each with limits of its own, and
  are cut by bytes.
* `t.Uuid` of the wrapper is shared by all goroutines, assigned by a setup
  before it is known to be valid, and lost with the process.
* Calls are cut by deadlines, by `exit(1)` in another thread's restart and by
  SIGINT, while Fabric decides later which write sets become real.

`PROJECT.json` lists each of these hazards at its line, with the properties that
would show it going wrong.

## 2. Modules

| module | what it models | extends |
|---|---|---|
| `ChaincodeTypes` | the shared structures: type word, argument block, key/value buffer, responses, `TEEC_Operation` | |
| `CoffeeChaincode` | guest and native imports, as relations from a context and instance to `sc'`, `wasm'` | `ChaincodeTypes` |
| `WrapperTA` | the command handlers around the guest, and TA memory | `CoffeeChaincode` |
| `TaSession` | a closed system: the TA under a host that issues any command at any time | `WrapperTA` |
| `GrpcStream` | messages of `invocation.proto` and the contract of a gRPC stream (external) | `ChaincodeTypes` |
| `ChaincodeWrapper` | `invoke` of `chaincode.go`, and Fabric's simulation and commit (external) | `GrpcStream` |
| `FixedProxy` | the handlers of the proxy and their shared `tee_ctx` | `WrapperTA`, `GrpcStream` |
| `CoffeeLedger` | the abstract specification: transactions that happen in one step | `ChaincodeTypes` |
| `InvocationSystem` | the composition, its fairness, its properties and the refinement | `ChaincodeWrapper`, `FixedProxy` |
| `CoffeeStrings` | what the modules above abstract from: keys, values and numerals as character strings on their way through all buffers; a transaction is one step | |
| `WrapperSetup` | `Init`, `setup` and the stored `Uuid` of the wrapper, with concurrent goroutines and restarts | |
| `MCTaSession`, `MCInvocationSystem`, `MCCoffeeStrings`, `MCWrapperSetup` | values of the constants for TLC | |
| `WrapperTAProofs` | lemmas about guest, native imports and commands, for the two systems that hold a TA | `WrapperTA`, `TLAPS` |
| `TaSessionProofs` | the theorems about `TaSession` | `TaSession`, `WrapperTAProofs` |
| `NumeralProofs` | induction by sets; what the cuts, `s_atoul` and `s_ultoa` compute for strings of any length | `CoffeeStrings`, `WellFoundedInduction`, `TLAPS` |
| `CoffeeStringsProofs` | the theorems about `CoffeeStrings` | `NumeralProofs` |
| `WrapperSetupProofs` | the theorem about `WrapperSetup` | `WrapperSetup`, `TLAPS` |
| `InvocationSystemProofs` | what holds in the whole system with any number of handlers | `InvocationSystem`, `WrapperTAProofs` |
| `ExclusiveProofs` | what holds while no two handlers are at work at once | `InvocationSystemProofs` |
| `RefinementProofs` | isolation, and the refinement of `CoffeeLedger`, under the same condition | `ExclusiveProofs` |

**Abstraction.**  In the modules of the composition strings are what the program tells apart: a ledger value is
the empty string, a numeral, or a word that is no number; a key is a model value
or the empty key; a function name is one of the three, another, or empty.
Control is complete: each early return of `RUN_WASM` and `RESUME_WASM` is a
disjunct, each call of `restart_session` is a step of its own, and each error
return of `invoke` is an action.  What this abstraction leaves out are lengths
and characters; they are the subject of `CoffeeStrings`, which in turn leaves
out the interleaving: there a string is a sequence of characters, each buffer on
the way is one operator named for it (`ProxyArgument`, `GuestKey`, `NativeKey`,
`PutValue`, `Deliver`, `GetState`, `ReturnResponse`), and NUL and a two-byte
character are characters a client may send.

**State and code.**  `sc` is `*g_chaincode_sess`; its field `out` says whether
`wasm_out_offset`/`wasm_out_len` are set.  `wasm` is the linear memory of the
instance, with image `"none"` for a zeroed `runtime_ctx` and `"dead"` for a TA that
has panicked.  `op[c]` is the
`TEEC_Operation` on the stack of thread `c` after its last command.  `hpc[i]` is
the program counter of handler `i`; the steps `close`, `finalize`, `free`,
`allocate`, `initialize`, `open`, `configure` are the calls of
`restart_session` in order, and at `opening` the handler is inside
`TEEC_OpenSession`.  `opening[i]` says what has become of the context that call works
in, and `late` that the id in `ctx.sess` came from a call that another restart had
overtaken.  `asked`, `got`, `small`, `owner`, `orphans`, `leaked` and `faults` are
history variables; no guard reads them.  `orphans` counts sessions
that nobody names any more in the context that is still open, `leaked` those whose
context was overwritten too; only the end of the process returns the latter.

**Modelling decisions.**

* The TA sets no `TA_FLAG_SINGLE_INSTANCE`, so OP-TEE runs each session in its
  own instance: a new session starts with zeroed globals and all its memory.
  OP-TEE serialises the commands of one session; a command is one action, with its
  effect when it is issued.
* `TEEC_OpenSession` is two actions, its call and its return: it reads `ctx.ctx`, waits
  for the TA to be loaded, and fills in `ctx.sess` at its end.  If the context has been
  finalized meanwhile, the session goes with the file; if it has been overwritten, the
  session stays and nothing names it; either way `ctx.sess` is no usable session
  afterwards.  The other TEEC calls are one action each (`TEEC_InitializeContext` at
  its end).  Two narrower windows are left out: between the moment a command reads
  `ctx.sess` and the entry into the driver, and a stale id that happens to equal the id
  of another session.
* Every command of the proxy may fail without reaching the TA, with or without an open
  session.  After `RUN_WASM` and `RESUME_WASM` the handler gives up; the failure of
  `CONFIGURE_HEAP` is ignored, in a restart as at the start of the server, and leaves
  `heap_size` 0.
* A heap that is smaller than the proxy's may or may not do for a module; with none
  WAMR does not start.
* A step of a zeroed `runtime_ctx` dereferences a null `module_inst`: the TA panics, and
  OP-TEE answers every further command of the session with `TEE_ERROR_TARGET_DEAD`.
* `call_step` fails when WAMR reports a trap other than an out-of-bounds one or
  a function is missing.  Any step may fail, before it has changed anything.  An
  out-of-bounds trap counts as success in the code; the image `"oob"` does that.
* The images `"corrupt"` (does not load), `"huge"` (does not fit beside the
  heap), `"blank"` (empty response) and `"missing"` (no such file) reach the
  other error paths.
* After a free, a second free of the same pointer goes unnoticed
  or aborts the process; both are possible steps.
* `t.Uuid` is a slice.  Its two words are written by two steps in either order,
  because `setup` and `invoke` do not synchronise; a length without an array
  makes the reader panic, and the peer starts the chaincode again.
* A protobuf `string` that is no UTF-8 is refused by the receiver in Go, so a
  request whose key or value was cut within a character fails at the wrapper.
* Lines 96 and 259 of `ta/main.c` are what is left of removed comments and do
  not compile; the model is of the code around them.

## 3. Runs

| run | instance | shows |
|---|---|---|
| `ta_session` | 1 caller, 1 key, 2-valued words, 2 heap sizes, any command at any time | `TypeOK`, `RuntimeHasInstance`, `Continuation`, `PutFollowsGet`, `RunKeepsRuntime`, `AnswersFollowReads` |
| `exclusive` | 2 calls, 1 handler at a time, all requests, 1 SIGINT | `TypeOK`, `LockStep`, `RuntimeOwned`, `MemoryCleaned`, `SessionsReturned`, `NoStaleResource`, `ImplementsCoffeeLedger` |
| `concurrent` | 2 calls, 2 handlers at a time, 1 SIGINT, fair | `LockStep`, `QuiescentReady`, `InvokeReturns`, `HandlerEnds` |
| `strings` | binary numerals of 3 bits, buffers of 4 and 7 characters | `LedgerReadable`, `AddIsAddition` |
| `setup` | 3 goroutines, 4 setup arguments | `SliceUsable` |
| `serial_client` | 2 calls, 1 waiting at a time | **violated**: `AnsweredMeansCleaned` |
| `isolation` | 3 calls on 2 keys, 2 handlers | **violated**: `CompleteIsolation` |
| `lost_sessions` | 2 calls, 2 handlers | **violated**: `SessionsReturned` |
| `stale_resource` | 2 calls, 2 handlers | **violated**: `NoStaleResource` |
| `long_keys` | as `strings`, 2 keys longer than a buffer | **violated**: `KeysStayApart` |
| `arguments` | as `strings` | **violated**: `ArgumentsOnly` |
| `failed_setup` | 1 goroutine, 1 invalid argument | **violated**: `SentWasAccepted` |

**What they say.**  The TA by itself is sound against hosts that issue the commands in
any order and with any arguments, with one condition: the host configures no heap
of at most half of the TA's memory.  Then the guest's state machine and the pending
request agree, a write leaves the TA only after a read of the same key that
justifies it, and a second `RUN_WASM` cannot disturb a session (which rests on
nothing but the memory limit).  The proxy keeps the condition, with 10 MB of 12.  A
host that does not keep it can make `RUN_WASM` zero the `runtime_ctx` of an
invocation in progress and the TA panic; the model follows it there (the `small`
sessions of `ta_session`), and the properties promise nothing for such a session.

While the proxy's handlers do not overlap, the system is a transactional ledger.  The
code does not enforce that; `serial_client`, `isolation`, `lost_sessions` and
`stale_resource` show what follows, the others disagreements inside one component:

* `serial_client`: the answer of call 1 is out, its handler has not closed the
  session yet, call 2 stands before `RUN_WASM` in the old session.  A client that
  waits for each answer is not safe from it: `AnsweredMeansCleaned` asks for a clean
  session only if every other call has had its answer, so no deadline and no failed
  call is part of the trace, and a restart before the answer would satisfy it.  The
  comment at `main.cpp:422` promises cleaned memory.
* `isolation`: with two handlers the restart of one takes the runtime of the
  other (`session.h:20` calls it owned), and a resume may step somebody else's
  guest, so a call succeeds with the other's key in its write set
  (`README.md:26`).
* `lost_sessions`: handler 1 is inside `TEEC_OpenSession`; handler 2 closes and
  finalizes, opens a context and a session of its own; the return of handler 1 then
  overwrites `ctx.sess`.  The session of handler 2 is open and nobody can close it, and
  `ctx.sess` is unusable though both handlers have ended (`main.cpp:380` speaks of
  memory clean-up).
* `stale_resource`: handler 1 has set up its operation with `ctx.output_buffer`, the
  restart of handler 2 frees the block, and the `RUN_WASM` of handler 1 hands it to the
  client library (`main.cpp:131`, the comment at 110).
* `long_keys`: keys are cut to 63 characters without an error
  (`chaincode_tee_ree_communication.h:10` calls the size sufficient).
* `arguments`: `cc_get_arg` with index 9 returns `pending_type` as text
  (`chaincode_native_functions.c:116`, the comment at 117).
* `failed_setup`: `setup` assigns what could be decoded before it looks at the
  error; the next invocation sends it (`chaincode.go:65`, the comment at 28).

Three smaller facts the models show and no run states: create with the empty key
leaves a request pending in `fsm_state` 0, whose answer then does nothing, and the
client gets `NO_RESPONSE` as a success (the disjunct for it in `Continuation`);
an invocation beside the first setup of a process may read a length without an array
and panic, and beside two setups of different lengths it may send the array of one
with the length of the other (`SliceUsable` says that nothing worse happens, and
neither among uuids of one length); and the
proxy serves every invocation by `TA_WAMR_UUID`, whatever uuid it carries.

The strings themselves are sound where they are short enough: what any module
has written through `cc_put_state` fits every buffer on its way back and is valid
UTF-8 (`LedgerReadable`; the limit of 255 in `cc_put_state` is the only reason why
the proxy's silent drop of longer values does not happen), and `add` is addition
modulo the word size by a definition of notation that is not the program's loops.
Both are proved for all sizes (section 4).

What survives concurrency is in `concurrent`: the turn-taking on each stream, the
termination of all calls and handlers, and a server that can be repaired once the
last handler has ended.  Not more than that: a late `TEEC_OpenSession` may leave an
unusable session, and a failed `CONFIGURE_HEAP` one without a heap.  In both cases the
next `RUN_WASM` fails, and the restart of its handler repairs the session; for this it
needs an open context and live buffers, which `QuiescentReady` promises.

**Bounds.**  `Modulus = 2` makes `1 + 1` wrap, and two numerals tell a changed
value from an unchanged one.  One key suffices where transactions have to
collide; isolation needs two.  Two calls give every pairwise interleaving of
handlers; `isolation` needs a third: the restart of the first renews the session
under the second, the third starts its module there, and the second resumes it.  `TaDataSize = 12`, `HeapSize = 10` are the program's sizes in MB: one
heap fits, two do not.  `ta_session` counts in units of about 3 MB (4 and 3), because
with the small heap of 1 unit the memory in use takes every value between; there a
small heap leaves room for a second runtime and may be too small for the module.  `MaxCalls` and `MaxHandlers` bound concurrency and are the
parameters of the experiment: the code bounds neither.  `MaxHandlers = 1` is an
assumption on the deployment, equivalent to a lock around
`TransactionInvocation`.  `MaxSigints` bounds how often the server is ended from
outside.  Symmetry over `Caller` is used in the safety runs only; invocations
differ in nothing but the requests they choose.

`strings` keeps the order of the program's sizes (an argument buffer is shorter
than a value buffer, the largest numeral fits both) and makes them so small that
values and keys of every length around each limit occur: numerals of all lengths an
argument holds, cut ones, text that only begins with digits, NULs, and characters
split at the limit.  `concurrent` has one request, a create, which has the longest
exchange; `exclusive` has them all.  `setup` has one goroutine more than a race needs, so that an
invocation runs beside two setups.

**Deadlock** is checked in all runs.  `AllDone` is the stuttering step of a
system in which every call has been answered and decided.

**Fairness.**  Weak fairness of `RecvStep`, `AcceptStep` and `HandlerStep` for
each call: the Go scheduler runs the goroutine, the threads of the gRPC server
are scheduled, and gRPC delivers or reports an error.  The deadline, Fabric's
decision, SIGINT and the restart of the server are not assumed to happen, so
`InvokeReturns` holds without the help of the deadline.

**Mutants.**  For every property of a passing run the model holds a mutated form
of a definition (marked `Mutant:`), a bug this code might well have had, under
which TLC finds the property violated.

## 4. Theorems

| module | theorem | statement |
|---|---|---|
| `TaSessionProofs` | `Invariance` | `Spec => []IInv` |
| | `TypeCorrect` | `Spec => []TypeOK` |
| | `RuntimeSafe` | `Spec => []RuntimeHasInstance` |
| | `ContinuationHolds` | `Spec => []Continuation` |
| | `WritesFollowReads` | `Spec => []PutFollowsGet` |
| | `RuntimeKept` | `Spec => RunKeepsRuntime` |
| | `AnswersRight` | `Spec => AnswersFollowReads` |
| `WrapperSetupProofs` | `SliceStaysUsable` | `Spec => []SliceUsable` |
| `CoffeeStringsProofs` | `StoredIsReadable` | `Spec => []LedgerReadable` |
| | `AddAdds` | `Spec => AddIsAddition` |
| | `ShortKeysStayApart` | keys that fit their buffer imply `Spec => []KeysStayApart` |
| | `OneIndexAstray` | `Spec => [][ReadsInside => ArgumentsOnly']_vars` |
| `InvocationSystemProofs` | `Invariance` | `Spec => []IInv` |
| | `TypeCorrect` | `Spec => []TypeOK` |
| | `TurnsTaken` | `Spec => []LockStep` |
| | `RestartsConverge` | `Spec => []QuiescentReady` |
| `ExclusiveProofs` | `LockMeansAlone` | `MaxHandlers = 1` implies `Spec => []Alone` |
| | `AloneInvariance` | `Spec /\ []Alone => []EInv` |
| | `RuntimeIsOwned` | `Spec /\ []Alone => []RuntimeOwned` |
| | `MemoryIsCleaned` | `Spec /\ []Alone => []MemoryCleaned` |
| | `NoSessionLost` | `Spec /\ []Alone => []SessionsReturned` |
| | `NoStaleUse` | `Spec /\ []Alone => []NoStaleResource` |
| `RefinementProofs` | `JustifiedInvariance` | `Spec /\ []Alone => []RInv` |
| | `Isolated` | `Spec /\ []Alone => []CompleteIsolation` |
| | `Implements` | `Spec /\ []Alone => ImplementsCoffeeLedger` |

**Assumptions.**  All are named in the module that declares the constants, and TLC
evaluates them in every run that uses the module:

* `KeyAssumption`, `ModulusAssumption`: the empty key is no key, a word has at least
  one value;
* `SizeAssumption`, `OneRuntimeFits`: the proxy's heap fits into the TA's memory and two
  do not (10 MB of 12 MB), and module files are not empty;
* `HostHeapAssumption`: the heap sizes a host may choose are numbers, whatever numbers;
* `HostArgsAssumption`, `RequestAssumption`: the arguments of a host or client are
  argument blocks;
* `CallerAssumption`, `BoundsAssumption`: finitely many invocations, and the bounds of
  the model are numbers.  Finiteness is needed to count the handlers at work and
  the sessions they open;
* `InputAssumption`: a decoded `Uuid` has a length;
* `SizesAgree`: the limits of guest, natives, proxy and TA are the same numbers where
  they should be, as the headers define them; `NumeralsFit`: the base is at least 2
  and every number of a word has a numeral that a value buffer holds (2^32 and 255
  characters); `StringsAssumption`: what clients and modules pass are strings.

`Alone` (no two handlers at work) is no assumption but a hypothesis of the theorems that
need it, on the behaviour and not on a bound: the code does not guarantee it, and the
runs `serial_client`, `isolation`, `lost_sessions` and `stale_resource` show that
four of those theorems are false without it.  Together they say that the overlap of
handlers is the only cause of what these runs show.  `LockMeansAlone` says that a lock
would be enough.

**The TA** (`TaSession`).  `IInv` says what holds of types in any session, and
what holds in one without a small heap, which adds two things to the properties.
First the memory argument (`SessionOK`): every heap configured is larger than half
of the TA's memory, and a session with a runtime has that much in use, so a further
`RUN_WASM` runs out of memory before it zeroes `runtime_ctx`.  Second, what the guest remembers (`GuestOK`): in state
11, 21 or 31 with a request pending, `g_cur_val` is still clear and `g_person` is the
key asked for; once the answer is in, `g_cur_val` is that answer; and a module
that never responds (`"oob"`) has no response of another in its context.  `PutFollowsGet` alone is
not inductive because it says nothing of the states between the read and the
write; `AnswersRight` follows step by step, since every command's response fits the
invariant it is given under (`AnswerOK`).  The proof goes bottom-up: types of the native imports, one lemma for a
step of the guest, one for `process_hostcall_flow`, one per command (all in
`WrapperTAProofs`, where key and answer are parameters), and `Inductive`.

**The stored `Uuid`** (`WrapperSetup`).  A word of the slice that some setup has
written holds, ever after, what some setup begun since the start of the process has
written there (`Fresh`), and a setup that returns has written both words
(`StoredInv`).  With setups of one length it does not matter whose the length is.

**The strings** (`CoffeeStrings`).  `StringsInv` says that every stored text fits a
value buffer and is UTF-8, and that whoever has written under a key has asked for
it.  It is inductive because `PutValue` cuts whatever it is given; `StoredIsReadable`
then is the fact that a cut leaves alone what fits (`CutKeeps`), at each limit in
turn.  `ShortKeysStayApart` and `OneIndexAstray` are the other side of the findings
`long_keys` and `arguments`: keys collide only by being cut, and of all indices
`cc_get_arg` goes wrong at one.

`AddAdds` needs what two loops compute, by induction.  The library's induction
theorems take a predicate as parameter, which the provers cannot instantiate; its
`WFMin` does not: a nonempty set of numbers has a least member, so a *set* that holds
zero, and with each number the next, is `Nat` (`Induction`, `StrongInduction`).  With it
`NumeralProofs` shows, in this order, that the recursive functions involved (`Power`,
the sum in `Denotes`, the fold in `s_atoul`, `DigitLoop`) have a solution and are it;
that the sum of digits by their places is what reading from the left gives
(`DenotesIs`: after k of n digits, the sum is the number read so far shifted by the
n - k places left); that the loop of `s_atoul` is that reading modulo the word size,
because reducing early does not matter (`AtoulIs`); and, by strong induction on the
number, that the loop of `s_ultoa` writes digits, as few as needed, the first of them
no zero, that read back as the number (`LoopWrites`, `UltoaWrites`).

**The whole system, any number of handlers** (`InvocationSystemProofs`).  `IInv` is the
conjunction of

* `TypeInv`: `TypeOK` without its bounds on counters, and with the messages each
  stream may carry;
* `StreamInv`: at most one of the two streams of a call holds a message; both are
  empty while its handler computes; where the handler reads, what arrives answers
  what it has asked (`ChannelOK`); and wrapper, call and handler know the same of the
  call's state (`PartiesOK`).  This is `LockStep` with the states in which nobody
  waits;
* `TaInv`: the invariant of the TA, for some key and answer.  It holds
  although handlers step each other's guests, because it holds against any host that
  configures the proxy's heap, or none when the command has failed;
* `RepairInv`: whatever is missing from `tee_ctx` (buffers, context, session) some
  handler is on its way to supply, unless the session is missing because a late
  `TEEC_OpenSession` has overwritten it, and whoever has used the TA's memory has yet to
  return it.  `QuiescentReady` is its special case without handlers, and
  not inductive without it.

`TypeCorrect` also needs `CountInv`, which counts sessions against the handlers that
have opened one: the bound on lost sessions in `TypeOK` is what the code's missing
lock can cost at most.

**Handlers that do not overlap** (`ExclusiveProofs`).  `EInv` says what the one handler at
work may rely on at each of its steps (`SoleOK`): a clean TA before `RUN_WASM`, its own runtime in the loop, live buffers up
to their free, a context up to its finalization, no session while it opens one, and
the context it opens it in.  Each step keeps it because `Alone` holds after the step:
whoever reads a request then was the first.

**The refinement** (`RefinementProofs`).  `RInv` says for each call, from its request
to Fabric's decision, that a response on its way to the client is `Justified`: the
transaction has read the value that the answer follows from, Fabric will mark the
transaction stale if the ledger no longer holds that value, and the write set is
what the operation writes from it and nothing else.  To get there the guest's
position is tied to the request of the one call at work (`AtGet`, `AtPut`), and so are
the messages on its streams and the handler's operation; this is the part that
fails with two handlers.  `RInv` keeps read and write set on the call's own key,
which is `Isolated`.  The simulation maps `Invoke` to `Submit`, each error return of
`invoke` and Fabric's `Invalidate` to `Abort`, `Commit` to the operation that `Justified`
names (`Create`, `Add`, `Query`, `Unknown`, `Fails`, `Foreign`), and every other step to a
stutter.  `RInv` and all the invariants above, `StringsInv` included, were checked with TLC on the
instances of section 3 before they were proved.

**Only model-checked** (every other property of a passing run has its theorem).

* `InvokeReturns` and `HandlerEnds`: liveness under fairness (and `ENABLED`) is beyond
  this prover.

No module declares a `RECURSIVE` operator.

## 5. Not modelled

The program's own code is the guest, the TA, `fixed-proxy/main.cpp`,
`chaincode.go` and the protocol, about 2,000 lines, and every operation of it
that changes state is an action.  The other 350 files are the gRPC and protobuf
headers that `fixed-proxy/include` carries along (some 80,000 lines, declarations
and generated accessors of libraries); modelling them would say nothing of this
system, and their behaviour enters as the external contract of `GrpcStream`.
Also left out:

* dead code: `TA_ExecuteWamrRuntime`, `TA_TearDownWamrRuntime`,
  `TA_HashWasmBytecode`, `set_uuid` and the guest's `main` have no caller;
* `cc_log`, `debug_log`, `memset`, `memcpy`, `memmove` for the guest, and all
  printing and time measurement: they change no state that is read again;
* the deployment of Fabric: endorsement by several peers and ordering enter only
  as the set of calls that run at once and as `Commit` and `Invalidate`;
* build files and documents.

## 6. Plan

Done: all components of section 1 modelled, their runs and findings, and a theorem
for every safety and action property that holds, the refinement included.  For the
properties that the code breaks there is, where one exists, a theorem with the
condition under which they hold: handlers that do not overlap for `MemoryCleaned` (and
so `AnsweredMeansCleaned`), `CompleteIsolation`, `SessionsReturned` and
`NoStaleResource`, short keys for `KeysStayApart`, all indices
but one for `ArgumentsOnly`.  What could follow:

1. Statements that the present invariants already carry and no run asks for, where
   they say something about the code: which handlers can disturb which, with
   `MaxHandlers` arbitrary.
2. Measures for the two liveness properties, as far as they can be stated without
   fairness.
