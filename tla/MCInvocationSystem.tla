------------------------ MODULE MCInvocationSystem ------------------------
(***************************************************************************)
(* Values for the constants of InvocationSystem.  Sizes as in MCTaSession. *)
(***************************************************************************)
EXTENDS InvocationSystem, TLC

\* Invocations differ in nothing but their requests, which are chosen freely.
CallerSymmetry == Permutations(Caller)

MCImageSize == [img \in Image |-> IF img = "huge" THEN 3 ELSE 1]

Coffee(f, k, v) == [image |-> "coffee", args |-> [fn |-> f, key |-> k, val |-> v]]

\* Every operation on the key, with values that collide and that wrap.
CoffeeRequests ==
    {Coffee("create", k, 1) : k \in Key} \union {Coffee("add", k, 1) : k \in Key}
    \union {Coffee("query", k, Empty) : k \in Key}

\* What clients may get wrong, and files that do not run.  (Any file may fail
\* to load.)
OddRequests ==
    {Coffee("create", k, Empty) : k \in Key}
    \union {Coffee("create", EmptyKey, 1), Coffee("other", EmptyKey, Empty)}
    \union {[image |-> img, args |-> ZeroArgs] : img \in {"blank", "oob", "corrupt", "huge"}}

AllRequests == CoffeeRequests \union OddRequests

\* The longest exchange for each key, so that with several keys transactions
\* of different clients have nothing in common.
Creates == {Coffee("create", k, 0) : k \in Key}
=============================================================================
