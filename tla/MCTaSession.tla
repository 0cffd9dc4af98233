---------------------------- MODULE MCTaSession ----------------------------
(***************************************************************************)
(* One caller, one key, two-valued unsigned longs.  The memory is that of  *)
(* the program in units of about 3 MB: 12 MB of TA data, the proxy's       *)
(* heap of 10 MB; a module takes one unit, except the one that does not    *)
(* fit beside the heap.  The host also configures a heap that is small     *)
(* enough for two runtimes and may be too small for the module.            *)
(***************************************************************************)
EXTENDS TaSession

MCImageSize == [img \in Image |-> IF img = "huge" THEN 2 ELSE 1]

\* Every function of the chaincode on the key and on the empty key, with
\* numerals, a word and the empty string as argument; an unknown function
\* and an empty one.
MCHostArgs ==
    {[fn |-> f, key |-> k, val |-> 1] : f \in {"create", "add"}, k \in AnyKey}
    \union {[fn |-> f, key |-> k, val |-> Empty] : f \in {"create", "add", "other", ""}, k \in Key}
    \union {[fn |-> "create", key |-> k, val |-> Word] : k \in Key}
    \union {[fn |-> "query", key |-> k, val |-> Empty] : k \in AnyKey}
=============================================================================
