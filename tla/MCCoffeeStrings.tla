--------------------------- MODULE MCCoffeeStrings ---------------------------
(***************************************************************************)
(* Values for the constants of CoffeeStrings: binary numerals of a three-  *)
(* bit word, and buffers a few characters long in the proportions of the   *)
(* program (arguments shorter than values, numerals that fit in both).     *)
(***************************************************************************)
EXTENDS CoffeeStrings

Letter == Base + 3

Strings(chars, n) == UNION {[1 .. m -> chars] : m \in 0 .. n}

\* A key, one of which nothing is left, and one that is cut in the middle of
\* a character.
FewKeys == {<<Letter>>, <<Nul, 0>>, <<Letter, Letter, LeadByte, TailByte>>}

\* Two keys that differ only behind the last character that is kept.
LongKeys == {Append([i \in 1 .. ARG_SIZE - 1 |-> Letter], c) : c \in {0, 1}}

\* Every numeral that an argument buffer holds, some that are cut, and text
\* that is no numeral or only begins with one.
AllValues ==
    Strings({0, 1}, ARG_SIZE - 1)
    \union {[i \in 1 .. ARG_SIZE |-> d] : d \in {0, 1}}
    \union {<<Letter>>, <<Letter, 1>>, <<1, Letter>>, <<1, 1, Letter, 1>>, <<1, Nul, 1>>, <<Nul>>,
            <<LeadByte, TailByte, 1>>, <<1, 1, LeadByte, TailByte>>}

\* From values that fit to some that are longer than a value buffer.
LongValues ==
    {[i \in 1 .. n |-> c] : n \in VAL_SIZE - 3 .. VAL_SIZE + 1, c \in {1, Letter}}
    \union {<<1, 0, Nul, 1>>, [i \in 1 .. VAL_SIZE |-> CASE i = VAL_SIZE - 1 -> LeadByte
                                                       [] i = VAL_SIZE -> TailByte
                                                       [] OTHER -> Letter]}

FewValues == {<<1>>}

\* As many arguments as a request may carry, and more.
Lists == {[i \in 1 .. n |-> <<1>>] : n \in {0, 1, ARGS_NUMBER - 1, ARGS_NUMBER}}
==============================================================================
