--------------------------- MODULE MCWrapperSetup ---------------------------
(***************************************************************************)
(* Values for the constants of WrapperSetup: two uuids of 16 bytes, text   *)
(* that is valid but shorter, and text that is valid only at its beginning *)
(* (setup accepts hexadecimal text of any even length).                    *)
(***************************************************************************)
EXTENDS WrapperSetup, TLC

MCDecoded == [in \in {"uuid", "other"} |-> 16] @@ [in \in {"short"} |-> 8] @@ [in \in {"typo"} |-> 5]
=============================================================================
