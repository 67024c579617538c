------------------------------- MODULE MCDict -------------------------------
(* A table of two buckets with one entry each.  Four names share the one   *)
(* bucket and two the other, so that chains of three and of one arise and   *)
(* interleave in the overflow array; two names even share their hash code. *)
EXTENDS Dict, TLC

MCNames == {"a", "b", "c", "d", "e", "f"}
MCHash == ("a" :> 0) @@ ("b" :> 2) @@ ("c" :> 2) @@ ("d" :> 4)
       @@ ("e" :> 1) @@ ("f" :> 3)
============================================================================
