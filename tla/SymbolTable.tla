---------------------------- MODULE SymbolTable ----------------------------
(***************************************************************************)
(* What dict.h promises: a table of distinct names, numbered from 1 in the *)
(* order in which they were first added, from which nothing is removed.   *)
(* An operation is called, takes effect at one moment, and returns.        *)
(***************************************************************************)
EXTENDS Integers, Sequences

CONSTANT Names

undef_symnr == 0

VARIABLES table,        \* the names, by symbol number
          status,       \* "idle", "called" or "applied"
          op, name,     \* the operation that is under way, and its argument
          result        \* the symbol number it will return, once applied

stvars == <<table, status, op, name, result>>

Range(t) == {t[i] : i \in 1..Len(t)}

NumberOf(t, n) ==
    IF n \in Range(t) THEN CHOOSE i \in 1..Len(t) : t[i] = n ELSE undef_symnr

Init ==
    /\ table = <<>>
    /\ status = "idle"
    /\ op = "find"
    /\ name \in Names
    /\ result = undef_symnr

Call ==
    /\ status = "idle"
    /\ status' = "called"
    /\ op' \in {"add", "find"}
    /\ name' \in Names
    /\ UNCHANGED <<table, result>>

Apply ==
    /\ status = "called"
    /\ status' = "applied"
    /\ table' = IF op = "add" /\ name \notin Range(table)
                  THEN Append(table, name) ELSE table
    /\ result' = NumberOf(table', name)
    /\ UNCHANGED <<op, name>>

Return ==
    /\ status = "applied"
    /\ status' = "idle"
    /\ result' = undef_symnr
    /\ UNCHANGED <<table, op, name>>

Next == Call \/ Apply \/ Return

Spec == Init /\ [][Next]_stvars
============================================================================
