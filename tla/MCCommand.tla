----------------------------- MODULE MCCommand -----------------------------
(* Two sources: a mentions an identifier twice and two headers out of      *)
(* order; b shares a header string with it, needs a header whose string    *)
(* ends with a Bar, and has a name with a byte above 127.  Standard input  *)
(* mentions two identifiers, one with two Bars in a row in its header      *)
(* string.  There are two tables with identifiers, so that a table that is *)
(* read again repeats one and the other does not, and an empty one.  The   *)
(* array ref_inc_table has room for one reference, and grows with each.    *)
(* The output goes to one file, to two, or to where standard output, or    *)
(* both, take nothing.                                                     *)
EXTENDS Command

MCHeaderText == <<<<"p">>, <<Bar, "q", Bar, "r">>, <<"s", Bar>>, <<Bar, Bar, "t">>>>
MCHeaderOf == <<2, 1, 2, 3, 4>>
MCSources == {"a", "b"}
MCNameBytes == [f \in {"a", "b", "-"} |->
    CASE f = "a" -> <<97>> [] f = "b" -> <<-61, 97>> [] OTHER -> <<45>>]
MCMentioned == [f \in {"a", "b", "-"} |->
    CASE f = "a" -> <<3, 2, 3>> [] f = "b" -> <<1, 4>> [] OTHER -> <<2, 5>>]
MCTableIds == {{}, {1, 2, 3}, {4, 5}}
MCLayouts == {<<"log", "log">>, <<"log", "tty">>, <<"closed", "tty">>, <<"full", "full">>}
============================================================================
