----------------------------- MODULE MCScanner -----------------------------
(* Small alphabets and a table with a variable, e, a function, ee, and a    *)
(* type, ie, with a declaration.  The identifier "include" is the single    *)
(* letter i.  idbuf has room for three letters and the NUL.                 *)
EXTENDS Mentions, TLC

MCLetters == {"e", "i"}
MCDigits == {"0"}
MCOtherChars == {Space, LParen, Hash} \cup MCLetters \cup MCDigits
MCIncludeWord == <<"i">>
MCIdTable == (<<"e">> :> [type |-> {"VAR"}, src1 |-> "errno.h", declare |-> FALSE])
          @@ (<<"e", "e">> :> [type |-> {"FUNCTION"}, src1 |-> "stdio.h", declare |-> FALSE])
          @@ (<<"i", "e">> :> [type |-> {"TYPEDEF"}, src1 |-> "stdio.h", declare |-> TRUE])
\* The same, with the word include as a variable.
MCIncludeTable == MCIdTable
          @@ (<<"i">> :> [type |-> {"VAR"}, src1 |-> "i.h", declare |-> FALSE])

\* Names, calls, directives, comments and literals; newlines as the white
\* space.
MCAlphabet == {"e", "i", Newline, LParen, Hash, Slash, DQuote}

MCGlue == {"e", Slash, Star, Newline}
MCInclude == {"e", "i", Hash, DQuote, Newline}
MCStale == {"e", "i", Hash, Newline, LParen}
============================================================================
