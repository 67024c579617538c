----------------------------- MODULE MCCStream -----------------------------
(* CStream with the special characters as its alphabet.  In each of its    *)
(* states libcf treats the star or the newline as it does every character  *)
(* that is not special.  The other alphabet is for texts about division    *)
(* signs and character literals.                                           *)
EXTENDS CStream

MCOtherChars == {"x"}

MCAlphabet == Special
MCQuotes == {Slash, SQuote, "x"}
============================================================================
