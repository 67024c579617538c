----------------------------- MODULE MCIdTable -----------------------------
(* A table of two names.  A line has at most four fields, so that the      *)
(* header field is the last one, and one line may have more.  The rows of  *)
(* two files of two lines each outgrow the array three times.              *)
EXTENDS IdTable

MCLetters == {"f", "x"}
MCNames == {"a", "b"}
MCHeaders == {"h"}
============================================================================
