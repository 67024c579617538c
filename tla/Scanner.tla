------------------------------ MODULE Scanner ------------------------------
(***************************************************************************)
(* The scan of one C source file, incbot_src_stream(): it reads the code   *)
(* characters of the file through libcf (cf_getc), picks the identifiers,  *)
(* tells a call f(...) from any other mention, leaves the contents of      *)
(* #include directives alone, and records for each identifier that the     *)
(* identifier table knows the header that declares it.                     *)
(*                                                                         *)
(* pc is where in the function control is; c, idbuf, lnr, col,             *)
(* in_preprocessor and find_type are its local variables.  An identifier   *)
(* is the sequence of its characters.  The identifier table is a constant: *)
(* it was loaded before any file is scanned.  pc "undefined" is an access  *)
(* outside an array.  src records the characters that fgetc() returned.    *)
(***************************************************************************)
EXTENDS CTokens

CONSTANTS Letters,      \* the letters and '_'
          Digits,
          Alphabet,     \* the characters of the files that are scanned
          MaxLen,       \* the length of the longest file
          IncludeWord,  \* the identifier "include"
          IdBufSize,    \* the size of idbuf
          IdTable       \* identifier -> [type : set of types, src1 : header,
                        \*                declare : its row has a declaration]

Space  == "space"
LParen == "lparen"
Hash   == "hash"

Types == {"UNKNOWN", "FUNCTION", "TYPEDEF", "KEYWORD", "CONSTANT", "VAR", "STRUCT"}

NoHeader == "no header"         \* an empty src1 field

is_identifier_start(chr) == chr \in Letters
\* MUTANT: everything up to the next blank.
is_identifier_Loose(chr) == chr \notin {EOF, Space, Newline}

is_identifier(chr) == chr \in Letters \cup Digits
isspace(chr) == chr \in {Space, Newline}

Words == {w \in Seq(Letters \cup Digits) : w # <<>> /\ is_identifier_start(w[1])}

ASSUME ScannerAssumption ==
    /\ {Space, LParen, Hash} \cup Letters \cup Digits \subseteq OtherChars
    /\ Letters \cap Digits = {}
    /\ {Space, LParen, Hash} \cap (Letters \cup Digits) = {}
    /\ Alphabet \subseteq Chars
    /\ MaxLen \in Nat
    /\ IncludeWord \in Words
    /\ IdBufSize \in Nat
    /\ DOMAIN IdTable \subseteq Words
    /\ \A w \in DOMAIN IdTable :
          IdTable[w].type \subseteq Types /\ IdTable[w].declare \in BOOLEAN

VARIABLES pc, c, idbuf, lnr, col, in_preprocessor, find_type, ref_inc_table, src

locals == <<c, idbuf, lnr, col, in_preprocessor, find_type, ref_inc_table>>
vars == <<state, cclass, err, ccv, rv, pc, c, idbuf, lnr, col, in_preprocessor,
          find_type, ref_inc_table, src>>

Init ==
    /\ cf_init
    /\ pc = "main"
    /\ c = Nul
    /\ idbuf = <<>>
    /\ lnr = 0
    /\ col = 0
    /\ in_preprocessor = FALSE
    /\ find_type = {}
    /\ ref_inc_table = <<>>
    /\ src = <<>>

----------------------------------------------------------------------------
\* cf_getc: the next character of code.

Reading == {"main", "ident", "space", "include"}    \* where it is called

IsCode(sc) == sc.ccl \in {"CC_CODE", "CC_EOF", "CC_ERR"}

CodeAt == {i \in 1..Len(ccv) : IsCode(ccv[i])}

\* An empty array is filled by passing the next character of the file, or
\* EOF, to cf_next.  If cf_next fails, the program exits.
Fill(chr) ==
    /\ pc \in Reading
    /\ ccv = <<>>
    /\ cf_next(chr)
    /\ src' = IF chr = EOF \/ state = "S_EOF" THEN src ELSE Append(src, chr)
    /\ pc' = IF rv' \in {"0", "EOF"} THEN pc ELSE "exit"
    /\ UNCHANGED locals

FillChar == Len(src) < MaxLen /\ \E chr \in Alphabet : Fill(chr)

FillEOF == Fill(EOF)

\* An array without a character of code is emptied.
SkipNonCode ==
    /\ pc \in Reading
    /\ ccv # <<>>
    /\ CodeAt = {}
    /\ ccv' = <<>>
    /\ UNCHANGED <<state, cclass, err, rv, pc, src, locals>>

\* cf_getc returns chr, the first character of code in the array, which
\* loses it and everything before it.
cf_getc(chr) ==
    /\ CodeAt # {}
    /\ LET k == CHOOSE i \in CodeAt : \A j \in CodeAt : i <= j
       IN  /\ chr = (IF ccv[k].ccl = "CC_EOF" THEN EOF ELSE ccv[k].chr)
           /\ ccv' = SubSeq(ccv, k + 1, Len(ccv))
    /\ UNCHANGED <<state, cclass, err, rv, src>>

----------------------------------------------------------------------------
\* The main loop takes a character; an identifier may start with it.

MainChar ==
    /\ pc = "main"
    /\ \E chr \in Chars \cup {EOF} :
        /\ cf_getc(chr)
        /\ c' = chr
        /\ IF chr = EOF
             THEN pc' = "done" /\ UNCHANGED <<lnr, col, in_preprocessor, idbuf>>
             ELSE /\ lnr' = IF chr = Newline THEN lnr + 1 ELSE lnr
                  /\ col' = IF chr = Newline THEN 0 ELSE col + 1
                  /\ in_preprocessor' = \/ chr = Hash /\ col' = 1
                                        \/ chr # Newline /\ in_preprocessor
                  /\ pc' = IF is_identifier_start(chr) THEN "ident" ELSE "main"
                  /\ idbuf' = IF is_identifier_start(chr) THEN <<chr>> ELSE idbuf
    /\ UNCHANGED <<find_type, ref_inc_table>>

\* MUTANT: the array has one character less.
Overruns_Early(word) == Len(word) >= IdBufSize - 1

\* There is no room behind word for another character, nor for the NUL.
Overruns(word) == Len(word) >= IdBufSize

\* The rest of an identifier, up to the first other character.
IdentChar ==
    /\ pc = "ident"
    /\ \E chr \in Chars \cup {EOF} :
        /\ cf_getc(chr)
        /\ c' = chr
        /\ IF Overruns(idbuf) THEN pc' = "undefined" /\ UNCHANGED <<idbuf, col>>
           ELSE IF is_identifier(chr)
             THEN idbuf' = Append(idbuf, chr) /\ col' = col + 1 /\ UNCHANGED pc
             ELSE /\ pc' = IF isspace(chr) THEN "space" ELSE "word"
                  /\ UNCHANGED <<idbuf, col>>
    /\ UNCHANGED <<lnr, in_preprocessor, find_type, ref_inc_table>>

\* White space behind an identifier, newlines included.
SpaceChar ==
    /\ pc = "space"
    /\ \E chr \in Chars \cup {EOF} :
        /\ cf_getc(chr)
        /\ c' = chr
        /\ pc' = IF isspace(chr) THEN "space" ELSE "word"
    /\ col' = col + 1
    /\ UNCHANGED <<idbuf, lnr, in_preprocessor, find_type, ref_inc_table>>

\* Where control goes with a complete identifier.
AfterWord == IF in_preprocessor /\ idbuf = IncludeWord THEN "include" ELSE "lookup"

\* MUTANT: the comparison is turned around.
cf_ungetc_Reversed(chr) ==
    IF Len(ccv) <= NLOOKAHEAD
      THEN pc' = "exit" /\ UNCHANGED ccv
      ELSE ccv' = <<[chr |-> chr, ccl |-> "CC_CODE"]>> \o ccv /\ pc' = AfterWord

\* MUTANT: the character is dropped.
cf_ungetc_Drops(chr) == pc' = AfterWord /\ UNCHANGED ccv

\* cf_ungetc puts a character back in front of the array; when there is no
\* room the program exits with ENOBUFS.
cf_ungetc(chr) ==
    IF Len(ccv) >= NLOOKAHEAD
      THEN pc' = "exit" /\ UNCHANGED ccv
      ELSE ccv' = <<[chr |-> chr, ccl |-> "CC_CODE"]>> \o ccv /\ pc' = AfterWord

\* The identifier is complete and c is the next character that is not white
\* space.  A '(' makes it a call.  The start of another identifier is put
\* back; any other character is dropped.
WordEnd ==
    /\ pc = "word"
    /\ find_type' = IF c = LParen THEN {"FUNCTION", "KEYWORD"}
                                  ELSE Types \ {"FUNCTION"}
    /\ IF is_identifier_start(c)
         THEN cf_ungetc(c)
         ELSE pc' = AfterWord /\ UNCHANGED ccv
    /\ UNCHANGED <<state, cclass, err, rv, src, c, idbuf, lnr, col,
                   in_preprocessor, ref_inc_table>>

\* MUTANT: the end of the file does not end the line.
AfterSkipped_OnlyNewline(chr) == IF chr = Newline THEN "lookup" ELSE "include"

AfterSkipped(chr) ==
    CASE chr = Newline -> "lookup" [] chr = EOF -> "done" [] OTHER -> "include"

\* The rest of the line of an #include directive is skipped.
IncludeChar ==
    /\ pc = "include"
    /\ \E chr \in Chars \cup {EOF} :
        /\ cf_getc(chr)
        /\ c' = chr
        /\ pc' = AfterSkipped(chr)
        /\ IF chr = Newline
             THEN lnr' = lnr + 1 /\ col' = 0 /\ in_preprocessor' = FALSE
             ELSE UNCHANGED <<lnr, col, in_preprocessor>>
    /\ UNCHANGED <<idbuf, find_type, ref_inc_table>>

\* id_find: the table has the identifier, with one of the wanted types.
id_find(word, type_mask) ==
    /\ word \in DOMAIN IdTable
    /\ IdTable[word].type \cap type_mask # {}

\* The identifier is one whose header is to be included.
Wanted(word, type_mask) ==
    /\ id_find(word, type_mask)
    /\ IdTable[word].src1 # NoHeader
    /\ IdTable[word].type # {"KEYWORD"}

\* MUTANT: = for ==.
CountLine_Assigns == lnr + 1

\* The line that c ends.
CountLine == IF c = Newline THEN lnr + 1 ELSE lnr

\* The declaration of a type is a string of strtable, and its number is
\* looked up in id_symtable, which may not have that many.
LooksUpDeclaration ==
    /\ id_find(idbuf, find_type)
    /\ IdTable[idbuf].type = {"TYPEDEF"}
    /\ IdTable[idbuf].declare

\* Look the identifier up and, if its header is known, record the pair.
Lookup ==
    /\ pc = "lookup"
    /\ ref_inc_table' =
          IF Wanted(idbuf, find_type)
            THEN Append(ref_inc_table, [ref_sym |-> idbuf,
                                        inc_sym |-> IdTable[idbuf].src1,
                                        ref_lnr |-> lnr])
            ELSE ref_inc_table
    /\ lnr' = CountLine
    /\ \/ pc' = IF c = EOF THEN "done" ELSE "main"
       \/ pc' = "undefined" /\ LooksUpDeclaration
    /\ UNCHANGED <<state, cclass, err, ccv, rv, src, c, idbuf, col,
                   in_preprocessor, find_type>>

Next == \/ FillChar \/ FillEOF \/ SkipNonCode
        \/ MainChar \/ IdentChar \/ SpaceChar \/ WordEnd \/ IncludeChar \/ Lookup

\* The program runs alone and none of its steps waits for another: as long
\* as a step is possible one is taken.
Spec == Init /\ [][Next]_vars /\ WF_vars(Next)

----------------------------------------------------------------------------
\* An entry of ref_inc_table: an identifier of the table, and its header.
Ref == [ref_sym : DOMAIN IdTable,
        inc_sym : {IdTable[w].src1 : w \in DOMAIN IdTable},
        ref_lnr : Nat]

\* Every variable has its type.
TypeOK ==
    /\ CFilterTypeOK
    /\ pc \in Reading \cup {"word", "lookup", "done", "exit", "undefined"}
    /\ c \in Chars \cup {EOF}
    /\ idbuf \in Seq(Letters \cup Digits)
    /\ lnr \in Nat
    /\ col \in Nat
    /\ in_preprocessor \in BOOLEAN
    /\ find_type \subseteq Types
    /\ ref_inc_table \in Seq(Ref)
    /\ src \in Seq(Chars)

\* No text makes the scan exit: cf_next never fails, and the array of
\* super-characters always has room for the character that cf_ungetc puts
\* back ("Capacity is %zu, which ought to be enough").
NeverExits == pc # "exit"

\* The scan of every file comes to its end.
Terminates == <>(pc \in {"done", "undefined"})
============================================================================
