------------------------------ MODULE IdTable ------------------------------
(***************************************************************************)
(* The identifier table: read_id_table_file() loads a file that describes  *)
(* one identifier per line in fields separated by ';'.  An identifier gets *)
(* a number from the symbol table id_symtable and a row of the array       *)
(* id_table; nothing but their order ties the two together: row nr - 1 is  *)
(* taken for the identifier with number nr.  Any number of files are       *)
(* loaded, one after the other, into the same table.                       *)
(*                                                                         *)
(* A file is read a field at a time: a step takes the characters of a      *)
(* field and the character that ends it.  rows holds the rows counted by   *)
(* id_table_len; row is the one behind them, which is being filled.  A     *)
(* type is the set of its bits.  Of lcol only matters whether it is 0.     *)
(* The strings of strtable stand for themselves, and the fields that are   *)
(* stored and never used (section, standards, path) are left out, and so   *)
(* is the declaration, which Scanner deals with.  History variables: lost, *)
(* a line, or a part of one, was not counted; line and described, what the *)
(* line that is being read says so far, and what those that were counted   *)
(* said, until something is lost.                                          *)
(***************************************************************************)
EXTENDS Integers, Sequences

CONSTANTS Letters,      \* the texts of a type field that are looked at
          Names,        \* the texts of a name field
          Headers,      \* the texts of a header field
          NFLD,         \* the number of fields of a line
          ERR_LIMIT,    \* the number of lines that may have more
          SegSize,      \* id_table_segment_size
          MaxFiles,     \* the number of files that are loaded
          MaxLines      \* the number of lines of a file that have fields

MaxFields == NFLD + 2   \* the number of fields of the longest line

VARIABLES id_symtable, rows, row, id_table_sz,      \* the table
          pc, fidx, lcol, full, err_count, rv,      \* the file being read
          files, lines, lost, line, described

table == <<id_symtable, rows, row, id_table_sz>>
vars == <<id_symtable, rows, row, id_table_sz, pc, fidx, lcol, full, err_count,
          rv, files, lines, lost, line, described>>
history == <<line, described>>

Empty == "empty"            \* a field of no characters
JustFull == "just full"     \* a field of as many characters as fbuf has
TooLong == "too long"       \* a field of more characters

fsep == "sep"
Newline == "newline"
EOF == "EOF"

undef_symnr == 0
undef_idnr == -1

Types == {"UNKNOWN", "FUNCTION", "TYPEDEF", "KEYWORD", "CONSTANT", "VAR", "STRUCT"}

\* Type -1 has all bits set.
encode_id_type(txt) ==
    CASE txt = "c" -> {"CONSTANT"}
      [] txt = "f" -> {"FUNCTION"}
      [] txt = "k" -> {"KEYWORD"}
      [] txt = "s" -> {"STRUCT"}
      [] txt = "t" -> {"TYPEDEF"}
      [] txt = "v" -> {"VAR"}
      [] txt = "?" -> {"UNKNOWN"}
      [] OTHER -> Types

\* The texts that a field may have; what the other fields say is not used.
Texts(i) == {Empty, TooLong, JustFull} \cup
            (CASE i = 0 -> Letters [] i = 2 -> Names [] i = 3 -> Headers
               [] OTHER -> {})

ASSUME IdTableAssumption ==
    /\ NFLD \in Nat \ {0, 1, 2, 3}
    /\ ERR_LIMIT \in Nat
    /\ SegSize \in Nat \ {0}
    /\ MaxFiles \in Nat
    /\ MaxLines \in Nat

virgin_idinfo == [type |-> {}, sym |-> undef_symnr, src1 |-> Empty, trace |-> FALSE]

id_table_len == Len(rows)

\* dict_add and dict_find of the symbol table.
NumberOf(t, n) ==
    IF \E i \in 1..Len(t) : t[i] = n THEN CHOOSE i \in 1..Len(t) : t[i] = n
    ELSE undef_symnr
dict_add(t, n) == IF NumberOf(t, n) = undef_symnr THEN Append(t, n) ELSE t

NoLine == [type |-> Empty, name |-> Empty, header |-> Empty]

Init ==
    /\ id_symtable = <<>>
    /\ rows = <<>>
    /\ row = virgin_idinfo
    /\ id_table_sz = 0
    /\ pc = "idle"
    /\ fidx = 0
    /\ lcol = 0
    /\ full = FALSE
    /\ err_count = 0
    /\ rv = 0
    /\ files = 0
    /\ lines = 0
    /\ lost = FALSE
    /\ line = NoLine
    /\ described = {}

\* The history ends with the first line that is lost.
Lose(what) ==
    /\ lost' = (lost \/ what)
    /\ IF lost' THEN line' = NoLine /\ described' = {} ELSE UNCHANGED history

\* What the line says with txt as its next field.
LineWith(txt) ==
    CASE lost \/ fidx \notin {0, 2, 3} -> line
      [] ~lost /\ fidx = 0 -> [NoLine EXCEPT !.type = txt]
      [] ~lost /\ fidx = 2 -> [line EXCEPT !.name = txt]
      [] ~lost /\ fidx = 3 -> [line EXCEPT !.header = txt]

----------------------------------------------------------------------------
\* The size of the array when a file is read: the first one creates it.
init_tables == IF id_table_sz = 0 THEN SegSize ELSE id_table_sz

\* read_id_table_file opens a file.
Open ==
    /\ pc = "idle"
    /\ files < MaxFiles
    /\ files' = files + 1
    /\ pc' = "read"
    /\ id_table_sz' = init_tables
    /\ fidx' = 0
    /\ lcol' = 0
    /\ full' = FALSE
    /\ err_count' = 0
    /\ lines' = 0
    /\ UNCHANGED <<id_symtable, rows, row, rv, lost, history>>

\* A file that cannot be opened changes nothing.
OpenFails ==
    /\ pc = "idle"
    /\ files < MaxFiles
    /\ files' = files + 1
    /\ rv' = 2          \* ENOENT
    /\ UNCHANGED <<pc, fidx, lcol, full, err_count, lines, lost, history, table>>

\* MUTANT: the array grows one row too late.
Grown_Late == IF id_table_len > id_table_sz THEN id_table_sz + SegSize ELSE id_table_sz

Grown == IF id_table_len >= id_table_sz THEN id_table_sz + SegSize ELSE id_table_sz

\* MUTANT: the fields are counted from another one on.
Filled_Shifted(txt) ==
    CASE fidx = 0 -> [virgin_idinfo EXCEPT !.type = encode_id_type(txt)]
      [] fidx = 2 -> [row EXCEPT !.sym = NumberOf(dict_add(id_symtable, txt), txt)]
      [] fidx = 4 -> [row EXCEPT !.src1 = txt]
      [] OTHER -> row

\* add_id_field: the text of a field goes into the row that is being filled,
\* for which the array gets room.
Filled(txt) ==
    CASE fidx = 0 -> [virgin_idinfo EXCEPT !.type = encode_id_type(txt)]
      [] fidx = 2 -> [row EXCEPT !.sym = NumberOf(dict_add(id_symtable, txt), txt)]
      [] fidx = 3 -> [row EXCEPT !.src1 = txt]
      [] OTHER -> row

\* MUTANT: the header field is taken for the name.
add_id_field_WrongField(txt) ==
    /\ id_table_sz' = Grown
    /\ id_symtable' = IF fidx = 3 THEN dict_add(id_symtable, txt) ELSE id_symtable

add_id_field(txt) ==
    /\ id_table_sz' = Grown
    /\ id_symtable' = IF fidx = 2 THEN dict_add(id_symtable, txt) ELSE id_symtable

\* MUTANT: a row needs a number, but not its own.
verify_idtable_AnyNumber == \A pos \in 1..Len(rows) : rows[pos].sym # undef_symnr

\* verify_idtable: the rows are in the order of id_symtable.
verify_idtable == \A pos \in 1..Len(rows) : rows[pos].sym = pos

\* read_id_table_stream returns, the table is verified, and the program
\* exits if it does not hold what the rest relies on.
Finish(result) ==
    /\ rv' = result
    /\ pc' = IF verify_idtable THEN "idle" ELSE "exit"

\* A field ends with ';'.
FieldSep(txt) ==
    /\ pc = "read"
    /\ lcol = 0 => lines < MaxLines
    /\ fidx + 1 < MaxFields
    /\ ~full
    /\ txt \notin {JustFull, TooLong}
    /\ add_id_field(txt)
    /\ row' = Filled(txt)
    /\ fidx' = fidx + 1
    /\ lcol' = 1
    /\ lines' = IF lcol = 0 THEN lines + 1 ELSE lines
    /\ line' = LineWith(txt)
    /\ UNCHANGED <<rows, pc, full, err_count, rv, files, lost, described>>

\* A field ends with its line.  A line with too many fields is an error, and
\* one error too many ends the loading, before the row is counted.
FieldNewline(txt) ==
    LET errs == IF fidx >= NFLD THEN err_count + 1 ELSE err_count
    IN  /\ pc = "read"
        /\ lcol = 0 => lines < MaxLines /\ txt # Empty
        /\ ~full
        /\ txt \notin {JustFull, TooLong}
        /\ add_id_field(txt)
        /\ err_count' = errs
        /\ lines' = IF lcol = 0 THEN lines + 1 ELSE lines
        /\ IF fidx >= NFLD /\ errs > ERR_LIMIT
             THEN /\ Finish(2)
                  /\ row' = Filled(txt)
                  /\ Lose(TRUE)
                  /\ UNCHANGED <<rows, fidx, lcol>>
             ELSE /\ rows' = Append(rows, Filled(txt))
                  /\ row' = virgin_idinfo
                  /\ fidx' = 0
                  /\ lcol' = 0
                  /\ line' = NoLine
                  /\ described' = IF lost THEN described ELSE described \cup {LineWith(txt)}
                  /\ UNCHANGED <<pc, rv, lost>>
        /\ UNCHANGED <<full, files>>

\* A comment, or an empty line.
Comment ==
    /\ pc = "read"
    /\ lcol = 0
    /\ fidx' = 0
    /\ UNCHANGED <<pc, lcol, full, err_count, rv, files, lines, lost, history, table>>

\* The file ends, behind a field or a part of one that is not added.
EndOfFile ==
    /\ pc = "read"
    /\ Finish(IF err_count > 0 THEN 1 ELSE 0)
    /\ Lose(lcol > 0)
    /\ UNCHANGED <<fidx, lcol, full, err_count, files, lines, table>>

\* A field that does not fit in fbuf is dropped together with the character
\* that ends it, and so is every further field: fbuf stays full.  If that
\* character is a newline the line ends, but its row is not counted.
FieldTooLong(txt, end) ==
    /\ pc = "read"
    /\ lcol = 0 => lines < MaxLines
    /\ txt = TooLong \/ (full /\ txt # Empty)
    /\ end \in {fsep, Newline}
    /\ full' = TRUE
    /\ fidx' = IF end = Newline THEN 0 ELSE fidx
    /\ lcol' = IF end = Newline THEN 0 ELSE 1
    /\ lines' = IF lcol = 0 THEN lines + 1 ELSE lines
    /\ Lose(TRUE)
    /\ UNCHANGED <<pc, err_count, rv, files, table>>

\* The end of a field that fills fbuf is written behind it.
FieldOverrun(txt, end) ==
    /\ pc = "read"
    /\ lcol = 0 => lines < MaxLines
    /\ IF full THEN txt = Empty ELSE txt = JustFull
    /\ end = fsep \/ (end = Newline /\ (lcol > 0 \/ txt # Empty))
    /\ pc' = "undefined"
    /\ UNCHANGED <<fidx, lcol, full, err_count, rv, files, lines, lost, history, table>>

Field == \E txt \in Texts(fidx) :
            \/ FieldSep(txt)
            \/ FieldNewline(txt)
            \/ \E end \in {fsep, Newline} :
                  FieldTooLong(txt, end) \/ FieldOverrun(txt, end)

----------------------------------------------------------------------------
\* main has loaded the tables that its options name, and uses them.
Loaded ==
    /\ pc = "idle"
    /\ files > 0
    /\ pc' = "loaded"
    /\ UNCHANGED <<fidx, lcol, full, err_count, rv, files, lines, lost, history, table>>

\* The row at a position; there is nothing behind the one being filled.
RowAt(pos) == IF pos < id_table_len THEN rows[pos + 1] ELSE row

\* MUTANT: the number is taken for the position.
id_find_ByNumber(n, type_mask) ==
    LET symnr == NumberOf(id_symtable, n)
    IN  IF symnr = undef_symnr \/ RowAt(symnr).type \cap type_mask = {}
          THEN undef_idnr ELSE symnr

\* id_find: the position of a name whose row has one of the wanted types.
id_find(n, type_mask) ==
    LET symnr == NumberOf(id_symtable, n)
    IN  IF symnr = undef_symnr \/ RowAt(symnr - 1).type \cap type_mask = {}
          THEN undef_idnr ELSE symnr - 1

\* id_find_linear_search, which id_find has replaced: the first row that has
\* the name and one of the wanted types.
id_find_linear_search(n, type_mask) ==
    LET found == {pos \in 0..(id_table_len - 1) :
                    /\ rows[pos + 1].sym # undef_symnr
                    /\ id_symtable[rows[pos + 1].sym] = n
                    /\ rows[pos + 1].type \cap type_mask # {}}
    IN  IF found = {} THEN undef_idnr ELSE CHOOSE pos \in found : \A q \in found : pos <= q

\* trace_identifier marks the row of a name.  Without a table there is no
\* id_symtable to search, and a row that was never written has no meaning.
trace_identifier(n) ==
    LET pos == id_find(n, Types)
    IN  /\ pc = "loaded"
        /\ IF id_table_sz = 0
             THEN pc' = "crash" /\ UNCHANGED <<rows, row>>
           ELSE IF pos > id_table_len
             THEN pc' = "undefined" /\ UNCHANGED <<rows, row>>
           ELSE /\ rows' = [i \in DOMAIN rows |->
                              IF i = pos + 1 THEN [rows[i] EXCEPT !.trace = TRUE] ELSE rows[i]]
                /\ row' = IF pos = id_table_len THEN [row EXCEPT !.trace = TRUE] ELSE row
                /\ UNCHANGED pc
        /\ UNCHANGED <<id_symtable, id_table_sz, fidx, lcol, full, err_count, rv,
                       files, lines, lost>>
        /\ UNCHANGED history

Next == \/ Open \/ OpenFails \/ Field \/ Comment \/ EndOfFile \/ Loaded
        \/ \E n \in Names : trace_identifier(n)

Spec == Init /\ [][Next]_vars

----------------------------------------------------------------------------
Row == [type : SUBSET Types, sym : Nat, src1 : Headers \cup {Empty}, trace : BOOLEAN]

Line == [type : Letters \cup {Empty}, name : Names \cup {Empty},
         header : Headers \cup {Empty}]

\* Every variable has its type.
TypeOK ==
    /\ id_symtable \in Seq(Names \cup {Empty})
    /\ rows \in Seq(Row)
    /\ row \in Row
    /\ id_table_sz \in Nat
    /\ pc \in {"idle", "read", "loaded", "exit", "undefined", "crash"}
    /\ fidx \in 0..(MaxFields - 1)
    /\ lcol \in {0, 1}
    /\ full \in BOOLEAN
    /\ err_count \in 0..(ERR_LIMIT + 1)
    /\ rv \in 0..2
    /\ files \in 0..MaxFiles
    /\ lines \in 0..MaxLines
    /\ lost \in BOOLEAN
    /\ line \in Line
    /\ described \subseteq Line

\* The array has room for the rows that are counted and for the one that
\* add_id_field is filling, over all files.
InCapacity ==
    /\ id_table_len <= id_table_sz
    /\ pc = "read" /\ fidx > 0 => id_table_len < id_table_sz

\* Every name of id_symtable leads id_find to a row, and to its own one.
InSync ==
    \A nr \in 1..Len(id_symtable) :
        nr - 1 <= id_table_len /\ RowAt(nr - 1).sym = nr

\* When the program goes on to use its tables, whatever files it has loaded
\* and in whatever order, no name leads id_find to the row of another, as
\* long as every line that was begun was counted.
SyncedWhenLoaded ==
    pc = "loaded" /\ ~lost => InSync /\ id_table_len = Len(id_symtable)

\* Every line that was counted, in whichever file, can be found by its name,
\* and what is found is what the line says: its type and its header, none of
\* another line, and no header where the line has no such field.
FindsOwnLine ==
    pc = "loaded" /\ ~lost =>
        \A d \in described :
            LET pos == id_find(d.name, Types)
            IN  /\ pos # undef_idnr
                /\ RowAt(pos).type = encode_id_type(d.type)
                /\ RowAt(pos).src1 = d.header

\* The search through id_symtable finds what the search through the rows
\* that it replaced would find, for every name and every wanted type.
SearchesAgree ==
    pc = "loaded" /\ ~lost =>
        \A n \in Names, t \in Types :
            id_find(n, {t}) = id_find_linear_search(n, {t})

\* What verify_idtable vouches for: "id_table is in sync with id_symtable".
VerifiedInSync == pc = "loaded" => InSync
=============================================================================
