--------------------------- MODULE IdTableProofs ---------------------------
(***************************************************************************)
(* For every number and size of table files: the table keeps its types,    *)
(* the array id_table always has room, and in tables that were verified    *)
(* every identifier leads, by either search, to the row that its own line  *)
(* has filled, unless a line was lost.                                     *)
(***************************************************************************)
EXTENDS IdTable, TLAPS

\* No name has two numbers, and a row has the number of a name or none.
NamesDistinct ==
    \A i, j \in 1..Len(id_symtable) : id_symtable[i] = id_symtable[j] => i = j

Numbered ==
    /\ row.sym <= Len(id_symtable)
    /\ \A i \in 1..Len(rows) : rows[i].sym <= Len(id_symtable)

\* A line begins with its first field, and the loading ends with the first
\* error too many.
Reading ==
    /\ lcol = 0 => fidx = 0
    /\ pc = "read" => err_count <= ERR_LIMIT

\* A name that was numbered is that of a row, or of the one being filled.
Covered ==
    ~lost /\ pc # "undefined" =>
        \A nr \in 1..Len(id_symtable) :
            \/ \E i \in 1..Len(rows) : rows[i].sym = nr
            \/ pc = "read" /\ fidx > 2 /\ row.sym = nr

\* A row says what a line does, its name only if the line got that far.
Describes(r, d, names) ==
    /\ r.type = encode_id_type(d.type)
    /\ r.src1 = d.header
    /\ r.sym # undef_symnr => names[r.sym] = d.name

HistoryOK ==
    ~lost =>
        /\ \A d \in described : \E i \in 1..Len(rows) : Describes(rows[i], d, id_symtable)
        /\ pc = "read" /\ fidx > 0 => Describes(row, line, id_symtable)

\* Between two files, and behind the last one, the table has been verified.
Verified == pc \in {"idle", "loaded"} => verify_idtable

TableInv ==
    /\ TypeOK
    /\ InCapacity
    /\ NamesDistinct
    /\ Numbered
    /\ Reading
    /\ Covered
    /\ HistoryOK
    /\ Verified

----------------------------------------------------------------------------
\* What dict_add leaves, and the number that the name then has.
LEMMA DictAdd ==
  ASSUME NEW t \in Seq(Names \cup {Empty}), NEW n \in Names \cup {Empty},
         NEW u, u = dict_add(t, n), NEW k, k = NumberOf(u, n)
  PROVE  /\ u \in Seq(Names \cup {Empty})
         /\ Len(t) <= Len(u)
         /\ \A i \in 1..Len(t) : u[i] = t[i]
         /\ k \in 1..Len(u) /\ u[k] = n
         /\ \A i \in 1..Len(u) : i <= Len(t) \/ i = k
         /\ (\A i, j \in 1..Len(t) : t[i] = t[j] => i = j)
              => \A i, j \in 1..Len(u) : u[i] = u[j] => i = j
  <1>1. CASE \E i \in 1..Len(t) : t[i] = n
    <2>1. NumberOf(t, n) \in 1..Len(t) /\ t[NumberOf(t, n)] = n
      BY <1>1 DEF NumberOf
    <2>2. u = t
      BY <2>1 DEF dict_add, undef_symnr
    <2>3. QED
      BY <2>1, <2>2
  <1>2. CASE ~ \E i \in 1..Len(t) : t[i] = n
    <2>1. u = Append(t, n)
      BY <1>2 DEF NumberOf, dict_add, undef_symnr
    <2>2. /\ u \in Seq(Names \cup {Empty}) /\ Len(u) = Len(t) + 1 /\ Len(t) \in Nat
          /\ u[Len(u)] = n /\ \A i \in 1..Len(t) : u[i] = t[i]
      BY <2>1
    <2>3. \E i \in 1..Len(u) : u[i] = n
      BY <2>2
    <2>4. k \in 1..Len(u) /\ u[k] = n
      BY <2>3 DEF NumberOf
    <2>5. k = Len(u)
      BY <1>2, <2>2, <2>4
    <2>6. \A i \in 1..Len(u) : i <= Len(t) \/ i = k
      BY <2>2, <2>5
    <2>7. ASSUME \A i, j \in 1..Len(t) : t[i] = t[j] => i = j,
                 NEW i \in 1..Len(u), NEW j \in 1..Len(u), u[i] = u[j]
          PROVE  i = j
      BY <1>2, <2>2, <2>4, <2>5, <2>6, <2>7
    <2>8. QED
      BY <2>2, <2>4, <2>6, <2>7
  <1>3. QED
    BY <1>1, <1>2

\* A name of a table without duplicates has the number of its place.
LEMMA NumberUnique ==
  ASSUME NEW t, NEW i \in 1..Len(t),
         \A j, k \in 1..Len(t) : t[j] = t[k] => j = k
  PROVE  NumberOf(t, t[i]) = i
  BY DEF NumberOf

\* A type has at least one bit.
LEMMA TypeBits ==
  ASSUME NEW txt PROVE encode_id_type(txt) \in SUBSET Types /\ encode_id_type(txt) # {}
  BY DEF encode_id_type, Types

\* The text of a field that fits is one of those that its column may have.
LEMMA FieldTexts ==
  ASSUME NEW txt \in Texts(fidx), txt \notin {JustFull, TooLong}, fidx \in Nat
  PROVE  /\ fidx = 0 => txt \in Letters \cup {Empty}
         /\ fidx = 2 => txt \in Names \cup {Empty}
         /\ fidx = 3 => txt \in Headers \cup {Empty}
  <1>1. ASSUME fidx = 0 PROVE fidx # 2 /\ fidx # 3
    BY <1>1
  <1>2. ASSUME fidx = 2 PROVE fidx # 0 /\ fidx # 3
    BY <1>2
  <1>3. ASSUME fidx = 3 PROVE fidx # 0 /\ fidx # 2
    BY <1>3
  <1>4. fidx = 0 => Texts(fidx) = {Empty, TooLong, JustFull} \cup Letters
    BY <1>1, Zenon DEF Texts
  <1>5. fidx = 2 => Texts(fidx) = {Empty, TooLong, JustFull} \cup Names
    BY <1>2, Zenon DEF Texts
  <1>6. fidx = 3 => Texts(fidx) = {Empty, TooLong, JustFull} \cup Headers
    BY <1>3, Zenon DEF Texts
  <1>7. QED
    BY <1>4, <1>5, <1>6

\* What a field adds to the row, and to the history of its line.
LEMMA FieldCases ==
  ASSUME NEW txt, fidx \in Nat
  PROVE  /\ fidx = 0 => Filled(txt) = [virgin_idinfo EXCEPT !.type = encode_id_type(txt)]
         /\ fidx = 2 => Filled(txt) =
              [row EXCEPT !.sym = NumberOf(dict_add(id_symtable, txt), txt)]
         /\ fidx = 3 => Filled(txt) = [row EXCEPT !.src1 = txt]
         /\ fidx \notin {0, 2, 3} => Filled(txt) = row
         /\ lost \/ fidx \notin {0, 2, 3} => LineWith(txt) = line
         /\ ~lost /\ fidx = 0 => LineWith(txt) = [NoLine EXCEPT !.type = txt]
         /\ ~lost /\ fidx = 2 => LineWith(txt) = [line EXCEPT !.name = txt]
         /\ ~lost /\ fidx = 3 => LineWith(txt) = [line EXCEPT !.header = txt]
  <1>1. /\ fidx = 0 => fidx # 2 /\ fidx # 3
        /\ fidx = 2 => fidx # 0 /\ fidx # 3
        /\ fidx = 3 => fidx # 0 /\ fidx # 2
    OBVIOUS
  <1>2. /\ fidx = 0 => Filled(txt) = [virgin_idinfo EXCEPT !.type = encode_id_type(txt)]
        /\ fidx = 2 => Filled(txt) =
             [row EXCEPT !.sym = NumberOf(dict_add(id_symtable, txt), txt)]
    BY <1>1, Zenon DEF Filled
  <1>3. /\ fidx = 3 => Filled(txt) = [row EXCEPT !.src1 = txt]
        /\ fidx \notin {0, 2, 3} => Filled(txt) = row
    BY <1>1, Zenon DEF Filled
  <1>4. lost \/ fidx \notin {0, 2, 3} => LineWith(txt) = line
    BY Zenon DEF LineWith
  <1>5. ~lost /\ fidx = 0 => LineWith(txt) = [NoLine EXCEPT !.type = txt]
    BY <1>1, Zenon DEF LineWith
  <1>6. ~lost /\ fidx = 2 => LineWith(txt) = [line EXCEPT !.name = txt]
    BY <1>1, Zenon DEF LineWith
  <1>7. ~lost /\ fidx = 3 => LineWith(txt) = [line EXCEPT !.header = txt]
    BY <1>1, Zenon DEF LineWith
  <1>8. QED
    BY <1>2, <1>3, <1>4, <1>5, <1>6, <1>7

\* Rows and lines with one field changed.
LEMMA RowWith ==
  ASSUME NEW r \in Row, NEW nr \in Nat, NEW h \in Headers \cup {Empty}
  PROVE  /\ [r EXCEPT !.sym = nr] \in Row
         /\ [r EXCEPT !.src1 = h] \in Row
         /\ [r EXCEPT !.trace = TRUE] \in Row
  BY DEF Row

LEMMA VirginRow ==
  /\ virgin_idinfo \in Row
  /\ \A t \in SUBSET Types : [virgin_idinfo EXCEPT !.type = t] \in Row
  BY DEF Row, virgin_idinfo, undef_symnr

\* add_id_field and the history that goes with it: the table grows by the name
\* at most, and the row and the line that result are still about each other.
LEMMA FieldAdded ==
  ASSUME TableInv, pc = "read", NEW txt \in Texts(fidx),
         txt \notin {JustFull, TooLong}, add_id_field(txt)
  PROVE  /\ id_symtable' \in Seq(Names \cup {Empty})
         /\ Len(id_symtable) <= Len(id_symtable')
         /\ \A i \in 1..Len(id_symtable) : id_symtable'[i] = id_symtable[i]
         /\ NamesDistinct'
         /\ id_table_sz' \in Nat /\ Len(rows) < id_table_sz'
         /\ Filled(txt) \in Row
         /\ Filled(txt).sym <= Len(id_symtable')
         /\ LineWith(txt) \in Line
         /\ ~lost =>
              /\ \A nr \in 1..Len(id_symtable') :
                    \/ \E i \in 1..Len(rows) : rows[i].sym = nr
                    \/ fidx >= 2 /\ Filled(txt).sym = nr
              /\ Filled(txt).type = encode_id_type(LineWith(txt).type)
              /\ Filled(txt).src1 = LineWith(txt).header
              /\ Filled(txt).sym # undef_symnr =>
                    id_symtable'[Filled(txt).sym] = LineWith(txt).name
  <1> DEFINE r == Filled(txt)
             d == LineWith(txt)
             u == dict_add(id_symtable, txt)
  <1>1. /\ TypeOK /\ InCapacity /\ NamesDistinct /\ Numbered /\ Covered /\ HistoryOK
        /\ fidx \in Nat /\ row \in Row /\ line \in Line
        /\ Len(rows) \in Nat /\ Len(id_symtable) \in Nat
        /\ id_symtable \in Seq(Names \cup {Empty})
    BY IdTableAssumption DEF TableInv, TypeOK, MaxFields
  <1>2. /\ fidx = 0 => txt \in Letters \cup {Empty}
        /\ fidx = 2 => txt \in Names \cup {Empty}
        /\ fidx = 3 => txt \in Headers \cup {Empty}
    BY <1>1, FieldTexts
  <1>3. id_table_sz' \in Nat /\ Len(rows) < id_table_sz'
    BY <1>1, IdTableAssumption DEF add_id_field, Grown, id_table_len, InCapacity, TypeOK
  <1>4. CASE fidx = 0
    <2>1. r = [virgin_idinfo EXCEPT !.type = encode_id_type(txt)]
      BY <1>1, <1>4, FieldCases
    <2>2. id_symtable' = id_symtable
      BY <1>4 DEF add_id_field
    <2>3. d = IF lost THEN line ELSE [NoLine EXCEPT !.type = txt]
      BY <1>1, <1>4, FieldCases
    <2>4. r \in Row /\ r.type = encode_id_type(txt) /\ r.src1 = Empty /\ r.sym = 0
      <3>1. r \in Row
        BY <2>1, TypeBits, VirginRow
      <3>2. r.type = encode_id_type(txt) /\ r.src1 = Empty /\ r.sym = 0
        BY <2>1 DEF virgin_idinfo, undef_symnr
      <3>3. QED
        BY <3>1, <3>2
    <2>5. d \in Line /\ (~lost => d.type = txt /\ d.header = Empty)
      BY <1>1, <1>2, <1>4, <2>3 DEF NoLine, Line
    <2>6. NamesDistinct'
      BY <1>1, <2>2 DEF NamesDistinct
    <2>7. QED
      BY <1>1, <1>3, <1>4, <2>2, <2>4, <2>5, <2>6 DEF undef_symnr, Covered
  <1>5. CASE fidx = 2
    <2>1. r = [row EXCEPT !.sym = NumberOf(u, txt)]
      BY <1>1, <1>5, FieldCases
    <2>2. id_symtable' = u
      BY <1>5 DEF add_id_field
    <2>3. d = IF lost THEN line ELSE [line EXCEPT !.name = txt]
      BY <1>1, <1>5, FieldCases
    <2>4. /\ u \in Seq(Names \cup {Empty})
          /\ Len(id_symtable) <= Len(u)
          /\ \A i \in 1..Len(id_symtable) : u[i] = id_symtable[i]
          /\ NumberOf(u, txt) \in 1..Len(u) /\ u[NumberOf(u, txt)] = txt
          /\ \A i \in 1..Len(u) : i <= Len(id_symtable) \/ i = NumberOf(u, txt)
          /\ \A i, j \in 1..Len(u) : u[i] = u[j] => i = j
      <3>1. txt \in Names \cup {Empty}
        BY <1>2, <1>5
      <3>2. \A i, j \in 1..Len(id_symtable) : id_symtable[i] = id_symtable[j] => i = j
        BY <1>1 DEF NamesDistinct
      <3>3. QED
        BY <1>1, <3>1, <3>2, DictAdd
    <2> HIDE DEF u
    <2>5. Len(u) \in Nat
      BY <2>4
    <2>6. r \in Row /\ r.sym = NumberOf(u, txt) /\ r.type = row.type /\ r.src1 = row.src1
      <3>1. NumberOf(u, txt) \in Nat
        BY <2>4, <2>5
      <3>2. r \in Row
        BY <1>1, <2>1, <3>1, RowWith
      <3>3. QED
        BY <1>1, <2>1, <3>1, <3>2 DEF Row
    <2>7. /\ d \in Line
          /\ ~lost => d.name = txt /\ d.type = line.type /\ d.header = line.header
      BY <1>1, <1>2, <1>5, <2>3 DEF Line
    <2>8. NamesDistinct'
      BY <2>2, <2>4 DEF NamesDistinct
    <2>9. ~lost => row.type = encode_id_type(line.type) /\ row.src1 = line.header
      BY <1>1, <1>5 DEF HistoryOK, Describes
    <2> HIDE DEF r, d
    <2>10. ASSUME ~lost, NEW nr \in 1..Len(id_symtable')
           PROVE  (\E i \in 1..Len(rows) : rows[i].sym = nr) \/ r.sym = nr
      BY <1>1, <1>5, <2>2, <2>4, <2>6, <2>10 DEF Covered
    <2>11. QED
      BY <1>1, <1>3, <1>5, <2>2, <2>4, <2>6, <2>7, <2>8, <2>9, <2>10 DEF r, d, undef_symnr
  <1>6. CASE fidx = 3
    <2>1. r = [row EXCEPT !.src1 = txt]
      BY <1>1, <1>6, FieldCases
    <2>2. id_symtable' = id_symtable
      BY <1>6 DEF add_id_field
    <2>3. d = IF lost THEN line ELSE [line EXCEPT !.header = txt]
      BY <1>1, <1>6, FieldCases
    <2>4. r \in Row /\ r.type = row.type /\ r.src1 = txt /\ r.sym = row.sym
      BY <1>1, <1>2, <1>6, <2>1 DEF Row
    <2>5. /\ d \in Line
          /\ ~lost => d.type = line.type /\ d.header = txt /\ d.name = line.name
      BY <1>1, <1>2, <1>6, <2>3 DEF Line
    <2>6. NamesDistinct'
      BY <1>1, <2>2 DEF NamesDistinct
    <2> HIDE DEF r, d
    <2>7. ~lost => /\ row.type = encode_id_type(line.type)
                   /\ row.sym # 0 => id_symtable[row.sym] = line.name
      BY <1>1, <1>6 DEF HistoryOK, Describes, undef_symnr
    <2>8. ASSUME ~lost, NEW nr \in 1..Len(id_symtable')
          PROVE  (\E i \in 1..Len(rows) : rows[i].sym = nr) \/ r.sym = nr
      BY <1>1, <1>6, <2>2, <2>4, <2>8 DEF Covered
    <2>9. QED
      BY <1>1, <1>3, <1>6, <2>2, <2>4, <2>5, <2>6, <2>7, <2>8 DEF r, d, undef_symnr, Numbered
  <1>7. CASE fidx \notin {0, 2, 3}
    <2>1. r = row /\ d = line /\ id_symtable' = id_symtable
      BY <1>1, <1>7, FieldCases DEF add_id_field
    <2>2. NamesDistinct'
      BY <1>1, <2>1 DEF NamesDistinct
    <2>3. fidx > 0
      BY <1>1, <1>7
    <2>4. ~lost => /\ row.type = encode_id_type(line.type)
                   /\ row.src1 = line.header
                   /\ row.sym # 0 => id_symtable[row.sym] = line.name
      BY <1>1, <2>3 DEF HistoryOK, Describes, undef_symnr
    <2> HIDE DEF r, d
    <2>5. ASSUME ~lost, NEW nr \in 1..Len(id_symtable')
          PROVE  (\E i \in 1..Len(rows) : rows[i].sym = nr) \/ (fidx >= 2 /\ r.sym = nr)
      <3>1. \/ \E i \in 1..Len(rows) : rows[i].sym = nr
            \/ fidx > 2 /\ row.sym = nr
        BY <1>1, <2>1, <2>5 DEF Covered
      <3>2. QED
        BY <1>1, <2>1, <3>1
    <2>6. QED
      BY <1>1, <1>3, <2>1, <2>2, <2>4, <2>5 DEF r, d, undef_symnr, Numbered
  <1>8. QED
    BY <1>4, <1>5, <1>6, <1>7

----------------------------------------------------------------------------
\* The facts about types that the steps below use.
LEMMA TableTypes ==
  ASSUME TableInv
  PROVE  /\ Len(rows) \in Nat /\ Len(id_symtable) \in Nat
         /\ fidx \in Nat /\ id_table_sz \in Nat /\ err_count \in Nat
         /\ \A i \in 1..Len(rows) : rows[i] \in Row /\ rows[i].sym \in Nat
         /\ row.sym \in Nat
  <1>1. rows \in Seq(Row) /\ row \in Row /\ id_symtable \in Seq(Names \cup {Empty})
    BY DEF TableInv, TypeOK
  <1>2. \A i \in 1..Len(rows) : rows[i] \in Row
    BY <1>1
  <1>3. \A r \in Row : r.sym \in Nat
    BY DEF Row
  <1>4. fidx \in Nat /\ id_table_sz \in Nat /\ err_count \in Nat
    BY IdTableAssumption DEF TableInv, TypeOK, MaxFields
  <1>5. QED
    BY <1>1, <1>2, <1>3, <1>4

\* The initial state.
LEMMA TableInit == Init => TableInv
  <1> SUFFICES ASSUME Init PROVE TableInv
    OBVIOUS
  <1>1. rows = <<>> /\ id_symtable = <<>> /\ described = {} /\ row = virgin_idinfo
        /\ fidx = 0 /\ lcol = 0 /\ err_count = 0 /\ pc = "idle" /\ id_table_sz = 0
    BY DEF Init
  <1>2. TypeOK
    <2>1. line \in Line
      BY DEF Init, NoLine, Line
    <2>2. row \in Row
      BY <1>1, VirginRow
    <2>3. rows \in Seq(Row) /\ id_symtable \in Seq(Names \cup {Empty})
      BY <1>1
    <2>4. full \in BOOLEAN /\ lost \in BOOLEAN
      BY DEF Init
    <2>5. fidx \in 0..(MaxFields - 1) /\ err_count \in 0..(ERR_LIMIT + 1)
      BY <1>1, IdTableAssumption DEF MaxFields
    <2>6. /\ rv \in 0..2 /\ files \in 0..MaxFiles /\ lines \in 0..MaxLines
          /\ lcol \in {0, 1} /\ id_table_sz \in Nat
      BY IdTableAssumption DEF Init
    <2>7. QED
      BY <1>1, <2>1, <2>2, <2>3, <2>4, <2>5, <2>6 DEF TypeOK
  <1>3. InCapacity /\ NamesDistinct /\ Reading /\ Covered /\ HistoryOK /\ Verified
    BY <1>1, IdTableAssumption
    DEF InCapacity, id_table_len, NamesDistinct, Reading, Covered, HistoryOK,
        Verified, verify_idtable
  <1>4. Numbered
    BY <1>1 DEF Numbered, virgin_idinfo, undef_symnr
  <1>5. QED
    BY <1>2, <1>3, <1>4 DEF TableInv

\* Files are opened, or cannot be.
LEMMA OpenKeeps == ASSUME TableInv, Open \/ OpenFails PROVE TableInv'
  <1>1. UNCHANGED <<id_symtable, rows, row, lost, history>> /\ pc = "idle"
    BY DEF Open, OpenFails, table
  <1>2. NamesDistinct' /\ Numbered'
    BY <1>1 DEF TableInv, NamesDistinct, Numbered
  <1>3. TypeOK' /\ InCapacity' /\ Reading' /\ (pc' = "read" => fidx' = 0)
    <2>1. CASE Open
      <3>1. id_table_sz' \in Nat /\ id_table_sz' >= id_table_sz /\ id_table_sz' > 0
        BY <2>1, TableTypes, IdTableAssumption DEF Open, init_tables
      <3>2. TypeOK'
        <4>1. /\ fidx' \in 0..(MaxFields - 1) /\ err_count' \in 0..(ERR_LIMIT + 1)
              /\ lines' \in 0..MaxLines /\ files' \in 0..MaxFiles
          BY <2>1, IdTableAssumption DEF Open, MaxFields, TableInv, TypeOK
        <4>2. full' \in BOOLEAN
          BY <2>1 DEF Open
        <4>3. QED
          BY <2>1, <3>1, <4>1, <4>2 DEF TableInv, TypeOK, Open, history
      <3>3. InCapacity'
        BY <2>1, <3>1, TableTypes DEF TableInv, InCapacity, Open, id_table_len
      <3>4. QED
        BY <2>1, <3>2, <3>3, IdTableAssumption DEF Open, Reading
    <2>2. CASE OpenFails
      <3>1. TypeOK'
        BY <2>2, IdTableAssumption DEF TableInv, TypeOK, OpenFails, table, history
      <3>2. QED
        BY <2>2, <3>1 DEF TableInv, OpenFails, table, InCapacity, id_table_len, Reading
    <2>3. QED
      BY <2>1, <2>2
  <1>4. Covered'
    BY <1>1, <1>3 DEF TableInv, Covered
  <1>5. HistoryOK'
    BY <1>1, <1>3 DEF TableInv, HistoryOK, Describes, history
  <1>6. Verified'
    BY <1>1 DEF TableInv, Verified, verify_idtable
  <1>7. QED
    BY <1>2, <1>3, <1>4, <1>5, <1>6 DEF TableInv

\* A field that ends with ';'.
LEMMA FieldSepKeeps ==
  ASSUME TableInv, NEW txt \in Texts(fidx), FieldSep(txt) PROVE TableInv'
  <1> DEFINE r == Filled(txt)
             d == LineWith(txt)
  <1>1. /\ pc = "read" /\ pc' = pc /\ row' = r /\ line' = d /\ fidx' = fidx + 1
        /\ lcol' = 1 /\ UNCHANGED <<rows, full, err_count, rv, files, lost, described>>
        /\ lines' \in 0..MaxLines /\ fidx' \in 0..(MaxFields - 1)
        /\ txt \notin {JustFull, TooLong} /\ add_id_field(txt)
    BY IdTableAssumption DEF FieldSep, TableInv, TypeOK, MaxFields
  <1>2. /\ id_symtable' \in Seq(Names \cup {Empty})
        /\ Len(id_symtable) <= Len(id_symtable')
        /\ \A i \in 1..Len(id_symtable) : id_symtable'[i] = id_symtable[i]
        /\ NamesDistinct'
        /\ id_table_sz' \in Nat /\ Len(rows) < id_table_sz'
        /\ r \in Row /\ r.sym <= Len(id_symtable') /\ d \in Line
        /\ ~lost =>
             /\ \A nr \in 1..Len(id_symtable') :
                   \/ \E i \in 1..Len(rows) : rows[i].sym = nr
                   \/ fidx >= 2 /\ r.sym = nr
             /\ r.type = encode_id_type(d.type)
             /\ r.src1 = d.header
             /\ r.sym # undef_symnr => id_symtable'[r.sym] = d.name
    BY <1>1, FieldAdded
  <1> HIDE DEF r, d
  <1>3. Len(id_symtable') \in Nat
    BY <1>2
  <1>4. TypeOK'
    BY <1>1, <1>2 DEF TableInv, TypeOK
  <1>5. InCapacity' /\ Reading' /\ Verified'
    BY <1>1, <1>2, TableTypes
    DEF TableInv, InCapacity, id_table_len, Reading, Verified
  <1>6. Numbered'
    BY <1>1, <1>2, <1>3, TableTypes DEF TableInv, Numbered
  <1>7. Covered'
    <2>1. SUFFICES ASSUME ~lost', NEW nr \in 1..Len(id_symtable')
                   PROVE  \/ \E i \in 1..Len(rows') : rows'[i].sym = nr
                          \/ pc' = "read" /\ fidx' > 2 /\ row'.sym = nr
      BY DEF Covered
    <2>2. \/ \E i \in 1..Len(rows) : rows[i].sym = nr
          \/ fidx >= 2 /\ r.sym = nr
      BY <1>1, <1>2, <2>1
    <2>3. fidx >= 2 => fidx + 1 > 2
      BY TableTypes
    <2>4. QED
      BY <1>1, <2>2, <2>3
  <1>8. HistoryOK'
    <2> SUFFICES ASSUME ~lost
                 PROVE  /\ \A e \in described :
                              \E i \in 1..Len(rows) : Describes(rows[i], e, id_symtable')
                        /\ Describes(r, d, id_symtable')
      BY <1>1 DEF HistoryOK
    <2>1. Describes(r, d, id_symtable')
      BY <1>1, <1>2 DEF Describes
    <2>2. ASSUME NEW e \in described
          PROVE  \E i \in 1..Len(rows) : Describes(rows[i], e, id_symtable')
      <3>1. PICK i \in 1..Len(rows) : Describes(rows[i], e, id_symtable)
        BY DEF TableInv, HistoryOK
      <3>2. rows[i].sym # undef_symnr => rows[i].sym \in 1..Len(id_symtable)
        BY TableTypes DEF TableInv, Numbered, undef_symnr
      <3>3. Describes(rows[i], e, id_symtable')
        BY <1>1, <1>2, <3>1, <3>2 DEF Describes
      <3>4. QED
        BY <3>3
    <2>3. QED
      BY <2>1, <2>2
  <1>9. QED
    BY <1>2, <1>4, <1>5, <1>6, <1>7, <1>8 DEF TableInv

\* A field that ends its line, which is counted, or is one error too many.
LEMMA FieldNewlineKeeps ==
  ASSUME TableInv, NEW txt \in Texts(fidx), FieldNewline(txt) PROVE TableInv'
  <1> DEFINE r == Filled(txt)
             d == LineWith(txt)
             tooMany == fidx >= NFLD /\ err_count + 1 > ERR_LIMIT
  <1>1. /\ pc = "read" /\ UNCHANGED <<full, files>>
        /\ txt \notin {JustFull, TooLong} /\ add_id_field(txt)
        /\ lines' \in 0..MaxLines
        /\ err_count' = IF fidx >= NFLD THEN err_count + 1 ELSE err_count
    BY IdTableAssumption DEF FieldNewline, TableInv, TypeOK
  <1>2. /\ id_symtable' \in Seq(Names \cup {Empty})
        /\ Len(id_symtable) <= Len(id_symtable')
        /\ \A i \in 1..Len(id_symtable) : id_symtable'[i] = id_symtable[i]
        /\ NamesDistinct'
        /\ id_table_sz' \in Nat /\ Len(rows) < id_table_sz'
        /\ r \in Row /\ r.sym <= Len(id_symtable') /\ d \in Line
        /\ ~lost =>
             /\ \A nr \in 1..Len(id_symtable') :
                   \/ \E i \in 1..Len(rows) : rows[i].sym = nr
                   \/ fidx >= 2 /\ r.sym = nr
             /\ r.type = encode_id_type(d.type)
             /\ r.src1 = d.header
             /\ r.sym # undef_symnr => id_symtable'[r.sym] = d.name
    BY <1>1, FieldAdded
  <1>3. Len(id_symtable') \in Nat /\ err_count <= ERR_LIMIT /\ ERR_LIMIT \in Nat
        /\ err_count \in Nat
    BY <1>1, <1>2, TableTypes, IdTableAssumption DEF TableInv, Reading
  <1>4. CASE tooMany
    <2>1. /\ rv' = 2 /\ pc' = IF verify_idtable THEN "idle" ELSE "exit"
          /\ row' = r /\ lost' = TRUE /\ line' = NoLine /\ described' = {}
          /\ UNCHANGED <<rows, fidx, lcol>>
      BY <1>4 DEF FieldNewline, Finish, Lose
    <2> HIDE DEF r, d
    <2>2. TypeOK'
      <3>1. line' \in Line /\ lost' \in BOOLEAN /\ described' \subseteq Line
        BY <2>1 DEF NoLine, Line
      <3>2. err_count' \in 0..(ERR_LIMIT + 1) /\ rv' \in 0..2
        BY <1>1, <1>3, <1>4, <2>1
      <3>3. QED
        BY <1>1, <1>2, <2>1, <3>1, <3>2 DEF TableInv, TypeOK
    <2>3. InCapacity' /\ Reading' /\ Covered' /\ HistoryOK'
      BY <1>2, <2>1, TableTypes
      DEF TableInv, InCapacity, id_table_len, Reading, Covered, HistoryOK
    <2>4. Numbered'
      BY <1>2, <1>3, <2>1, TableTypes DEF TableInv, Numbered
    <2>5. Verified'
      BY <2>1 DEF Verified, verify_idtable
    <2>6. QED
      BY <1>2, <2>2, <2>3, <2>4, <2>5 DEF TableInv
  <1>5. CASE ~tooMany
    <2>1. /\ rows' = Append(rows, r) /\ row' = virgin_idinfo /\ fidx' = 0 /\ lcol' = 0
          /\ line' = NoLine /\ UNCHANGED <<pc, rv, lost>>
          /\ described' = IF lost THEN described ELSE described \cup {d}
      BY <1>3, <1>5 DEF FieldNewline
    <2> HIDE DEF r, d
    <2>2. /\ rows \in Seq(Row) /\ rows' \in Seq(Row) /\ Len(rows') = Len(rows) + 1
          /\ rows'[Len(rows) + 1] = r
          /\ \A i \in 1..Len(rows) : rows'[i] = rows[i] /\ i \in 1..Len(rows')
          /\ Len(rows) \in Nat
      BY <1>2, <2>1 DEF TableInv, TypeOK
    <2>3. TypeOK'
      <3>1. line' \in Line /\ row' \in Row
        BY <2>1, VirginRow DEF NoLine, Line
      <3>2. err_count' \in 0..(ERR_LIMIT + 1) /\ fidx' \in 0..(MaxFields - 1)
        BY <1>1, <1>3, <1>5, <2>1, IdTableAssumption DEF MaxFields
      <3>3. described' \subseteq Line
        BY <1>2, <2>1 DEF TableInv, TypeOK
      <3>4. QED
        BY <1>1, <1>2, <2>1, <2>2, <3>1, <3>2, <3>3 DEF TableInv, TypeOK
    <2>4. InCapacity' /\ Verified'
      BY <1>1, <1>2, <2>1, <2>2 DEF InCapacity, id_table_len, Verified
    <2>5. Reading'
      BY <1>1, <1>3, <1>5, <2>1 DEF Reading
    <2>6. Numbered'
      <3>1. row'.sym = 0
        BY <2>1 DEF virgin_idinfo, undef_symnr
      <3>2. ASSUME NEW i \in 1..Len(rows') PROVE rows'[i].sym <= Len(id_symtable')
        <4>1. CASE i = Len(rows) + 1
          BY <1>2, <2>2, <4>1
        <4>2. CASE i # Len(rows) + 1
          <5>1. i \in 1..Len(rows)
            BY <2>2, <4>2
          <5>2. rows'[i] = rows[i] /\ rows[i].sym \in Nat /\ rows[i].sym <= Len(id_symtable)
            BY <2>2, <5>1, TableTypes DEF TableInv, Numbered
          <5>3. QED
            BY <1>2, <1>3, <5>2, TableTypes
        <4>3. QED
          BY <4>1, <4>2
      <3>3. QED
        BY <1>3, <3>1, <3>2 DEF Numbered
    <2>7. Covered'
      <3> SUFFICES ASSUME ~lost, NEW nr \in 1..Len(id_symtable')
                   PROVE  \E i \in 1..Len(rows') : rows'[i].sym = nr
        BY <2>1 DEF Covered
      <3>1. (\E i \in 1..Len(rows) : rows[i].sym = nr) \/ r.sym = nr
        BY <1>2
      <3>2. Len(rows) + 1 \in 1..Len(rows')
        BY <2>2
      <3>3. QED
        BY <2>2, <3>1, <3>2
    <2>8. HistoryOK'
      <3> SUFFICES ASSUME ~lost, NEW e \in described \cup {d}
                   PROVE  \E i \in 1..Len(rows') : Describes(rows'[i], e, id_symtable')
        BY <2>1 DEF HistoryOK
      <3>1. CASE e = d
        <4>1. Describes(r, d, id_symtable')
          BY <1>2, <2>1 DEF Describes
        <4>2. Len(rows) + 1 \in 1..Len(rows')
          BY <2>2
        <4>3. QED
          BY <2>2, <3>1, <4>1, <4>2
      <3>2. CASE e \in described
        <4>1. PICK i \in 1..Len(rows) : Describes(rows[i], e, id_symtable)
          BY <3>2 DEF TableInv, HistoryOK
        <4>2. rows[i].sym # undef_symnr => rows[i].sym \in 1..Len(id_symtable)
          BY TableTypes DEF TableInv, Numbered, undef_symnr
        <4>3. Describes(rows'[i], e, id_symtable')
          BY <1>2, <2>2, <4>1, <4>2 DEF Describes
        <4>4. QED
          BY <2>2, <4>3
      <3>3. QED
        BY <3>1, <3>2
    <2>9. QED
      BY <1>2, <2>3, <2>4, <2>5, <2>6, <2>7, <2>8 DEF TableInv
  <1>6. QED
    BY <1>4, <1>5

\* Comments, fields that do not fit, and the end of the file: the table stays
\* as it is, and a line that is not finished is lost.
LEMMA ReadKeeps ==
  ASSUME TableInv,
         \/ Comment \/ EndOfFile
         \/ \E txt \in Texts(fidx), end \in {fsep, Newline} :
               FieldTooLong(txt, end) \/ FieldOverrun(txt, end)
  PROVE  TableInv'
  <1> DEFINE Reads ==
               /\ pc = "read"
               /\ UNCHANGED <<id_symtable, rows, row, id_table_sz, files>>
               /\ err_count' = err_count /\ rv' \in 0..2
               /\ lines' \in 0..MaxLines /\ full' \in BOOLEAN /\ lcol' \in {0, 1}
               /\ fidx' \in {0, fidx} /\ (lcol' = 0 => fidx' = 0)
               /\ \/ pc' = "read" /\ (fidx' = fidx \/ fidx = 0 \/ lost')
                  \/ pc' = "undefined"
                  \/ pc' = "exit" /\ (fidx = 0 \/ lost')
                  \/ pc' = "idle" /\ verify_idtable /\ (fidx = 0 \/ lost')
               /\ UNCHANGED <<lost, history>> \/ \E what : Lose(what)
  <1>1. /\ lines \in 0..MaxLines /\ full \in BOOLEAN /\ lcol \in {0, 1} /\ rv \in 0..2
        /\ fidx \in Nat /\ MaxLines \in Nat /\ (lcol = 0 => fidx = 0)
    BY TableTypes, IdTableAssumption DEF TableInv, TypeOK, Reading
  <1>2. Reads
    <2>1. CASE Comment
      BY <1>1, <2>1 DEF Comment, table
    <2>2. CASE EndOfFile
      <3>1. Lose(lcol > 0) /\ (lost' \/ fidx = 0)
        <4>1. Lose(lcol > 0)
          BY <2>2 DEF EndOfFile
        <4>2. lcol > 0 => lost'
          BY <4>1 DEF Lose
        <4>3. QED
          BY <1>1, <4>1, <4>2
      <3>2. rv' \in 0..2 /\ pc' = IF verify_idtable THEN "idle" ELSE "exit"
        BY <2>2 DEF EndOfFile, Finish
      <3>3. \E what : Lose(what)
        BY <3>1
      <3>4. QED
        BY <1>1, <2>2, <3>1, <3>2, <3>3 DEF EndOfFile, table
    <2>3. ASSUME NEW txt \in Texts(fidx), NEW end \in {fsep, Newline},
                 FieldTooLong(txt, end)
          PROVE  Reads
      <3>1. fsep # Newline
        BY DEF fsep, Newline
      <3>2. Lose(TRUE) /\ lost' = TRUE
        BY <2>3 DEF FieldTooLong, Lose
      <3>3. lines' \in 0..MaxLines /\ full' \in BOOLEAN
        BY <1>1, <2>3 DEF FieldTooLong
      <3>4. lcol' \in {0, 1} /\ fidx' \in {0, fidx} /\ (lcol' = 0 => fidx' = 0)
        BY <1>1, <2>3, <3>1 DEF FieldTooLong
      <3>5. QED
        BY <1>1, <2>3, <3>2, <3>3, <3>4 DEF FieldTooLong, table
    <2>4. ASSUME NEW txt \in Texts(fidx), NEW end \in {fsep, Newline},
                 FieldOverrun(txt, end)
          PROVE  Reads
      BY <1>1, <2>4 DEF FieldOverrun, table
    <2>5. QED
      BY <2>1, <2>2, <2>3, <2>4
  <1>3. /\ lost' \in BOOLEAN /\ line' \in Line /\ described' \subseteq Line
        /\ ~lost' => ~lost /\ UNCHANGED history
    <2>1. NoLine \in Line
      BY DEF NoLine, Line
    <2>2. lost \in BOOLEAN /\ line \in Line /\ described \subseteq Line
      BY DEF TableInv, TypeOK
    <2>3. CASE UNCHANGED <<lost, history>>
      BY <2>2, <2>3 DEF history
    <2>4. ASSUME NEW what, Lose(what)
          PROVE  /\ lost' \in BOOLEAN /\ line' \in Line /\ described' \subseteq Line
                 /\ ~lost' => ~lost /\ UNCHANGED history
      BY <2>1, <2>2, <2>4 DEF Lose, history
    <2>5. QED
      BY <1>2, <2>3, <2>4
  <1>4. TypeOK'
    <2>1. fidx' \in 0..(MaxFields - 1)
      BY <1>2, IdTableAssumption DEF TableInv, TypeOK, MaxFields
    <2>2. pc' \in {"idle", "read", "loaded", "exit", "undefined", "crash"}
      BY <1>2
    <2>3. QED
      BY <1>2, <1>3, <2>1, <2>2 DEF TableInv, TypeOK
  <1>5. InCapacity' /\ Reading'
    BY <1>2, TableTypes DEF TableInv, InCapacity, id_table_len, Reading
  <1>6. NamesDistinct' /\ Numbered'
    BY <1>2 DEF TableInv, NamesDistinct, Numbered
  <1>7. Covered'
    BY <1>1, <1>2, <1>3 DEF TableInv, Covered
  <1>8. HistoryOK'
    BY <1>2, <1>3 DEF TableInv, HistoryOK, history
  <1>9. Verified'
    BY <1>2 DEF Verified, verify_idtable
  <1>10. QED
    BY <1>4, <1>5, <1>6, <1>7, <1>8, <1>9 DEF TableInv

\* Marking a row changes nothing else of it.
LEMMA MarkedRows ==
  ASSUME TableInv, NEW pos,
         rows' = [i \in DOMAIN rows |->
                    IF i = pos + 1 THEN [rows[i] EXCEPT !.trace = TRUE] ELSE rows[i]],
         row' = IF pos = id_table_len THEN [row EXCEPT !.trace = TRUE] ELSE row
  PROVE  /\ rows' \in Seq(Row) /\ row' \in Row /\ Len(rows') = Len(rows)
         /\ \A i \in 1..Len(rows) : /\ rows'[i].sym = rows[i].sym
                                    /\ rows'[i].type = rows[i].type
                                    /\ rows'[i].src1 = rows[i].src1
         /\ row'.sym = row.sym
  <1>1. /\ rows \in Seq(Row) /\ row \in Row /\ DOMAIN rows = 1..Len(rows)
        /\ Len(rows) \in Nat /\ \A i \in 1..Len(rows) : rows[i] \in Row
    BY TableTypes DEF TableInv, TypeOK
  <1>2. ASSUME NEW r \in Row
        PROVE  LET m == [r EXCEPT !.trace = TRUE]
               IN  m \in Row /\ m.sym = r.sym /\ m.type = r.type /\ m.src1 = r.src1
    BY DEF Row
  <1> DEFINE Marked(i) == IF i = pos + 1 THEN [rows[i] EXCEPT !.trace = TRUE] ELSE rows[i]
  <1>3. \A i \in 1..Len(rows) : /\ Marked(i) \in Row
                                /\ Marked(i).sym = rows[i].sym
                                /\ Marked(i).type = rows[i].type
                                /\ Marked(i).src1 = rows[i].src1
    BY <1>1, <1>2
  <1>4. rows' = [i \in 1..Len(rows) |-> Marked(i)]
    BY <1>1
  <1> HIDE DEF Marked
  <1>5. rows' \in Seq(Row) /\ Len(rows') = Len(rows)
    <2>1. rows' \in [1..Len(rows) -> Row]
      BY <1>1, <1>3, <1>4
    <2>2. QED
      BY <1>1, <2>1
  <1>6. row' \in Row /\ row'.sym = row.sym
    BY <1>1, <1>2
  <1>7. QED
    BY <1>3, <1>4, <1>5, <1>6

\* The tables are loaded, and the row of a traced identifier is marked.
LEMMA UseKeeps ==
  ASSUME TableInv, Loaded \/ \E n \in Names : trace_identifier(n)
  PROVE  TableInv'
  <1>1. /\ UNCHANGED <<id_symtable, id_table_sz, fidx, lcol, full, err_count, rv, files>>
        /\ UNCHANGED <<lines, lost, line, described>>
        /\ pc \in {"idle", "loaded"} /\ pc' \in {"loaded", "crash", "undefined"}
    BY DEF Loaded, trace_identifier, table, history
  <1>2. /\ rows' \in Seq(Row) /\ row' \in Row /\ Len(rows') = Len(rows)
        /\ \A i \in 1..Len(rows) : /\ rows'[i].sym = rows[i].sym
                                   /\ rows'[i].type = rows[i].type
                                   /\ rows'[i].src1 = rows[i].src1
        /\ row'.sym = row.sym
    <2>1. CASE UNCHANGED <<rows, row>>
      BY <2>1 DEF TableInv, TypeOK
    <2>2. CASE Loaded
      BY <2>1, <2>2 DEF Loaded, table
    <2>3. ASSUME NEW n \in Names, trace_identifier(n), ~UNCHANGED <<rows, row>>
          PROVE  \E pos :
                   /\ rows' = [i \in DOMAIN rows |->
                                 IF i = pos + 1 THEN [rows[i] EXCEPT !.trace = TRUE]
                                 ELSE rows[i]]
                   /\ row' = IF pos = id_table_len THEN [row EXCEPT !.trace = TRUE] ELSE row
      BY <2>3, Zenon DEF trace_identifier
    <2>4. QED
      BY <2>1, <2>2, <2>3, MarkedRows
  <1>3. TypeOK'
    BY <1>1, <1>2 DEF TableInv, TypeOK
  <1>4. InCapacity' /\ Reading' /\ NamesDistinct'
    BY <1>1, <1>2 DEF TableInv, InCapacity, id_table_len, Reading, NamesDistinct
  <1>5. Numbered' /\ Covered' /\ Verified'
    BY <1>1, <1>2 DEF TableInv, Numbered, Covered, Verified, verify_idtable
  <1>6. HistoryOK'
    BY <1>1, <1>2 DEF TableInv, HistoryOK, Describes
  <1>7. QED
    BY <1>3, <1>4, <1>5, <1>6 DEF TableInv

\* Every step keeps the invariant.
LEMMA TableNext == ASSUME TableInv, [Next]_vars PROVE TableInv'
  <1>1. CASE UNCHANGED vars
    <2>1. UNCHANGED <<id_symtable, rows, row, id_table_sz, pc, fidx, lcol, full>>
          /\ UNCHANGED <<err_count, rv, files, lines, lost, line, described>>
      BY <1>1 DEF vars
    <2>2. TypeOK' /\ InCapacity' /\ NamesDistinct' /\ Numbered'
      BY <2>1 DEF TableInv, TypeOK, InCapacity, id_table_len, NamesDistinct, Numbered
    <2>3. Reading' /\ Covered' /\ HistoryOK' /\ Verified'
      BY <2>1
      DEF TableInv, Reading, Covered, HistoryOK, Describes, Verified, verify_idtable
    <2>4. QED
      BY <2>2, <2>3 DEF TableInv
  <1>2. CASE Next
    BY <1>2, OpenKeeps, FieldSepKeeps, FieldNewlineKeeps, ReadKeeps, UseKeeps DEF Next, Field
  <1>3. QED
    BY <1>1, <1>2

\* The inductive invariant holds for every sequence of files.
THEOREM TableIndInv == Spec => []TableInv
  <1>1. TableInv /\ [Next]_vars => TableInv'
    BY TableNext
  <1>2. QED
    BY TableInit, <1>1, PTL DEF Spec

\* The table keeps its types (read_id_table_stream, add_id_field).
THEOREM TableTypeOK == Spec => []TypeOK
  <1>1. TableInv => TypeOK
    BY DEF TableInv
  <1>2. QED
    BY TableIndInv, <1>1, PTL

\* id_table has room for every row that is counted or being filled, over any
\* number of files (add_id_field, id_table_grow).
THEOREM TableInCapacity == Spec => []InCapacity
  <1>1. TableInv => InCapacity
    BY DEF TableInv
  <1>2. QED
    BY TableIndInv, <1>1, PTL

----------------------------------------------------------------------------
\* In a table that was verified, with no line lost, the rows and the names are
\* in the same order: a row has the number of its place, and so has its name.
LEMMA RowsAreNames ==
  ASSUME TableInv, pc = "loaded", ~lost
  PROVE  /\ Len(rows) = Len(id_symtable)
         /\ \A i \in 1..Len(rows) : rows[i].sym = i /\ RowAt(i - 1) = rows[i]
  <1>1. Len(rows) \in Nat /\ Len(id_symtable) \in Nat
    BY TableTypes
  <1>2. \A i \in 1..Len(rows) : rows[i].sym = i
    BY DEF TableInv, Verified, verify_idtable
  <1>3. Len(rows) <= Len(id_symtable)
    <2>1. CASE Len(rows) = 0
      BY <1>1, <2>1
    <2>2. CASE Len(rows) > 0
      <3>1. Len(rows) \in 1..Len(rows)
        BY <1>1, <2>2
      <3>2. QED
        BY <1>2, <3>1 DEF TableInv, Numbered
    <2>3. QED
      BY <1>1, <2>1, <2>2
  <1>4. Len(id_symtable) <= Len(rows)
    <2>1. CASE Len(id_symtable) = 0
      BY <1>1, <2>1
    <2>2. CASE Len(id_symtable) > 0
      <3>1. Len(id_symtable) \in 1..Len(id_symtable)
        BY <1>1, <2>2
      <3>2. PICK i \in 1..Len(rows) : rows[i].sym = Len(id_symtable)
        BY <3>1 DEF TableInv, Covered
      <3>3. QED
        BY <1>1, <1>2, <3>2
    <2>3. QED
      BY <1>1, <2>1, <2>2
  <1>5. \A i \in 1..Len(rows) : RowAt(i - 1) = rows[i]
    BY <1>1 DEF RowAt, id_table_len
  <1>6. QED
    BY <1>1, <1>2, <1>3, <1>4, <1>5

\* When the program goes on to use its tables, every name leads id_find to
\* its own row (verify_idtable), unless a line was lost.
THEOREM TableSynced == Spec => []SyncedWhenLoaded
  <1>1. ASSUME TableInv, pc = "loaded", ~lost
        PROVE  InSync /\ id_table_len = Len(id_symtable)
    <2>1. /\ Len(rows) = Len(id_symtable) /\ Len(rows) \in Nat
          /\ \A i \in 1..Len(rows) : rows[i].sym = i /\ RowAt(i - 1) = rows[i]
      BY <1>1, RowsAreNames, TableTypes
    <2>2. QED
      BY <2>1 DEF InSync, id_table_len
  <1>2. TableInv => SyncedWhenLoaded
    BY <1>1 DEF SyncedWhenLoaded
  <1>3. QED
    BY TableIndInv, <1>2, PTL

\* Every line that was counted is found by its name, with the type and the
\* header of that line (id_find), unless a line was lost.
THEOREM TableFindsOwnLine == Spec => []FindsOwnLine
  <1>1. ASSUME TableInv, pc = "loaded", ~lost, NEW d \in described
        PROVE  LET pos == id_find(d.name, Types)
               IN  /\ pos # undef_idnr
                   /\ RowAt(pos).type = encode_id_type(d.type)
                   /\ RowAt(pos).src1 = d.header
    <2>1. PICK i \in 1..Len(rows) : Describes(rows[i], d, id_symtable)
      BY <1>1 DEF TableInv, HistoryOK
    <2>2. /\ Len(rows) = Len(id_symtable) /\ Len(rows) \in Nat
          /\ rows[i].sym = i /\ RowAt(i - 1) = rows[i]
      BY <1>1, RowsAreNames, TableTypes
    <2>3. id_symtable[i] = d.name
      BY <2>1, <2>2 DEF Describes, undef_symnr
    <2>4. NumberOf(id_symtable, d.name) = i
      BY <1>1, <2>2, <2>3, NumberUnique DEF TableInv, NamesDistinct
    <2>5. /\ RowAt(i - 1).type = encode_id_type(d.type) /\ RowAt(i - 1).src1 = d.header
          /\ RowAt(i - 1).type \cap Types # {}
      BY <2>1, <2>2, TypeBits DEF Describes
    <2>6. id_find(d.name, Types) = i - 1
      BY <2>2, <2>4, <2>5 DEF id_find, undef_symnr
    <2>7. QED
      BY <2>2, <2>5, <2>6 DEF undef_idnr
  <1>2. TableInv => FindsOwnLine
    BY <1>1 DEF FindsOwnLine
  <1>3. QED
    BY TableIndInv, <1>2, PTL

\* The search through id_symtable finds what the linear search through the
\* rows finds (id_find, id_find_linear_search), unless a line was lost.
THEOREM TableSearchesAgree == Spec => []SearchesAgree
  <1>1. ASSUME TableInv, pc = "loaded", ~lost, NEW n \in Names, NEW t \in Types
        PROVE  id_find(n, {t}) = id_find_linear_search(n, {t})
    <2> DEFINE found == {pos \in 0..(id_table_len - 1) :
                           /\ rows[pos + 1].sym # undef_symnr
                           /\ id_symtable[rows[pos + 1].sym] = n
                           /\ rows[pos + 1].type \cap {t} # {}}
    <2>1. /\ Len(rows) = Len(id_symtable) /\ Len(rows) \in Nat
          /\ \A i \in 1..Len(rows) : rows[i].sym = i /\ RowAt(i - 1) = rows[i]
      BY <1>1, RowsAreNames, TableTypes
    <2>2. id_find_linear_search(n, {t}) =
            IF found = {} THEN undef_idnr ELSE CHOOSE pos \in found : \A q \in found : pos <= q
      BY DEF id_find_linear_search
    <2>3. \A pos \in found : /\ pos + 1 \in 1..Len(id_symtable)
                             /\ id_symtable[pos + 1] = n
                             /\ rows[pos + 1].type \cap {t} # {}
      BY <2>1 DEF id_table_len
    <2>4. CASE \E i \in 1..Len(id_symtable) : id_symtable[i] = n
      <3>1. PICK i \in 1..Len(id_symtable) : id_symtable[i] = n
        BY <2>4
      <3>2. NumberOf(id_symtable, n) = i
        BY <1>1, <2>1, <3>1, NumberUnique DEF TableInv, NamesDistinct
      <3>3. id_find(n, {t}) = IF rows[i].type \cap {t} = {} THEN undef_idnr ELSE i - 1
        BY <2>1, <3>1, <3>2 DEF id_find, undef_symnr
      <3>4. \A pos \in found : pos = i - 1
        BY <1>1, <2>1, <2>3, <3>1 DEF TableInv, NamesDistinct, id_table_len
      <3>5. rows[i].type \cap {t} # {} => i - 1 \in found
        BY <2>1, <3>1 DEF id_table_len, undef_symnr
      <3> HIDE DEF found
      <3>6. CASE rows[i].type \cap {t} = {}
        <4>1. found = {}
          BY <2>1, <2>3, <3>1, <3>4, <3>6
        <4>2. QED
          BY <2>2, <3>3, <3>6, <4>1
      <3>7. CASE rows[i].type \cap {t} # {}
        <4>1. found = {i - 1}
          BY <3>4, <3>5, <3>7
        <4>2. (CHOOSE pos \in found : \A q \in found : pos <= q) = i - 1
          BY <2>1, <3>1, <4>1
        <4>3. QED
          BY <2>2, <3>3, <3>7, <4>1, <4>2
      <3>8. QED
        BY <3>6, <3>7
    <2>5. CASE ~ \E i \in 1..Len(id_symtable) : id_symtable[i] = n
      <3>1. found = {}
        BY <2>3, <2>5
      <3>2. id_find(n, {t}) = undef_idnr
        BY <2>5 DEF id_find, NumberOf
      <3>3. QED
        BY <2>2, <3>1, <3>2
    <2>6. QED
      BY <2>4, <2>5
  <1>2. TableInv => SearchesAgree
    BY <1>1 DEF SearchesAgree
  <1>3. QED
    BY TableIndInv, <1>2, PTL
============================================================================
