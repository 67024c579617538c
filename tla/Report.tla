------------------------------- MODULE Report -------------------------------
(***************************************************************************)
(* What show_includes() prints: the headers of the references in           *)
(* ref_inc_table, each once, and under it the identifiers that need it,    *)
(* each once.                                                              *)
(*                                                                         *)
(* An identifier, and a string of header names, is the number of its place *)
(* in the order of strcmp().  A header string is a sequence of names and   *)
(* Bars: one identifier may need several headers.  The form of the lines   *)
(* is left out.                                                            *)
(***************************************************************************)
EXTENDS Integers, Sequences, FiniteSets, SequencesExt

CONSTANTS HeaderText,   \* header string -> its names and Bars
          HeaderOf      \* identifier -> the header string of its table row

Bar == "|"

Idents == DOMAIN HeaderOf
Headers == DOMAIN HeaderText

ASSUME ReportAssumption ==
    /\ Idents \subseteq Nat
    /\ Headers \subseteq Nat
    /\ \A n \in Idents : HeaderOf[n] \in Headers
    /\ \A h \in Headers : HeaderText[h] \in Seq(STRING) /\ HeaderText[h] # <<>>

\* An entry of ref_inc_table.
RefTo(n) == [inc_sym |-> HeaderOf[n], ref_sym |-> n]
Refs == {RefTo(n) : n \in Idents}

\* The lines of a report.
Include(name) == [line |-> "include", text |-> name]
Import(n) == [line |-> "import", text |-> <<n>>]

\* MUTANT: the identifiers alone give the order.
refcmp_ByIdent(r1, r2) == r1.ref_sym < r2.ref_sym

\* refcmp, negative.
refcmp(r1, r2) ==
    \/ r1.inc_sym < r2.inc_sym
    \/ r1.inc_sym = r2.inc_sym /\ r1.ref_sym < r2.ref_sym

\* How many entries of a table come before its i-th one, or are that one.
\* Entries that compare equal are equal.
PlaceOf(refs, i) ==
    Cardinality({j \in DOMAIN refs :
                    refcmp(refs[j], refs[i]) \/ (refs[j] = refs[i] /\ j <= i)})

\* qsort, with refcmp.
qsort(refs) ==
    [k \in DOMAIN refs |-> refs[CHOOSE i \in DOMAIN refs : PlaceOf(refs, i) = k]]

\* The places where show_includes splits a header string.  The place behind
\* one is not examined: what is there belongs to the next name, even a Bar.
\* So of several Bars in a row the first one splits, and every other one.
SplitsAt(h) ==
    LET text == HeaderText[h]
    IN  {p \in 1..Len(text) :
          /\ text[p] = Bar
          /\ (p - Max({q \in 0..(p - 1) : q = 0 \/ text[q] # Bar})) % 2 = 1}

\* A split at the end makes the loop run on behind the end of the string.
RunsOn(h) == Len(HeaderText[h]) \in SplitsAt(h)

\* The name that ends before p2 starts behind the split before it.
NameBefore(splits, p2) == 1 + Max({0} \cup {p \in splits : p < p2})

\* The #include lines for a header string.
IncludeLines(h) ==
    LET text == HeaderText[h]
        splits == SplitsAt(h)
        out[p2 \in 0..(Len(text) + 1)] ==
          IF p2 = 0 THEN <<>>
          ELSE LET p1 == NameBefore(splits, p2)
               IN  IF p2 \in splits \cup {Len(text) + 1} /\ p1 < p2
                     THEN Append(out[p2 - 1], Include(SubSeq(text, p1, p2 - 1)))
                     ELSE out[p2 - 1]
    IN  out[Len(text) + 1]

\* The loop over the sorted table.
Lines(refs) ==
    LET out[k \in 0..Len(refs)] ==
          IF k = 0 THEN <<>>
          ELSE LET inc == refs[k].inc_sym
                   ref == refs[k].ref_sym
                   newInc == k = 1 \/ refs[k - 1].inc_sym # inc
                   newRef == newInc \/ refs[k - 1].ref_sym # ref
               IN  out[k - 1] \o (IF newInc THEN IncludeLines(inc) ELSE <<>>)
                              \o (IF newRef THEN <<Import(ref)>> ELSE <<>>)
    IN  out[Len(refs)]

----------------------------------------------------------------------------
\* The reference.

\* A name of a header string is a longest run without a Bar.
NameStarts(h) ==
    LET text == HeaderText[h]
    IN  {p \in 1..Len(text) : text[p] # Bar /\ (p = 1 \/ text[p - 1] = Bar)}

EndsName(text, p, q) ==
    /\ \A k \in p..q : text[k] # Bar
    /\ q = Len(text) \/ text[q + 1] = Bar

NameAt(h, p) ==
    LET text == HeaderText[h]
    IN  SubSeq(text, p, CHOOSE q \in p..Len(text) : EndsName(text, p, q))

\* Where show_includes takes the second of two Bars for the start of a name.
DoubledBar(h) ==
    \E p \in 2..Len(HeaderText[h]) : HeaderText[h][p - 1] = Bar /\ HeaderText[h][p] = Bar

\* The entries of a report that an identifier asks for: one for each name of
\* its header string, with the place of the name, and one for itself.
EntriesOf(n) ==
    {[header |-> HeaderOf[n], part |-> 0, nr |-> p] : p \in NameStarts(HeaderOf[n])}
    \cup {[header |-> HeaderOf[n], part |-> 1, nr |-> n]}

EntryLine(e) == IF e.part = 0 THEN Include(NameAt(e.header, e.nr)) ELSE Import(e.nr)

\* The headers are in order; behind the names of each, in order, are the
\* identifiers that need it, in order.
Precedes(d, e) ==
    \/ d.header < e.header
    \/ d.header = e.header /\ d.part < e.part
    \/ d.header = e.header /\ d.part = e.part /\ d.nr < e.nr

\* The lines have one for each entry, in the order of the entries.
ShowsEntries(lines, entries) ==
    /\ Len(lines) = Cardinality(entries)
    /\ \A e \in entries :
          lines[1 + Cardinality({d \in entries : Precedes(d, e)})] = EntryLine(e)

\* The lines report each header that one of the identifiers needs once, and
\* each identifier once.
ReportsOf(lines, idents) ==
    ShowsEntries(lines, UNION {EntriesOf(n) : n \in idents})
=============================================================================
