------------------------------ MODULE Mentions ------------------------------
(***************************************************************************)
(* The reference for the scan: which identifiers a text mentions in code   *)
(* outside #include directives, and how.  It is said with the positions of *)
(* the text, using only CTokens to tell code from comments and literals.   *)
(***************************************************************************)
EXTENDS Scanner

\* A text with what CTokens says of it: the positions of its code, and of
\* the ends of its lines.  A line ends at a newline in code and at the
\* newline of a //-comment.
Layout(s) ==
    LET class == ClassOf(s)
        start == TokenStart(s)
    IN  [s |-> s,
         code |-> {k \in 1..Len(s) : class[k] = "CC_CODE"},
         ends |-> {k \in 1..Len(s) : /\ s[k] = Newline
                                     /\ Kind(s, start[k]) \in {"code", "line"}}]

\* The operators below take the layout t of a text.

IdentAt(t, k) == k \in t.code /\ is_identifier(t.s[k])

\* The maximal runs of adjacent identifier characters, as <<first, last>>.
Runs(t) ==
    {r \in t.code \X t.code :
        /\ r[1] <= r[2]
        /\ \A k \in r[1]..r[2] : IdentAt(t, k)
        /\ ~IdentAt(t, r[1] - 1)
        /\ ~IdentAt(t, r[2] + 1)}

Identifiers(t) == {r \in Runs(t) : is_identifier_start(t.s[r[1]])}

WordOf(t, r) == SubSeq(t.s, r[1], r[2])

\* No code but white space lies strictly between the positions i and k.
Blank(t, i, k) == \A n \in t.code : i < n /\ n < k => isspace(t.s[n])

IsCalled(t, r) == \E k \in t.code : k > r[2] /\ t.s[k] = LParen /\ Blank(t, r[2], k)

SameLine(t, i, k) == t.ends \cap (i..(k - 1)) = {}

\* A '#' starts a directive when it is the first code on its line, blanks
\* aside.
Directives(t) ==
    {h \in t.code :
        /\ t.s[h] = Hash
        /\ \A k \in t.code : k < h /\ SameLine(t, k, h) => isspace(t.s[k])}

\* The words include in directives.
IncludeWords(t) ==
    {u \in Identifiers(t) :
        /\ WordOf(t, u) = IncludeWord
        /\ \E h \in Directives(t) : h < u[1] /\ SameLine(t, h, u[1])}

InInclude(t, r) ==
    \E u \in IncludeWords(t) : u[2] < r[1] /\ SameLine(t, u[2], r[1])

IsMention(t, r) ==
    /\ Wanted(WordOf(t, r), IF IsCalled(t, r) THEN {"FUNCTION", "KEYWORD"}
                                              ELSE Types \ {"FUNCTION"})
    /\ ~InInclude(t, r)

MentionsOf(t) == {r \in Identifiers(t) : IsMention(t, r)}

\* The references that the first k characters of a text call for, in the
\* order of the text.
ReferencesUpTo(t) ==
    LET mentions == MentionsOf(t)
        found[k \in 0..Len(t.s)] ==
          IF k = 0 THEN <<>>
          ELSE IF \E r \in mentions : r[2] = k
            THEN Append(found[k - 1], WordOf(t, CHOOSE r \in mentions : r[2] = k))
            ELSE found[k - 1]
    IN  found

References(t) == ReferencesUpTo(t)[Len(t.s)]

Elements(seq) == {seq[i] : i \in 1..Len(seq)}

----------------------------------------------------------------------------
\* What a text must not contain for the scan to be exact.  Each is a way in
\* which the program differs from the reference.

\* A comment or a literal with identifier characters right on both sides.
Glued(t) ==
    \E i, k \in t.code :
        /\ i + 1 < k /\ (i + 1)..(k - 1) \cap t.code = {}
        /\ is_identifier(t.s[i]) /\ is_identifier(t.s[k])

\* A number with letters in it.
LetteredNumber(t) ==
    \E r \in Runs(t) \ Identifiers(t) :
        \E k \in r[1]..r[2] : is_identifier_start(t.s[k])

\* A directive, in a text where a line ends right behind an identifier (but
\* for white space, comments and literals) that is not the operand of an
\* #include, or with a //-comment.
LineLost(t) ==
    /\ Directives(t) # {}
    /\ \/ \E r \in Identifiers(t), k \in t.ends \cap t.code :
             r[2] < k /\ Blank(t, r[2], k) /\ ~InInclude(t, r)
       \/ ~(t.ends \subseteq t.code)

\* A directive that is indented.
IndentedDirective(t) ==
    \E h \in Directives(t), k \in t.code : k < h /\ SameLine(t, k, h)

\* The table has the word include, and the text ends within the line of an
\* #include directive: the word is looked up when that line ends.
IncludeUnfinished(t) ==
    /\ IncludeWord \in DOMAIN IdTable
    /\ \E u \in IncludeWords(t) : SameLine(t, u[2], Len(t.s) + 1)

\* An #include directive in which a blank or nothing follows the word include.
BareInclude(t) ==
    \E u \in IncludeWords(t) : u[2] < Len(t.s) => isspace(t.s[u[2] + 1])

\* As many characters of an identifier as idbuf holds, with nothing but
\* comments and literals between them.
TooLong(t) ==
    \E i, k \in t.code :
        LET between == {n \in t.code : i <= n /\ n <= k}
        IN  /\ \A n \in between : is_identifier(t.s[n])
            /\ Cardinality(between) >= IdBufSize

----------------------------------------------------------------------------
Found == [i \in 1..Len(ref_inc_table) |-> ref_inc_table[i].ref_sym]

\* The scan records exactly the identifiers that the text mentions in code
\* outside of #include directives: functions where they are called, other
\* names where they are not.
FindsMentions ==
    LET t == Layout(src) IN
    pc = "done" =>
        \/ ~NoSlashQuote(src) \/ Glued(t) \/ LetteredNumber(t)
        \/ LineLost(t) \/ IndentedDirective(t) \/ IncludeUnfinished(t)
        \/ Found = References(t)

\* The scan leaves its arrays only with an identifier that fills idbuf, or
\* with the declaration of a type, which the table has and the scan looks up
\* in the wrong one of its dictionaries.
UndefinedHasCause ==
    pc = "undefined" =>
        \/ ~NoSlashQuote(src) \/ TooLong(Layout(src))
        \/ idbuf \in DOMAIN IdTable /\ IdTable[idbuf].declare

\* The line number that is stored with a reference is never ahead of the
\* text, but for the newline that an #include counts twice, although the
\* lines are counted in three loops.
LinesNotAhead ==
    LET t == Layout(src)
        ahead == lnr - Cardinality({k \in DOMAIN src : src[k] = Newline})
        includes == {u \in Identifiers(t) : WordOf(t, u) = IncludeWord}
    IN  pc = "done" /\ ahead > 0 =>
            \/ ~NoSlashQuote(src) \/ Glued(t) \/ LetteredNumber(t)
            \/ ahead <= Cardinality(includes)

\* README.md:5-7: incbot "extracts all identifiers used".  An identifier
\* that touches a comment is one.
FindsGlued ==
    LET t == Layout(src) IN
    pc = "done" =>
        \/ ~NoSlashQuote(src) \/ LetteredNumber(t)
        \/ LineLost(t) \/ IndentedDirective(t)
        \/ Found = References(t)

\* cmd/test/README:6-7: a header is included "whenever any of the symbolic
\* names of Unix errno values are mentioned", so also on the line behind an
\* #include directive that names a file in quotes.
NoLineSwallowed ==
    LET t == Layout(src) IN
    pc = "done" =>
        \/ ~NoSlashQuote(src) \/ Glued(t) \/ LetteredNumber(t)
        \/ IndentedDirective(t) \/ BareInclude(t)
        \/ Elements(References(t)) \subseteq Elements(Found)

\* cmd/test/README:9: a header is included for the names that are mentioned,
\* "But not in comments, not strings, and not in #include directives".
NothingFromInclude ==
    LET t == Layout(src) IN
    pc = "done" =>
        \/ ~NoSlashQuote(src) \/ Glued(t) \/ LetteredNumber(t)
        \/ IndentedDirective(t)
        \/ Elements(Found) \subseteq Elements(References(t))
============================================================================
