------------------------------ MODULE CFilter ------------------------------
(***************************************************************************)
(* libcf: the state machine that turns a stream of characters of a C      *)
(* source file into a stream of super-characters, each a character and    *)
(* the class of its context (code, string, character literal, comment).   *)
(*                                                                         *)
(* state, cclass and err are the fields of the context object cf_t; ccv   *)
(* is the array of super-characters that a call of cf_next appends to; rv *)
(* is how the last call ended.                                             *)
(***************************************************************************)
EXTENDS Integers, Sequences

CONSTANT OtherChars     \* the characters libcf does not treat specially

DQuote    == "dquote"
SQuote    == "squote"
Slash     == "slash"
Star      == "star"
Backslash == "backslash"
Newline   == "newline"
Nul       == "nul"      \* the character code 0
EOF       == "EOF"      \* what fgetc() returns at the end: never a character

Quotes  == {DQuote, SQuote}
Special == Quotes \cup {Slash, Star, Backslash, Newline}

\* A special character is one character: none of them, nor EOF, is an "other".
ASSUME OtherCharsAssumption == OtherChars \cap (Special \cup {Nul, EOF}) = {}

\* Every character of a source file: a file may hold NUL bytes too.
Chars == Special \cup OtherChars \cup {Nul}

CClass == {"CC_UNDEF", "CC_CODE", "CC_OUTER_STRING", "CC_INNER_STRING",
           "CC_OUTER_CHAR", "CC_INNER_CHAR", "CC_OUTER_COMMENT",
           "CC_INNER_COMMENT", "CC_EOF", "CC_ERR"}

States == {"S_START", "S_START_DQUOTE", "S_DQUOTE_ESCAPE", "S_START_SLASH",
           "S_SLASH_STAR", "S_SLASH_STAR_STAR", "S_START_SQUOTE",
           "S_SQUOTE_ESCAPE", "S_COMMENT_EOL", "S_EOF"}

SuperChar == [chr : Chars, ccl : CClass]

\* 0, and the one error number libcf ever stores in its context.
ErrNo == {"0", "ENOTRECOVERABLE"}

VARIABLES state, cclass, err, ccv, rv

cfvars == <<state, cclass, err, ccv, rv>>

----------------------------------------------------------------------------
\* The array of super-characters.

NLOOKAHEAD == 4

\* A push on a full array is refused, and cf_next ignores the ENOSPC.
ccv_push(v, chr, ccl) ==
    IF Len(v) >= NLOOKAHEAD THEN v ELSE Append(v, [chr |-> chr, ccl |-> ccl])

\* The last super-character; of an empty array cf_next takes 0 in CC_CODE.
ccv_top ==
    IF ccv = <<>> THEN [chr |-> Nul, ccl |-> "CC_CODE"] ELSE ccv[Len(ccv)]

----------------------------------------------------------------------------
\* A fresh context, cf_new(CC_CODE), and a fresh array, ccv_new().
cf_init ==
    /\ state = "S_START"
    /\ cclass = "CC_CODE"
    /\ err = "0"
    /\ ccv = <<>>
    /\ rv = "0"

\* What every character does when its switch is left: the new state and the
\* class of the next character, which is CC_CODE again in S_START.
Goto(next_state, next_cclass) ==
    /\ state' = next_state
    /\ cclass' = IF next_state = "S_START" THEN "CC_CODE" ELSE next_cclass
    /\ rv' = "0"
    /\ UNCHANGED err

Emit(chr, ccl) == ccv' = ccv_push(ccv, chr, ccl)

----------------------------------------------------------------------------
\* One action per case of the switch on the state.

InStart(chr) ==
    /\ state = "S_START"
    /\ \/ /\ chr = DQuote
          /\ Emit(chr, "CC_OUTER_STRING")
          /\ Goto("S_START_DQUOTE", "CC_INNER_STRING")
       \/ /\ chr = SQuote
          /\ Emit(chr, "CC_OUTER_CHAR")
          /\ Goto("S_START_SQUOTE", "CC_INNER_CHAR")
       \/ /\ chr = Slash            \* a comment or a division: wait and see
          /\ UNCHANGED ccv
          /\ Goto("S_START_SLASH", cclass)
       \/ /\ chr \notin {DQuote, SQuote, Slash}
          /\ Emit(chr, "CC_CODE")
          /\ Goto("S_START", cclass)

InDquote(chr) ==
    /\ state = "S_START_DQUOTE"
    /\ \/ /\ chr = Backslash
          /\ Emit(chr, cclass)
          /\ Goto("S_DQUOTE_ESCAPE", cclass)
       \/ /\ chr = DQuote
          /\ Emit(chr, "CC_OUTER_STRING")
          /\ Goto("S_START", cclass)
       \/ /\ chr \notin {Backslash, DQuote}
          /\ Emit(chr, cclass)
          /\ Goto("S_START_DQUOTE", cclass)

InDquoteEscape(chr) ==
    /\ state = "S_DQUOTE_ESCAPE"
    /\ Emit(chr, cclass)
    /\ Goto("S_START_DQUOTE", cclass)

\* MUTANT: the class of the delimiters is tested for that of the contents.
EndSquote_OuterClass(chr) ==
    IF cclass = "CC_OUTER_CHAR"
      THEN Emit(chr, "CC_OUTER_CHAR") /\ Goto("S_START", cclass)
      ELSE /\ err' = "ENOTRECOVERABLE"
           /\ rv' = "abort"
           /\ UNCHANGED <<state, cclass, ccv>>

\* The closing quote: the code checks that it was inside a literal, and
\* abort()s the program if not.
EndSquote(chr) ==
    IF cclass = "CC_INNER_CHAR"
      THEN Emit(chr, "CC_OUTER_CHAR") /\ Goto("S_START", cclass)
      ELSE /\ err' = "ENOTRECOVERABLE"
           /\ rv' = "abort"
           /\ UNCHANGED <<state, cclass, ccv>>

InSquote(chr) ==
    /\ state = "S_START_SQUOTE"
    /\ \/ /\ chr = Backslash
          /\ Emit(chr, cclass)
          /\ Goto("S_SQUOTE_ESCAPE", cclass)
       \/ /\ chr = SQuote
          /\ EndSquote(chr)
       \/ /\ chr \notin {Backslash, SQuote}
          /\ Emit(chr, cclass)
          /\ Goto("S_START_SQUOTE", cclass)

InSquoteEscape(chr) ==
    /\ state = "S_SQUOTE_ESCAPE"
    /\ Emit(chr, cclass)
    /\ Goto("S_START_SQUOTE", cclass)

\* MUTANT: the '/' is forgotten.
EmitSlashAnd_Drops(chr, ccl) == ccv' = ccv_push(ccv, chr, ccl)

\* The '/' that was held back and the character after it go out together.
EmitSlashAnd(chr, ccl) == ccv' = ccv_push(ccv_push(ccv, Slash, ccl), chr, ccl)

InStartSlash(chr) ==
    /\ state = "S_START_SLASH"
    /\ \/ /\ chr = Slash
          /\ EmitSlashAnd(chr, "CC_OUTER_COMMENT")
          /\ Goto("S_COMMENT_EOL", "CC_INNER_COMMENT")
       \/ /\ chr = Star
          /\ EmitSlashAnd(chr, "CC_OUTER_COMMENT")
          /\ Goto("S_SLASH_STAR", "CC_INNER_COMMENT")
       \/ /\ chr \notin {Slash, Star}   \* a division; chr is not looked at
          /\ EmitSlashAnd(chr, "CC_CODE")
          /\ Goto("S_START", cclass)

InSlashStar(chr) ==
    /\ state = "S_SLASH_STAR"
    /\ Emit(chr, cclass)
    /\ Goto(IF chr = Star THEN "S_SLASH_STAR_STAR" ELSE "S_SLASH_STAR", cclass)

\* MUTANT: a second star leaves the end of the comment.
InSlashStarStar_Forgets(chr) ==
    /\ state = "S_SLASH_STAR_STAR"
    /\ Emit(chr, cclass)
    /\ Goto(IF chr = Slash THEN "S_START" ELSE "S_SLASH_STAR", cclass)

InSlashStarStar(chr) ==
    /\ state = "S_SLASH_STAR_STAR"
    /\ Emit(chr, cclass)
    /\ \/ chr = Slash /\ Goto("S_START", cclass)
       \/ chr = Star /\ Goto("S_SLASH_STAR_STAR", cclass)
       \/ chr \notin {Slash, Star} /\ Goto("S_SLASH_STAR", cclass)

InCommentEol(chr) ==
    /\ state = "S_COMMENT_EOL"
    /\ Emit(chr, cclass)
    /\ Goto(IF chr = Newline THEN "S_START" ELSE "S_COMMENT_EOL", cclass)

----------------------------------------------------------------------------
\* The end of the file, and every call after it.  The block declares a chr
\* of its own, which hides the parameter: the character compared with EOF is
\* the one on top of the array.
ReportsOpenState(top) == top.chr = EOF /\ state # "S_START"

\* MUTANT: the mark carries EOF as its character.
MarkEnd_WithEOF(top) ==
    IF top.ccl # "CC_EOF" THEN ccv_push(ccv, EOF, "CC_EOF") ELSE ccv

\* MUTANT: every call adds a mark.
MarkEnd_Always(top) == ccv_push(ccv, Nul, "CC_EOF")

\* The array with the mark of the end of the file at its end.
MarkEnd(top) ==
    IF top.ccl # "CC_EOF" THEN ccv_push(ccv, Nul, "CC_EOF") ELSE ccv

cf_eof(chr) ==
    LET top == ccv_top IN
    /\ state = "S_EOF" \/ chr = EOF
    /\ ccv' = MarkEnd(top)
    /\ err' = IF ReportsOpenState(top) THEN "ENOTRECOVERABLE" ELSE err
    /\ state' = "S_EOF"
    /\ rv' = IF err' # "0" THEN "error" ELSE "EOF"
    /\ UNCHANGED cclass

\* One call of cf_next.
cf_next(chr) ==
    \/ cf_eof(chr)
    \/ /\ chr # EOF
       /\ \/ InStart(chr)
          \/ InDquote(chr)
          \/ InDquoteEscape(chr)
          \/ InSquote(chr)
          \/ InSquoteEscape(chr)
          \/ InStartSlash(chr)
          \/ InSlashStar(chr)
          \/ InSlashStarStar(chr)
          \/ InCommentEol(chr)

----------------------------------------------------------------------------
CFilterTypeOK ==
    /\ state \in States
    /\ cclass \in CClass
    /\ err \in ErrNo
    /\ ccv \in Seq(SuperChar)
    /\ Len(ccv) <= NLOOKAHEAD
    /\ rv \in {"0", "EOF", "error", "abort"}
============================================================================
