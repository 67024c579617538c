------------------------------- MODULE Output -------------------------------
(***************************************************************************)
(* Where the messages of incbot go, and in which order they get there.    *)
(* Reports are printed on the stream stdout, complaints on errprint_fh and *)
(* the messages of --debug on dbgprint_fh.  stdout has a buffer, stderr    *)
(* has none.  set_eprint_fh() sends complaints through stdout when both    *)
(* streams lead to the same file, so that they cannot overtake a report.   *)
(*                                                                         *)
(* A message has a kind and the number of its turn; all that one call has  *)
(* to say is one message.  The output is a record:                         *)
(*   said     the kinds of the messages, in the order they were printed    *)
(*   obuf     the numbers of those that are in the buffer of stdout        *)
(*   arrived  file -> the numbers of those that have got there             *)
(* A step takes one of the records in a set: the buffer may spill or not.  *)
(* What goes to stderr without regard to errprint_fh (the lines of --trace *)
(* and, with --verbose, the name of a table) is left out.                  *)
(***************************************************************************)
EXTENDS Integers, Sequences

CONSTANT Layouts    \* what descriptors 1 and 2 may lead to

Files == {"log", "tty"}         \* they take what is written
Targets == Files \cup {"full", "closed"}

Kinds == {"report", "complaint", "notice", "debug"}

ASSUME OutputAssumption == Layouts \subseteq Targets \X Targets

Silence == [said |-> <<>>, obuf |-> <<>>, arrived |-> [f \in Files |-> <<>>]]

\* fstat() fails for a closed descriptor.
stderr_redirected(fds) ==
    IF "closed" \in {fds[1], fds[2]} THEN -1 ELSE IF fds[1] = fds[2] THEN 0 ELSE 1

\* MUTANT: the two cases are swapped.
set_eprint_fh_Swapped(fds) == IF stderr_redirected(fds) = 0 THEN "stderr" ELSE "stdout"

set_eprint_fh(fds) == IF stderr_redirected(fds) = 0 THEN "stdout" ELSE "stderr"

\* The streams that set_debug_fh(NULL) may choose: the first of the files
\* that the environment names and that can be opened, else errprint_fh,
\* which main has set.
set_debug_fh(errprint_fh) == {"dbgfile", errprint_fh}

----------------------------------------------------------------------------
\* write(): the messages ms get to where fd leads.
Arrive(o, fd, ms) ==
    IF fd \in Files THEN [o EXCEPT !.arrived[fd] = @ \o ms] ELSE o

\* The buffer of stdout spills its first k messages.
Spill(fds, o, k) ==
    [Arrive(o, fds[1], SubSeq(o.obuf, 1, k)) EXCEPT
        !.obuf = SubSeq(o.obuf, k + 1, Len(o.obuf))]

\* The outcomes of printing a message on a stream, from one of the outputs
\* os.  On stdout everything stays in the buffer, the last message or a part
\* of it stays there, or nothing does.
Printed(fds, os, fh, kind) ==
    LET nr(o) == Len(o.said) + 1
        Spoken(o) == [o EXCEPT !.said = Append(@, kind)]
        Kept(o) == [Spoken(o) EXCEPT !.obuf = Append(@, nr(o))]
    IN  CASE fh = "stdout" ->
               UNION {{Spill(fds, Kept(o), k) : k \in {0, Len(o.obuf), Len(o.obuf) + 1}}
                         : o \in os}
          [] fh = "stderr" -> {Arrive(Spoken(o), fds[2], <<nr(o)>>) : o \in os}
          [] OTHER -> os

\* exit() writes what is in the buffer; a failure goes unnoticed.
Flushed(fds, os) == {Spill(fds, o, Len(o.obuf)) : o \in os}

----------------------------------------------------------------------------
\* fshow_fname and fshow_str show each character in a buffer of their own.

DbufSize == 8

\* show_char_r: the characters that it writes for a (signed) char, the NUL
\* included.  "%02x" shows a negative one with eight digits.
show_char_r(chr) == IF chr \in 32..126 THEN 2 ELSE IF chr < 0 THEN 11 ELSE 5

fshow_str_overruns(str) == \E i \in DOMAIN str : show_char_r(str[i]) > DbufSize

\* "For now, this is the same as fshow_str()".
fshow_fname_overruns(fname) == fshow_str_overruns(fname)

----------------------------------------------------------------------------
OutputTypeOK(o) ==
    /\ o.said \in Seq(Kinds)
    /\ o.obuf \in Seq(DOMAIN o.said)
    /\ o.arrived \in [Files -> Seq(DOMAIN o.said)]

Increasing(seq) == \A i \in 1..(Len(seq) - 1) : seq[i] < seq[i + 1]

Messages(seq) == {seq[i] : i \in DOMAIN seq}
=============================================================================
