------------------------------ MODULE Command ------------------------------
(***************************************************************************)
(* The command incbot: main() takes the options in the order of the        *)
(* command line, finds an identifier table, marks the traced identifiers,  *)
(* probes the files that are named and has each one scanned and reported.  *)
(*                                                                         *)
(* The command line and the outside world are chosen: each option as it is *)
(* reached, the files and where the output goes in Init, argv[0] when it   *)
(* is looked at, and with each table what it holds and how well it reads.  *)
(* IdTable models the loading of a table and Scanner the scan of a file;   *)
(* here a table adds the identifiers it describes, and a scan finds the    *)
(* identifiers that the file mentions; the last line of a table is taken   *)
(* to end with a newline.  A file may vanish at any time, reading one may  *)
(* fail, and so may any allocation.                                        *)
(*                                                                         *)
(* pc "crash" is a null pointer used, pc "undefined" an access outside an  *)
(* array or of a closed stream.  History variables: missing, a file that   *)
(* is named did not exist at the start; cut, an error ended the scan of a  *)
(* file.                                                                   *)
(***************************************************************************)
EXTENDS Report, Output

CONSTANTS Sources,          \* the names of files
          NameBytes,        \* file name -> its bytes, as C's signed char
          Mentioned,        \* file name -> the identifiers that its scan looks up
          TableIds,         \* the sets of identifiers that a table may describe
          MaxOptionErrors,  \* the option errors that are allowed
          NTrcv,            \* the size of trcv
          SegSize,          \* ref_inc_table_segment_size
          MaxOptions,       \* the number of options of a command line
          MaxFiles          \* the number of files of a command line

Stdin == "-"

ENOENT == 2
ENOMEM == 12
EACCES == 13

ASSUME CommandAssumption ==
    /\ Stdin \notin Sources
    /\ DOMAIN NameBytes = Sources \cup {Stdin}
    /\ \A f \in DOMAIN NameBytes : NameBytes[f] \in Seq(-128..127)
    /\ DOMAIN Mentioned = Sources \cup {Stdin}
    /\ \A f \in DOMAIN Mentioned : Mentioned[f] \in Seq(Idents)
    /\ \A t \in TableIds : t \subseteq Idents
    /\ {MaxOptionErrors, NTrcv, MaxOptions, MaxFiles} \subseteq Nat
    /\ SegSize \in Nat \ {0}

VARIABLES pc, status,               \* where main is; the exit status
          nopt, err_count, have_id_table, ntrace, verbose,
          dbgprint_fh,              \* "none" without --debug
          tables, known,            \* id_symtable exists; its identifiers
          filev, disk, missing, argv0, fds,
          stdin_open, fnr, refnr,   \* the file, and the place in it
          ref_inc_table, ref_inc_table_sz,
          reports,                  \* what was printed, one for each file
          cut, out

options == <<nopt, err_count, have_id_table, ntrace, verbose, dbgprint_fh>>
table == <<tables, known>>
world == <<filev, disk, missing, argv0, fds>>
scan == <<stdin_open, fnr, refnr, ref_inc_table, ref_inc_table_sz, reports, cut>>
vars == <<pc, status, options, table, world, scan, out>>

Ended == {"exit", "shown", "abort", "crash", "undefined"}

DiskStates == {"absent", "unreadable", "failing", "readable"}

Init ==
    /\ pc = "options"
    /\ status = 0
    /\ nopt = 0
    /\ err_count = 0
    /\ have_id_table = FALSE
    /\ ntrace = 0
    /\ verbose = FALSE
    /\ dbgprint_fh = "none"
    /\ tables = FALSE
    /\ known = {}
    /\ filev \in BoundedSeq(Sources \cup {Stdin}, MaxFiles)
    /\ disk \in [Sources -> DiskStates]
    /\ \A f \in Sources \ Range(filev) : disk[f] = "absent"     \* it does not matter
    /\ missing = \E i \in DOMAIN filev : filev[i] \in Sources /\ disk[filev[i]] = "absent"
    /\ argv0 = "unseen"
    /\ fds \in Layouts
    /\ stdin_open = TRUE
    /\ fnr = 0
    /\ refnr = 0
    /\ ref_inc_table = <<>>
    /\ ref_inc_table_sz = SegSize       \* init_tables, with the first table
    /\ reports = <<>>
    /\ cut = FALSE
    /\ out = Silence

\* Without a file, standard input.
files == IF filev = <<>> THEN <<Stdin>> ELSE filev

\* What main sets at its start.
errprint_fh == set_eprint_fh(fds)

Complained(os) == Printed(fds, os, errprint_fh, "complaint")

\* dbg_printf.
Debugged(os) ==
    IF dbgprint_fh = "none" THEN os ELSE Printed(fds, os, dbgprint_fh, "debug")

\* MUTANT: the status is taken for an int.
exit_Int(code, os) == pc' = "exit" /\ status' = code /\ out' \in Flushed(fds, os)

\* MUTANT: _exit(), which leaves the buffer alone.
exit_Unflushed(code, os) == pc' = "exit" /\ status' = code % 256 /\ out' \in os

\* exit, from one of the outputs os: the status has eight bits.
exit(code, os) == pc' = "exit" /\ status' = code % 256 /\ out' \in Flushed(fds, os)

GoTo(place, os) == pc' = place /\ UNCHANGED status /\ out' \in os

Quiet == {out}

----------------------------------------------------------------------------
\* The loop over the options.

Option ==
    /\ pc = "options"
    /\ err_count <= MaxOptionErrors
    /\ nopt < MaxOptions
    /\ nopt' = nopt + 1
    /\ UNCHANGED <<world, scan>>

\* --version and --help exit with status 0; pc tells that from the end of main.
ShowAndExit ==
    /\ Option
    /\ pc' = "shown"
    /\ out' \in Flushed(fds, Printed(fds, Quiet, "stdout", "notice"))
    /\ UNCHANGED <<status, err_count, have_id_table, ntrace, verbose, dbgprint_fh>>
    /\ UNCHANGED table

Verbose ==
    /\ Option
    /\ GoTo("options", Quiet)
    /\ verbose' = TRUE
    /\ UNCHANGED <<err_count, have_id_table, ntrace, dbgprint_fh, table>>

\* --debug, which makes main verbose too.
Debug ==
    /\ Option
    /\ GoTo("options", Quiet)
    /\ verbose' = TRUE
    /\ dbgprint_fh' \in set_debug_fh(errprint_fh)
    /\ UNCHANGED <<err_count, have_id_table, ntrace, table>>

\* --conf: read_config_file is not implemented.
Conf ==
    /\ Option
    /\ exit(2, Complained(Quiet))
    /\ UNCHANGED <<err_count, have_id_table, ntrace, verbose, dbgprint_fh, table>>

UnknownOption ==
    /\ Option
    /\ err_count' = err_count + 1
    /\ GoTo("options", Complained(Quiet))
    /\ UNCHANGED <<have_id_table, ntrace, verbose, dbgprint_fh, table>>

\* --trace: add_trace_identifiers does not look at the size of trcv.
Trace ==
    /\ Option
    /\ GoTo(IF ntrace < NTrcv THEN "options" ELSE "undefined", Quiet)
    /\ ntrace' = ntrace + 1
    /\ UNCHANGED <<err_count, have_id_table, verbose, dbgprint_fh, table>>

\* read_id_table_file reads a table that describes ids; verify_idtable exits
\* if an identifier is described for the second time.  It returns to place,
\* or with exitOn, where its result is an error, main exits.
read_id_table_file(ids, repeats, result, exitOn, place) ==
    LET again == repeats \/ ids \cap known # {}
        read == Debugged(Quiet)
        told == IF again \/ result # 0 THEN Complained(read) ELSE read
    IN  /\ tables' = TRUE
        /\ known' = known \cup ids
        /\ IF again THEN exit(2, told)
           ELSE IF exitOn /\ result # 0 THEN exit(result, told)
           ELSE GoTo(place, told)

\* --id-table.  "Here, it matters only that a table was mentioned, not
\* whether it was read without errors."
IdTableOption ==
    /\ Option
    /\ have_id_table' = TRUE
    /\ \E ids \in TableIds, repeats \in BOOLEAN, result \in 0..2 :
          read_id_table_file(ids, repeats, result, FALSE, "options")
    /\ UNCHANGED <<err_count, ntrace, verbose, dbgprint_fh>>

\* --id-table, with a file that cannot be opened.
IdTableOptionFails ==
    /\ Option
    /\ have_id_table' = TRUE
    /\ GoTo("options", Complained(Quiet))
    /\ UNCHANGED <<err_count, ntrace, verbose, dbgprint_fh, table>>

\* fshow_str_array shows the names of the files, one of which may not fit.
fshow_str_array(os) ==
    IF filev = <<>> THEN os ELSE Printed(fds, os, errprint_fh, "notice")
fshow_str_array_overruns == \E i \in DOMAIN filev : fshow_str_overruns(NameBytes[filev[i]])

EndOptions ==
    LET ended == IF err_count > MaxOptionErrors THEN Complained(Quiet) ELSE Quiet
        shown == IF verbose THEN fshow_str_array(ended) ELSE ended
    IN  /\ pc = "options"
        /\ IF verbose /\ fshow_str_array_overruns
              THEN GoTo("undefined", shown)
            ELSE IF err_count # 0 THEN exit(1, Complained(shown))
            ELSE GoTo(IF have_id_table THEN "trace" ELSE "default", shown)
        /\ UNCHANGED <<options, table, world, scan>>

----------------------------------------------------------------------------
\* No table was named: the one at a fixed path, then the one in the source
\* tree that the program was built in.

LoadTable ==
    /\ have_id_table' = TRUE
    /\ \E ids \in TableIds, repeats \in BOOLEAN, result \in 0..2 :
          read_id_table_file(ids, repeats, result, TRUE, "trace")

\* access() lets the table through, and it cannot be opened any more.
TableVanishes ==
    /\ exit(ENOENT, Complained(Quiet))
    /\ UNCHANGED <<have_id_table, table>>

NoTable(ending) ==
    /\ ending
    /\ UNCHANGED <<have_id_table, table>>

DefaultTable ==
    /\ pc = "default"
    /\ LoadTable \/ TableVanishes \/ NoTable(GoTo("exe", Quiet))
    /\ UNCHANGED <<nopt, err_count, ntrace, verbose, dbgprint_fh, world, scan>>

\* realpath() knows argv[0] only when it is a path: it may return a null
\* pointer.  A path shorter than "/src/cmd/incbot" is compared at an offset
\* before its start; any other path may be elsewhere, or have no table.
ExeTable ==
    /\ pc = "exe"
    /\ \/ argv0' = "in_tree" /\ (LoadTable \/ TableVanishes)
       \/ argv0' = "no_path" /\ NoTable(GoTo("crash", Quiet))
       \/ argv0' = "short" /\ NoTable(GoTo("undefined", Quiet))
       \/ /\ argv0' \in {"in_tree", "elsewhere"}
          /\ NoTable(exit(2, Complained(Quiet)))
    /\ UNCHANGED <<nopt, err_count, ntrace, verbose, dbgprint_fh>>
    /\ UNCHANGED <<filev, disk, missing, fds, scan>>

\* mark_all_traced_identifiers looks each one up in id_symtable.
MarkTraced ==
    /\ pc = "trace"
    /\ GoTo(IF ntrace > 0 /\ ~tables THEN "crash"
            ELSE IF filev = <<>> THEN "reprobe" ELSE "probe", Quiet)
    /\ UNCHANGED <<options, table, world, scan>>

----------------------------------------------------------------------------
\* The files.

fname_probe(f) == IF f = Stdin \/ disk[f] # "absent" THEN 0 ELSE -1

\* MUTANT: the loop ends one file early.
filev_probe_Short ==
    IF \E i \in 1..(Len(files) - 1) : fname_probe(files[i]) # 0 THEN -1 ELSE 0

filev_probe == IF \E i \in DOMAIN files : fname_probe(files[i]) # 0 THEN -1 ELSE 0

\* main probes the files, and incbot_all_files does it again.  fname_probe
\* shows the names of those that do not exist.
Probe ==
    /\ pc \in {"probe", "reprobe"}
    /\ IF \E i \in DOMAIN files :
             fname_probe(files[i]) # 0 /\ fshow_fname_overruns(NameBytes[files[i]])
         THEN GoTo("undefined", Quiet)
       ELSE IF filev_probe # 0 THEN exit(filev_probe, Complained(Quiet))
       ELSE GoTo(IF pc = "probe" THEN "reprobe" ELSE "file", Quiet)
    /\ UNCHANGED <<options, table, world, scan>>

\* MUTANT: the file is tried again.
open_failed_Retry(err) == GoTo("file", Quiet)

\* MUTANT: the rest of the files is not scanned, and nobody is told.
open_failed_Quiet(err) == exit(0, Quiet)

\* MUTANT: the status is all that tells.
open_failed_Silent(err) == exit(err, Quiet)

\* incbot_src_file returns the error, and main exits with it.
open_failed(err) == exit(err, Complained(Quiet))

\* incbot_src_file opens the file, or takes standard input.
OpenFile ==
    LET f == files[fnr + 1] IN
    /\ pc = "file"
    /\ fnr < Len(files)
    /\ IF f = Stdin THEN GoTo(IF stdin_open THEN "scan" ELSE "undefined", Quiet)
       ELSE IF disk[f] = "absent" THEN open_failed(ENOENT)
       ELSE IF disk[f] = "unreadable" THEN open_failed(EACCES)
       ELSE GoTo("scan", Quiet)
    /\ UNCHANGED <<options, table, world, scan>>

\* MUTANT: the array grows one entry too late.
Grown_Late == IF Len(ref_inc_table) > ref_inc_table_sz
                THEN ref_inc_table_sz + SegSize ELSE ref_inc_table_sz

\* ref_inc_table_grow, when the array is full.
Grown == IF Len(ref_inc_table) >= ref_inc_table_sz
           THEN ref_inc_table_sz + SegSize ELSE ref_inc_table_sz

add_ref_inc_pair(n) ==
    /\ ref_inc_table' = Append(ref_inc_table, RefTo(n))
    /\ ref_inc_table_sz' = Grown

\* The scan looks up the next identifier of the file in id_symtable, and
\* records it if it is there.
Identifier ==
    LET mentions == Mentioned[files[fnr + 1]]
        n == mentions[refnr + 1]
    IN  /\ pc = "scan"
        /\ refnr < Len(mentions)
        /\ refnr' = refnr + 1
        /\ IF ~tables
             THEN GoTo("crash", Quiet) /\ UNCHANGED <<ref_inc_table, ref_inc_table_sz>>
           ELSE IF n \in known
             THEN GoTo("scan", Debugged(Quiet)) /\ add_ref_inc_pair(n)
             ELSE GoTo("scan", Quiet) /\ UNCHANGED <<ref_inc_table, ref_inc_table_sz>>
        /\ UNCHANGED <<stdin_open, fnr, reports, cut, options, table, world>>

\* MUTANT: standard input is closed behind every file.
fclose_Stdin(f) == FALSE

\* fclose: whether standard input is still open behind the file f.
fclose(f) == stdin_open /\ f # Stdin

\* The file ends, or an error makes it seem so, and is closed, standard input
\* too.
EndOfScan ==
    LET f == files[fnr + 1] IN
    /\ pc = "scan"
    /\ refnr = Len(Mentioned[f]) \/ (f # Stdin /\ disk[f] = "failing")
    /\ cut' = (cut \/ refnr < Len(Mentioned[f]))
    /\ stdin_open' = fclose(f)
    /\ fnr' = fnr + 1
    /\ refnr' = 0
    /\ GoTo("show", Quiet)
    /\ UNCHANGED <<ref_inc_table, ref_inc_table_sz, reports, options, table, world>>

\* io_guard: write_str has failed.
io_guard(os) == fds[1] \notin Files /\ GoTo("abort", Complained(os))

\* show_includes sorts the table in place and prints it; nothing empties it
\* before the next file.  Some of its writes are guarded; what the others
\* cannot write is lost.
show_includes ==
    LET sorted == qsort(ref_inc_table)
        printed == IF sorted = <<>> THEN Quiet
                   ELSE Printed(fds, Quiet, "stdout", "report")
    IN  /\ pc = "show"
        /\ ref_inc_table' = sorted
        /\ IF \E i \in DOMAIN sorted : RunsOn(sorted[i].inc_sym)
             THEN GoTo("undefined", Quiet) /\ UNCHANGED reports
             ELSE \/ GoTo("file", printed) /\ reports' = Append(reports, Lines(sorted))
                  \/ sorted # <<>> /\ io_guard(printed) /\ UNCHANGED reports
        /\ UNCHANGED <<stdin_open, fnr, refnr, ref_inc_table_sz, cut, options, table>>
        /\ UNCHANGED world

Finish ==
    /\ pc = "file"
    /\ fnr = Len(files)
    /\ exit(0, Quiet)
    /\ UNCHANGED <<options, table, world, scan>>

----------------------------------------------------------------------------
\* The first lookup in an empty table makes its hash table (dict_find).  How
\* much of a file was read before an error cut it short is not recorded.
FirstLookup ==
    /\ tables /\ known = {}
    /\ \/ pc = "trace" /\ ntrace > 0
       \/ /\ pc = "scan" /\ ntrace = 0 /\ refnr = 0
          /\ Mentioned[files[fnr + 1]] # <<>>
          /\ cut \/ \A i \in 1..fnr : Mentioned[files[i]] = <<>>

\* Where memory is allocated: while a table is read, for its path, for its
\* hash table, at the start of a scan, and for a reference that does not fit.
Allocates ==
    \/ FirstLookup
    \/ pc = "options" /\ err_count <= MaxOptionErrors /\ nopt < MaxOptions
    \/ pc \in {"default", "exe"}
    \/ pc = "file" /\ fnr < Len(files)
    \/ /\ pc = "scan" /\ Len(ref_inc_table) >= ref_inc_table_sz
       /\ refnr < Len(Mentioned[files[fnr + 1]])
       /\ Mentioned[files[fnr + 1]][refnr + 1] \in known

\* guard_malloc, guard_calloc and guard_realloc never return without memory.
OutOfMemory ==
    /\ Allocates
    /\ exit(ENOMEM, Complained(Quiet))
    /\ UNCHANGED <<options, table, world, scan>>

\* Another program removes a file.
Vanish ==
    /\ pc \notin Ended
    /\ \E f \in Sources :
          disk[f] \notin {"absent", "failing"} /\ disk' = [disk EXCEPT ![f] = "absent"]
    /\ UNCHANGED <<pc, status, out, filev, missing, argv0, fds, options, table, scan>>

Step == \/ ShowAndExit \/ Verbose \/ Debug \/ Conf \/ UnknownOption \/ Trace
        \/ IdTableOption \/ IdTableOptionFails \/ EndOptions
        \/ DefaultTable \/ ExeTable \/ MarkTraced
        \/ Probe \/ OpenFile \/ Identifier \/ EndOfScan \/ show_includes \/ Finish

Next == Step \/ OutOfMemory \/ Vanish

\* The program takes its steps; memory need not run out, nor files vanish.
Spec == Init /\ [][Next]_vars /\ WF_vars(Step)

----------------------------------------------------------------------------
\* Every variable has its type.
TypeOK ==
    /\ pc \in {"options", "default", "exe", "trace", "probe", "reprobe", "file",
               "scan", "show"} \cup Ended
    /\ status \in 0..255
    /\ nopt \in 0..MaxOptions
    /\ err_count \in 0..(MaxOptionErrors + 1)
    /\ ntrace \in 0..(NTrcv + 1)
    /\ {have_id_table, verbose, tables, stdin_open, missing, cut} \subseteq BOOLEAN
    /\ dbgprint_fh \in {"none", "dbgfile", "stdout", "stderr"}
    /\ known \subseteq Idents
    /\ filev \in Seq(Sources \cup {Stdin})
    /\ disk \in [Sources -> DiskStates]
    /\ argv0 \in {"unseen", "in_tree", "elsewhere", "short", "no_path"}
    /\ fds \in Layouts
    /\ fnr \in 0..Len(files)
    /\ refnr \in Nat
    /\ ref_inc_table \in Seq(Refs)
    /\ ref_inc_table_sz \in Nat
    /\ OutputTypeOK(out)

\* The array has room for the references of all files, however they are
\* spread over the files, and whatever the sorting between them.
RefsFit == Len(ref_inc_table) <= ref_inc_table_sz

\* The identifiers of the first k files that the tables describe.
KnownUpTo(k) ==
    known \cap UNION {Range(Mentioned[files[i]]) : i \in 1..k}

\* The report behind the k-th file is that of the first k files together:
\* each header once, in order, with the identifiers that need it, each once,
\* in order, although the table is sorted in place, reported and added to
\* again.  Only an error while a file is read makes it shorter, and only two
\* Bars in a row in a header string make it name a header that is none.
Reports ==
    \A k \in 1..Len(reports) :
       \/ cut
       \/ \E n \in KnownUpTo(k) : DoubledBar(HeaderOf[n])
       \/ ReportsOf(reports[k], KnownUpTo(k))

\* When incbot exits with status 0, and not for having shown its help or its
\* version, it has reported every file, whatever went away in the meantime
\* and however badly a table that was named was read.
SuccessIsComplete ==
    pc = "exit" /\ status = 0 => Len(reports) = Len(files)

\* When one of the files does not exist, nothing is reported for the others
\* either, and no success is claimed for having scanned them.
QuietWhenMissing == missing => reports = <<>>

\* Whoever reads one file sees the messages in the order in which they were
\* printed, reports and complaints and the messages of --debug among each
\* other, whatever stdout has buffered: this is what set_eprint_fh is for.
InOrder == \A f \in Files : Increasing(out.arrived[f])

\* When incbot exits, everything that it has printed has arrived, if both
\* descriptors lead to files that take it.
Delivered ==
    pc \in {"exit", "shown"} /\ {fds[1], fds[2]} \subseteq Files =>
        UNION {Messages(out.arrived[f]) : f \in Files} = DOMAIN out.said

\* A run that fails says so: the last thing said, but for debugging, is a
\* complaint, and it has arrived where descriptor 2 leads, be it through
\* stdout.
FailureIsTold ==
    LET told == {m \in DOMAIN out.said : out.said[m] # "debug"}
    IN  (pc = "exit" /\ status # 0) \/ pc = "abort" =>
            \/ fds[2] \notin Files
            \/ \E m \in Messages(out.arrived[fds[2]]) :
                  out.said[m] = "complaint" /\ \A k \in told : k <= m

\* The command uses a null pointer, or leaves an array or an open stream,
\* only for one of six reasons: more traces than trcv holds, an argv[0] that
\* is no path or a short one, a table that was named and cannot be opened,
\* standard input named twice, a name with bytes above 127 that is shown, a
\* header string that ends with a Bar.
FaultHasCause ==
    pc \in {"crash", "undefined"} =>
        \/ ntrace > NTrcv
        \/ argv0 \in {"no_path", "short"}
        \/ have_id_table /\ ~tables
        \/ \E i, j \in DOMAIN filev : i # j /\ filev[i] = Stdin /\ filev[j] = Stdin
        \/ \E i \in DOMAIN filev : /\ fshow_str_overruns(NameBytes[filev[i]])
                                   /\ verbose \/ fname_probe(filev[i]) # 0
        \/ \E n \in KnownUpTo(Len(files)) : RunsOn(HeaderOf[n])

\* The command comes to an end, whatever the command line and the files.
Halts == <>(pc \in Ended)

\* cmd/incbot.c:250-251: "it matters only that a table was mentioned, not
\* whether it was read without errors".
MentionedTableSuffices == have_id_table => pc # "crash"
=============================================================================
