--------------------------- MODULE CommandProofs ---------------------------
(***************************************************************************)
(* The command, for every command line, every set of files and tables, and *)
(* wherever the descriptors lead.  The invariant says how far main has     *)
(* come with its tables and files at each place, what the table of         *)
(* references holds, and what has been printed; each part is kept by every *)
(* step, given some of the others.                                         *)
(***************************************************************************)
EXTENDS Command, OutputProofs, TLAPS

\* TypeOK in parts: the flags, what main counts, and what it keeps.
Flags ==
    /\ have_id_table \in BOOLEAN /\ verbose \in BOOLEAN /\ tables \in BOOLEAN
    /\ stdin_open \in BOOLEAN /\ missing \in BOOLEAN /\ cut \in BOOLEAN

Counts ==
    /\ pc \in {"options", "default", "exe", "trace", "probe", "reprobe", "file",
               "scan", "show"} \cup Ended
    /\ status \in 0..255
    /\ nopt \in 0..MaxOptions
    /\ err_count \in 0..(MaxOptionErrors + 1)
    /\ ntrace \in 0..(NTrcv + 1)
    /\ argv0 \in {"unseen", "in_tree", "elsewhere", "short", "no_path"}
    /\ fnr \in 0..Len(files)
    /\ refnr \in Nat
    /\ ref_inc_table_sz \in Nat

Kept ==
    /\ known \subseteq Idents
    /\ filev \in Seq(Sources \cup {Stdin})
    /\ disk \in [Sources -> DiskStates]
    /\ fds \in Layouts
    /\ ref_inc_table \in Seq(Refs)

\* The places before the first file is opened.
Before == {"options", "default", "exe", "trace", "probe", "reprobe"}

\* A place behind the options has a table, if only a name of one.
HaveTable ==
    pc \in {"trace", "probe", "reprobe", "file", "scan", "show"} => have_id_table

\* How far main has come with the files.
Progress ==
    /\ reports \in Seq(Range(reports))
    /\ pc = "options" => ntrace <= NTrcv
    /\ pc \in Before => fnr = 0 /\ Len(reports) = 0
    /\ pc = "file" => Len(reports) = fnr
    /\ pc = "scan" => Len(reports) = fnr /\ fnr < Len(files)
    /\ pc = "show" => Len(reports) = fnr - 1 /\ fnr # 0
    /\ ~stdin_open => \E i \in 1..fnr : files[i] = Stdin

\* What the table of references holds.
References ==
    \A i \in 1..Len(ref_inc_table) :
       \E n \in KnownUpTo(Len(files)) : ref_inc_table[i] = RefTo(n)

\* A file that was missing at the start is still missing, and stops main
\* before the first file.
Missing ==
    missing =>
       /\ \E i \in DOMAIN filev : filev[i] \in Sources /\ disk[filev[i]] = "absent"
       /\ reports = <<>> /\ pc \notin {"file", "scan", "show"}

\* The stream that --debug prints on is in step with the complaints.
DebugStream == dbgprint_fh \in {"none", "dbgfile", errprint_fh}

\* What has been printed is in order, exit() has emptied the buffer, and a
\* failure has been told.
Outcome ==
    /\ OutputOK(fds, out)
    /\ pc \in {"exit", "shown"} => Len(out.obuf) = 0
    /\ (pc = "exit" /\ status # 0) \/ pc = "abort" => Told(fds, out)

CommandInv ==
    /\ Flags /\ Counts /\ Kept
    /\ HaveTable /\ Progress /\ RefsFit /\ References /\ Missing
    /\ DebugStream /\ Outcome
    /\ SuccessIsComplete /\ FaultHasCause

----------------------------------------------------------------------------
\* The command line, the descriptors and what was missing at the start stay
\* as they are.
LEMMA Frame ==
  ASSUME [Next]_vars
  PROVE  /\ filev' = filev /\ fds' = fds /\ missing' = missing
         /\ files' = files /\ errprint_fh' = errprint_fh
  <1> USE DEF options, table, world, scan
  <1>1. CASE UNCHANGED vars
    BY <1>1 DEF vars, files, errprint_fh
  <1>2. ASSUME Option
        PROVE  filev' = filev /\ fds' = fds /\ missing' = missing
    BY <1>2 DEF Option
  <1>3. CASE Step
    <2>1. filev' = filev /\ fds' = fds /\ missing' = missing
      BY <1>2, <1>3 DEF Step, ShowAndExit, Verbose, Debug, Conf, UnknownOption, Trace,
             IdTableOption, IdTableOptionFails, EndOptions, DefaultTable, ExeTable,
             MarkTraced, Probe, OpenFile, Identifier, EndOfScan, show_includes, Finish
    <2>2. QED
      BY <2>1 DEF files, errprint_fh
  <1>4. CASE OutOfMemory
    BY <1>4 DEF OutOfMemory, files, errprint_fh
  <1>5. CASE Vanish
    BY <1>5 DEF Vanish, files, errprint_fh
  <1>6. QED
    BY <1>1, <1>3, <1>4, <1>5 DEF Next

\* The files that main takes are sources and standard input.
LEMMA FilesType ==
  ASSUME filev \in Seq(Sources \cup {Stdin})
  PROVE  /\ files \in Seq(Sources \cup {Stdin}) /\ Len(files) \in Nat /\ Len(files) # 0
         /\ DOMAIN files = 1..Len(files)
         /\ \A i \in 1..Len(files) : Mentioned[files[i]] \in Seq(Idents)
         /\ \A i \in 1..Len(files) : files[i] # Stdin => filev = files
  <1>1. CASE filev = <<>>
    <2>1. files = <<Stdin>>
      BY <1>1 DEF files
    <2>2. /\ <<Stdin>> \in Seq(Sources \cup {Stdin})
          /\ Len(<<Stdin>>) = 1 /\ <<Stdin>>[1] = Stdin
      OBVIOUS
    <2>3. QED
      BY <2>1, <2>2, CommandAssumption
  <1>2. CASE filev # <<>>
    <2>1. files = filev
      BY <1>2 DEF files
    <2>2. \A i \in 1..Len(filev) : filev[i] \in Sources \cup {Stdin}
      OBVIOUS
    <2>3. QED
      BY <1>2, <2>1, <2>2, CommandAssumption
  <1>3. QED
    BY <1>1, <1>2

----------------------------------------------------------------------------
LEMMA FlagsStep ==
  ASSUME Flags, [Next]_vars
  PROVE  Flags'
  <1> USE DEF Flags, options, table, world, scan
  <1>1. CASE ShowAndExit
    BY <1>1 DEF ShowAndExit, Option
  <1>2. CASE Verbose
    BY <1>2 DEF Verbose, Option
  <1>3. CASE Debug
    BY <1>3 DEF Debug, Option
  <1>4. CASE Conf
    BY <1>4 DEF Conf, Option
  <1>5. CASE UnknownOption
    BY <1>5 DEF UnknownOption, Option
  <1>6. CASE Trace
    BY <1>6 DEF Trace, Option
  <1>7. CASE IdTableOption
    BY <1>7 DEF IdTableOption, Option, read_id_table_file
  <1>8. CASE IdTableOptionFails
    BY <1>8 DEF IdTableOptionFails, Option
  <1>9. CASE EndOptions
    BY <1>9 DEF EndOptions
  <1>10. CASE DefaultTable
    BY <1>10 DEF DefaultTable, LoadTable, TableVanishes, NoTable, read_id_table_file
  <1>11. CASE ExeTable
    BY <1>11 DEF ExeTable, LoadTable, TableVanishes, NoTable, read_id_table_file
  <1>12. CASE MarkTraced
    BY <1>12 DEF MarkTraced
  <1>13. CASE Probe
    BY <1>13 DEF Probe
  <1>14. CASE OpenFile
    BY <1>14 DEF OpenFile
  <1>15. CASE Identifier
    BY <1>15 DEF Identifier
  <1>16. CASE EndOfScan
    BY <1>16 DEF EndOfScan, fclose
  <1>17. CASE show_includes
    BY <1>17 DEF show_includes
  <1>18. CASE Finish
    BY <1>18 DEF Finish
  <1>19. CASE OutOfMemory
    BY <1>19 DEF OutOfMemory
  <1>20. CASE Vanish
    BY <1>20 DEF Vanish
  <1>21. CASE UNCHANGED vars
    BY <1>21 DEF vars
  <1>22. QED
    BY <1>1, <1>2, <1>3, <1>4, <1>5, <1>6, <1>7, <1>8, <1>9, <1>10, <1>11,
       <1>12, <1>13, <1>14, <1>15, <1>16, <1>17, <1>18, <1>19, <1>20, <1>21 DEF
       Next, Step

LEMMA ExitStatus ==
  ASSUME NEW code \in Int, NEW os, exit(code, os)
  PROVE  /\ pc' = "exit" /\ status' \in 0..255 /\ out' \in Flushed(fds, os)
         /\ status' = code % 256
  BY DEF exit

\* The status with which each error leaves is not that of success.
LEMMA ErrorStatus ==
  /\ \A code \in {1, 2, ENOENT, ENOMEM, EACCES, -1} : code \in Int /\ code % 256 # 0
  /\ \A code \in 0..2 : code \in Int /\ (code # 0 => code % 256 # 0)
  /\ 0 % 256 = 0
  BY DEF ENOENT, ENOMEM, EACCES

\* read_id_table_file has taken the table.
LEMMA TableRead ==
  ASSUME NEW ids \in TableIds, NEW repeats, NEW result \in 0..2, NEW exitOn, NEW place,
         read_id_table_file(ids, repeats, result, exitOn, place)
  PROVE  /\ tables' = TRUE /\ known' = known \cup ids /\ ids \subseteq Idents
         /\ \/ pc' = "exit" /\ status' \in 1..255
            \/ pc' = place /\ status' = status
  <1>1. tables' = TRUE /\ known' = known \cup ids
    BY DEF read_id_table_file
  <1>2. ids \subseteq Idents
    BY CommandAssumption
  <1>3. \/ \E os : exit(2, os)
        \/ \E os : exit(result, os) /\ result # 0
        \/ \E os : GoTo(place, os)
    BY Zenon DEF read_id_table_file
  <1>4. ASSUME NEW os, NEW code \in 1..2, exit(code, os)
        PROVE  pc' = "exit" /\ status' \in 1..255
    <2>1. pc' = "exit" /\ status' = code % 256
      BY <1>4, ExitStatus
    <2>2. QED
      BY <2>1
  <1>5. QED
    BY <1>1, <1>2, <1>3, <1>4 DEF GoTo

\* The steps that may read a table.
LEMMA OptionTable ==
  ASSUME IdTableOption
  PROVE  /\ have_id_table' = TRUE /\ tables' = TRUE
         /\ \E ids \in SUBSET Idents : known' = known \cup ids
         /\ \/ pc' = "exit" /\ status' \in 1..255
            \/ pc' = "options" /\ status' = status
  <1>1. PICK ids \in TableIds, repeats \in BOOLEAN, result \in 0..2 :
           read_id_table_file(ids, repeats, result, FALSE, "options")
    BY DEF IdTableOption
  <1>2. QED
    BY <1>1, TableRead DEF IdTableOption

LEMMA DefaultLoaded ==
  ASSUME LoadTable
  PROVE  /\ have_id_table' = TRUE /\ tables' = TRUE
         /\ \E ids \in SUBSET Idents : known' = known \cup ids
         /\ \/ pc' = "exit" /\ status' \in 1..255
            \/ pc' = "trace" /\ status' = status
  <1>1. PICK ids \in TableIds, repeats \in BOOLEAN, result \in 0..2 :
           read_id_table_file(ids, repeats, result, TRUE, "trace")
    BY DEF LoadTable
  <1>2. QED
    BY <1>1, TableRead DEF LoadTable

\* What main does without a table in the working directory or next to it.
LEMMA DefaultSteps ==
  ASSUME DefaultTable \/ ExeTable
  PROVE  /\ pc = "default" \/ pc = "exe"
         /\ UNCHANGED <<nopt, err_count, ntrace, verbose, dbgprint_fh, filev, disk>>
         /\ UNCHANGED <<missing, fds, scan>>
         /\ \/ LoadTable
            \/ /\ UNCHANGED <<have_id_table, table>>
               /\ \/ pc' = "exit" /\ status' \in 1..255
                  \/ pc' = "exe" /\ status' = status
                  \/ pc' = "crash" /\ status' = status /\ argv0' = "no_path"
                  \/ pc' = "undefined" /\ status' = status /\ argv0' = "short"
         /\ argv0' \in {argv0, "in_tree", "elsewhere", "short", "no_path"}
  <1>1. ASSUME NEW os, NEW code \in {2, ENOENT}, exit(code, os)
        PROVE  pc' = "exit" /\ status' \in 1..255
    <2>1. pc' = "exit" /\ status' = code % 256
      BY <1>1, ErrorStatus, ExitStatus
    <2>2. QED
      BY <2>1 DEF ENOENT
  <1>2. CASE DefaultTable
    <2>1. ASSUME TableVanishes
          PROVE  UNCHANGED <<have_id_table, table>> /\ pc' = "exit" /\ status' \in 1..255
      BY <1>1, <2>1 DEF TableVanishes
    <2>2. ASSUME NoTable(GoTo("exe", Quiet))
          PROVE  UNCHANGED <<have_id_table, table>> /\ pc' = "exe" /\ status' = status
      BY <2>2 DEF NoTable, GoTo
    <2>3. LoadTable \/ TableVanishes \/ NoTable(GoTo("exe", Quiet))
      BY <1>2 DEF DefaultTable
    <2>4. QED
      BY <1>2, <2>1, <2>2, <2>3 DEF DefaultTable, world
  <1>3. CASE ExeTable
    <2>1. ASSUME TableVanishes
          PROVE  UNCHANGED <<have_id_table, table>> /\ pc' = "exit" /\ status' \in 1..255
      BY <1>1, <2>1 DEF TableVanishes
    <2>2. ASSUME NEW place, NoTable(GoTo(place, Quiet))
          PROVE  UNCHANGED <<have_id_table, table>> /\ pc' = place /\ status' = status
      BY <2>2 DEF NoTable, GoTo
    <2>3. ASSUME NoTable(exit(2, Complained(Quiet)))
          PROVE  UNCHANGED <<have_id_table, table>> /\ pc' = "exit" /\ status' \in 1..255
      BY <1>1, <2>3 DEF NoTable
    <2>4. \/ argv0' = "in_tree" /\ (LoadTable \/ TableVanishes)
          \/ argv0' = "no_path" /\ NoTable(GoTo("crash", Quiet))
          \/ argv0' = "short" /\ NoTable(GoTo("undefined", Quiet))
          \/ /\ argv0' \in {"in_tree", "elsewhere"}
             /\ NoTable(exit(2, Complained(Quiet)))
      BY <1>3 DEF ExeTable
    <2>5. /\ pc = "exe"
          /\ UNCHANGED <<nopt, err_count, ntrace, verbose, dbgprint_fh>>
          /\ UNCHANGED <<filev, disk, missing, fds, scan>>
      BY <1>3 DEF ExeTable
    <2>6. QED
      BY <2>1, <2>2, <2>3, <2>4, <2>5
  <1>4. QED
    BY <1>2, <1>3

LEMMA Bounds ==
  /\ MaxOptionErrors \in Nat /\ NTrcv \in Nat /\ MaxOptions \in Nat /\ MaxFiles \in Nat
  /\ SegSize \in Nat /\ SegSize # 0
  BY CommandAssumption

LEMMA CountsStep ==
  ASSUME Counts, Progress, filev \in Seq(Sources \cup {Stdin}), [Next]_vars
  PROVE  Counts'
  <1>a. files' = files /\ Len(files) \in Nat
    BY Frame, FilesType
  <1>b. /\ MaxOptionErrors \in Nat /\ NTrcv \in Nat /\ MaxOptions \in Nat
        /\ SegSize \in Nat
    BY Bounds
  <1>c. ASSUME NEW code \in {0, 1, 2, ENOENT, ENOMEM, EACCES, -1}, NEW os, exit(code, os)
        PROVE  pc' = "exit" /\ status' \in 0..255
    <2>1. code \in Int
      BY ErrorStatus
    <2>2. QED
      BY <1>c, <2>1, ExitStatus
  <1>d. ASSUME status' = status \/ status' \in 1..255
        PROVE  status' \in 0..255
    <2>1. status \in 0..255
      BY DEF Counts
    <2>2. QED
      BY ONLY <1>d, <2>1
  <1> USE DEF Counts, Ended, options, table, world, scan, GoTo
  <1>1. CASE ShowAndExit
    BY <1>1, <1>a, <1>b, <1>c DEF ShowAndExit, Option
  <1>2. CASE Verbose
    BY <1>2, <1>a, <1>b DEF Verbose, Option
  <1>3. CASE Debug
    BY <1>3, <1>a, <1>b, <1>c DEF Debug, Option
  <1>4. CASE Conf
    BY <1>4, <1>a, <1>b, <1>c DEF Conf, Option
  <1>5. CASE UnknownOption
    BY <1>5, <1>a, <1>b, <1>c DEF UnknownOption, Option
  <1>6. CASE Trace
    BY <1>6, <1>a, <1>b, <1>c DEF Trace, Option, Progress
  <1>7. CASE IdTableOption
    <2>1. \/ pc' = "exit" /\ status' \in 1..255
          \/ pc' = "options" /\ status' = status
      BY <1>7, OptionTable
    <2>2. status' \in 0..255
      BY <1>d, <2>1
    <2>3. /\ nopt' = nopt + 1 /\ nopt < MaxOptions
          /\ UNCHANGED <<err_count, ntrace, argv0, fnr, refnr, ref_inc_table_sz>>
      BY <1>7 DEF IdTableOption, Option
    <2>4. QED
      BY <1>a, <1>b, <2>1, <2>2, <2>3
  <1>8. CASE IdTableOptionFails
    BY <1>8, <1>a, <1>b, <1>c DEF IdTableOptionFails, Option
  <1>9. CASE EndOptions
    BY <1>9, <1>a, <1>b, <1>c DEF EndOptions
  <1>10. CASE DefaultTable
    <2>1. status' \in 0..255
      <3>1. status' = status \/ status' \in 1..255
        BY <1>10, DefaultSteps, DefaultLoaded
      <3>2. QED
        BY <1>d, <3>1
    <2>2. pc' \in {"exit", "trace", "exe", "crash", "undefined"}
      BY <1>10, DefaultSteps, DefaultLoaded
    <2>3. /\ UNCHANGED <<nopt, err_count, ntrace, fnr, refnr, ref_inc_table_sz>>
          /\ argv0' \in {argv0, "in_tree", "elsewhere", "short", "no_path"}
      BY <1>10, DefaultSteps
    <2>4. QED
      BY <1>a, <1>b, <2>1, <2>2, <2>3
  <1>11. CASE ExeTable
    <2>1. status' \in 0..255
      <3>1. status' = status \/ status' \in 1..255
        BY <1>11, DefaultSteps, DefaultLoaded
      <3>2. QED
        BY <1>d, <3>1
    <2>2. pc' \in {"exit", "trace", "exe", "crash", "undefined"}
      BY <1>11, DefaultSteps, DefaultLoaded
    <2>3. /\ UNCHANGED <<nopt, err_count, ntrace, fnr, refnr, ref_inc_table_sz>>
          /\ argv0' \in {argv0, "in_tree", "elsewhere", "short", "no_path"}
      BY <1>11, DefaultSteps
    <2>4. QED
      BY <1>a, <1>b, <2>1, <2>2, <2>3
  <1>12. CASE MarkTraced
    BY <1>12, <1>a, <1>b, <1>c DEF MarkTraced
  <1>13. CASE Probe
    BY <1>13, <1>a, <1>b, <1>c DEF Probe, filev_probe
  <1>14. CASE OpenFile
    BY <1>14, <1>a, <1>b, <1>c DEF OpenFile, open_failed
  <1>15. CASE Identifier
    <2>1. UNCHANGED ref_inc_table_sz \/ ref_inc_table_sz' = ref_inc_table_sz + SegSize
      BY <1>15 DEF Identifier, add_ref_inc_pair, Grown
    <2>2. ref_inc_table_sz' \in Nat
      BY <1>b, <2>1
    <2>3. /\ refnr' = refnr + 1 /\ status' = status /\ (pc' = "scan" \/ pc' = "crash")
          /\ UNCHANGED <<nopt, err_count, ntrace, argv0, fnr>>
      BY <1>15 DEF Identifier
    <2>4. QED
      BY <1>a, <1>b, <2>2, <2>3
  <1>16. CASE EndOfScan
    BY <1>16, <1>a, <1>b DEF EndOfScan, Progress
  <1>17. CASE show_includes
    BY <1>17, <1>a, <1>b, <1>c DEF show_includes, io_guard
  <1>18. CASE Finish
    BY <1>18, <1>a, <1>b, <1>c DEF Finish
  <1>19. CASE OutOfMemory
    BY <1>19, <1>a, <1>b, <1>c DEF OutOfMemory
  <1>20. CASE Vanish
    BY <1>20, <1>a, <1>b, <1>c DEF Vanish
  <1>21. CASE UNCHANGED vars
    BY <1>21, <1>a DEF vars
  <1>22. QED
    BY <1>1, <1>2, <1>3, <1>4, <1>5, <1>6, <1>7, <1>8, <1>9, <1>10, <1>11,
       <1>12, <1>13, <1>14, <1>15, <1>16, <1>17, <1>18, <1>19, <1>20, <1>21 DEF
       Next, Step

\* Only three steps disturb the state of the scan, and only one the files.
LEMMA ScanFrame ==
  ASSUME [Next]_vars
  PROVE  /\ Identifier \/ EndOfScan \/ show_includes \/ UNCHANGED scan
         /\ Vanish \/ disk' = disk
  <1> USE DEF world
  <1>1. CASE ShowAndExit
    BY <1>1 DEF ShowAndExit, Option
  <1>2. CASE Verbose
    BY <1>2 DEF Verbose, Option
  <1>3. CASE Debug
    BY <1>3 DEF Debug, Option
  <1>4. CASE Conf
    BY <1>4 DEF Conf, Option
  <1>5. CASE UnknownOption
    BY <1>5 DEF UnknownOption, Option
  <1>6. CASE Trace
    BY <1>6 DEF Trace, Option
  <1>7. CASE IdTableOption
    BY <1>7 DEF IdTableOption, Option
  <1>8. CASE IdTableOptionFails
    BY <1>8 DEF IdTableOptionFails, Option
  <1>9. CASE EndOptions
    BY <1>9 DEF EndOptions
  <1>10. CASE DefaultTable
    BY <1>10, DefaultSteps
  <1>11. CASE ExeTable
    BY <1>11, DefaultSteps
  <1>12. CASE MarkTraced
    BY <1>12 DEF MarkTraced
  <1>13. CASE Probe
    BY <1>13 DEF Probe
  <1>14. CASE OpenFile
    BY <1>14 DEF OpenFile
  <1>15. CASE Identifier
    BY <1>15 DEF Identifier
  <1>16. CASE EndOfScan
    BY <1>16 DEF EndOfScan
  <1>17. CASE show_includes
    BY <1>17 DEF show_includes
  <1>18. CASE Finish
    BY <1>18 DEF Finish
  <1>19. CASE OutOfMemory
    BY <1>19 DEF OutOfMemory
  <1>20. CASE Vanish
    BY <1>20 DEF Vanish, scan
  <1>21. CASE UNCHANGED vars
    BY <1>21 DEF vars, scan, world
  <1>22. QED
    BY <1>1, <1>2, <1>3, <1>4, <1>5, <1>6, <1>7, <1>8, <1>9, <1>10, <1>11,
       <1>12, <1>13, <1>14, <1>15, <1>16, <1>17, <1>18, <1>19, <1>20, <1>21 DEF
       Next, Step

\* Tables add to what is known.
LEMMA KnownGrows ==
  ASSUME known \subseteq Idents, [Next]_vars
  PROVE  known \subseteq known' /\ known' \subseteq Idents
  <1>1. CASE IdTableOption
    BY <1>1, OptionTable
  <1>2. CASE DefaultTable \/ ExeTable
    BY <1>2, DefaultSteps, DefaultLoaded DEF table
  <1>3. CASE ~IdTableOption /\ ~DefaultTable /\ ~ExeTable
    <2>1. known' = known
      BY <1>3 DEF Next, Step, vars, table, options, world, scan, ShowAndExit, Verbose,
             Debug, Conf, UnknownOption, Trace, IdTableOptionFails, EndOptions, MarkTraced,
             Probe, OpenFile, Identifier, EndOfScan, show_includes, Finish, OutOfMemory,
             Vanish
    <2>2. QED
      BY <2>1
  <1>4. QED
    BY <1>1, <1>2, <1>3

GoodRef(r) == \E n \in KnownUpTo(Len(files)) : r = RefTo(n)

\* What the sorting leaves in the table.
LEMMA SortedTable ==
  ASSUME ref_inc_table \in Seq(Refs), References,
         NEW sorted, sorted = qsort(ref_inc_table)
  PROVE  /\ sorted \in Seq(Refs) /\ Len(sorted) = Len(ref_inc_table)
         /\ \A i \in 1..Len(sorted) : GoodRef(sorted[i])
  <1> DEFINE D == DOMAIN ref_inc_table
  <1>1. D = 1..Len(ref_inc_table)
    OBVIOUS
  <1>2. /\ sorted \in Seq(Refs) /\ Len(sorted) = Len(ref_inc_table)
        /\ \E q \in Bijection(D, D) : \A k \in D : sorted[k] = ref_inc_table[q[k]]
    BY QsortSorts
  <1>3. PICK q \in Bijection(D, D) : \A k \in D : sorted[k] = ref_inc_table[q[k]]
    BY <1>2
  <1>4. \A k \in D : q[k] \in D
    BY <1>3 DEF Bijection, Injection, Surjection
  <1>5. \A k \in D : GoodRef(ref_inc_table[k])
    BY <1>1 DEF References, GoodRef
  <1> HIDE DEF D
  <1>6. \A k \in D : GoodRef(sorted[k])
    BY <1>3, <1>4, <1>5
  <1>7. QED
    BY <1>1, <1>2, <1>6

\* The references stay good.
LEMMA GoodRefStays ==
  ASSUME known \subseteq Idents, [Next]_vars, NEW r, GoodRef(r)
  PROVE  GoodRef(r)'
  <1>1. known \subseteq known' /\ files' = files
    BY KnownGrows, Frame
  <1>2. KnownUpTo(Len(files)) \subseteq KnownUpTo(Len(files))'
    BY <1>1 DEF KnownUpTo
  <1>3. QED
    BY <1>2 DEF GoodRef

\* The identifier that the scan looks at is one of its file.
LEMMA Mention ==
  ASSUME Identifier, Counts, Progress, Kept
  PROVE  LET n == Mentioned[files[fnr + 1]][refnr + 1]
         IN  /\ n \in Idents
             /\ n \in known => n \in KnownUpTo(Len(files))
  <1> DEFINE f == fnr + 1
             n == Mentioned[files[f]][refnr + 1]
  <1>1. pc = "scan" /\ refnr < Len(Mentioned[files[f]])
    BY DEF Identifier
  <1>2. f \in 1..Len(files) /\ refnr \in Nat
    BY <1>1, FilesType DEF Counts, Progress, Kept
  <1>3. Mentioned[files[f]] \in Seq(Idents)
    BY <1>2, FilesType DEF Kept
  <1>4. refnr + 1 \in DOMAIN Mentioned[files[f]]
    BY <1>1, <1>2, <1>3
  <1>5. n \in Idents /\ n \in Range(Mentioned[files[f]])
    BY <1>3, <1>4 DEF Range
  <1>6. QED
    BY <1>2, <1>5 DEF KnownUpTo

LEMMA TableAfterMention ==
  ASSUME Identifier, Counts, Progress, Kept, References, RefsFit, [Next]_vars
  PROVE  ref_inc_table' \in Seq(Refs) /\ RefsFit' /\ References'
  <1> DEFINE n == Mentioned[files[fnr + 1]][refnr + 1]
  <1>1. n \in Idents /\ (n \in known => n \in KnownUpTo(Len(files)))
    BY Mention
  <1>2. ref_inc_table \in Seq(Refs) /\ Len(ref_inc_table) \in Nat
        /\ ref_inc_table_sz \in Nat /\ SegSize \in Nat /\ SegSize # 0
    BY Bounds DEF Kept, Counts
  <1>3. \A r : GoodRef(r) => GoodRef(r)'
    BY GoodRefStays DEF Kept
  <1>4. \A i \in 1..Len(ref_inc_table) : GoodRef(ref_inc_table[i])
    BY DEF References, GoodRef
  <1>5. \/ n \in known /\ add_ref_inc_pair(n)
        \/ UNCHANGED <<ref_inc_table, ref_inc_table_sz>>
    BY DEF Identifier
  <1> HIDE DEF n
  <1>6. CASE UNCHANGED <<ref_inc_table, ref_inc_table_sz>>
    <2>1. \A i \in 1..Len(ref_inc_table) : GoodRef(ref_inc_table[i])'
      BY <1>3, <1>4, <1>6 DEF GoodRef
    <2>2. QED
      BY <1>2, <1>6, <2>1 DEF RefsFit, References, GoodRef
  <1>7. CASE n \in known /\ add_ref_inc_pair(n)
    <2> DEFINE t == Append(ref_inc_table, RefTo(n))
    <2>1. ref_inc_table' = t /\ ref_inc_table_sz' = Grown
      BY <1>7 DEF add_ref_inc_pair
    <2>2. RefTo(n) \in Refs /\ GoodRef(RefTo(n))
      BY <1>1, <1>7 DEF Refs, GoodRef
    <2>3. /\ t \in Seq(Refs) /\ Len(t) = Len(ref_inc_table) + 1
          /\ t[Len(ref_inc_table) + 1] = RefTo(n)
          /\ \A i \in 1..Len(ref_inc_table) : t[i] = ref_inc_table[i]
      BY <1>2, <2>2, AppendFacts
    <2> HIDE DEF t
    <2>4. Len(ref_inc_table) + 1 <= Grown
      BY <1>2 DEF Grown, RefsFit
    <2>5. RefsFit'
      BY <2>1, <2>3, <2>4 DEF RefsFit
    <2>6. \A i \in 1..(Len(ref_inc_table) + 1) : i \in 1..Len(ref_inc_table)
                                               \/ i = Len(ref_inc_table) + 1
      BY <1>2
    <2>7. \A i \in 1..Len(t) : GoodRef(t[i])
      BY <1>4, <2>2, <2>3, <2>6
    <2>8. \A i \in 1..Len(t) : GoodRef(ref_inc_table[i])'
      BY <1>3, <2>1, <2>7 DEF GoodRef
    <2>9. QED
      BY <2>1, <2>3, <2>5, <2>8 DEF References, GoodRef
  <1>8. QED
    BY <1>5, <1>6, <1>7

LEMMA TableAfterReport ==
  ASSUME show_includes, Counts, Kept, References, RefsFit, [Next]_vars
  PROVE  ref_inc_table' \in Seq(Refs) /\ RefsFit' /\ References'
  <1> DEFINE t == qsort(ref_inc_table)
  <1>1. ref_inc_table' = t /\ ref_inc_table_sz' = ref_inc_table_sz
    BY DEF show_includes
  <1>2. /\ t \in Seq(Refs) /\ Len(t) = Len(ref_inc_table)
        /\ \A i \in 1..Len(t) : GoodRef(t[i])
    BY SortedTable DEF Kept
  <1> HIDE DEF t
  <1>3. \A i \in 1..Len(t) : GoodRef(ref_inc_table[i])'
    <2>1. \A r : GoodRef(r) => GoodRef(r)'
      BY GoodRefStays DEF Kept
    <2>2. QED
      BY <1>1, <1>2, <2>1 DEF GoodRef
  <1>4. QED
    BY <1>1, <1>2, <1>3 DEF RefsFit, References, GoodRef

\* The table of references always fits its array, and names only headers of
\* identifiers that the files mention.
LEMMA TableSteps ==
  ASSUME Counts, Progress, Kept, References, RefsFit, [Next]_vars
  PROVE  Kept' /\ RefsFit' /\ References'
  <1>1. ref_inc_table' \in Seq(Refs) /\ RefsFit' /\ References'
    <2>1. CASE Identifier
      BY <2>1, TableAfterMention
    <2>2. CASE show_includes
      BY <2>2, TableAfterReport
    <2>3. CASE UNCHANGED <<ref_inc_table, ref_inc_table_sz>>
      <3>1. \A r : GoodRef(r) => GoodRef(r)'
        BY GoodRefStays DEF Kept
      <3>2. \A i \in 1..Len(ref_inc_table) : GoodRef(ref_inc_table[i])'
        BY <2>3, <3>1 DEF References, GoodRef
      <3>3. QED
        BY <2>3, <3>2 DEF Kept, RefsFit, References, GoodRef
    <2>4. EndOfScan \/ UNCHANGED scan => UNCHANGED <<ref_inc_table, ref_inc_table_sz>>
      BY DEF EndOfScan, scan
    <2>5. QED
      BY <2>1, <2>2, <2>3, <2>4, ScanFrame
  <1>2. disk' \in [Sources -> DiskStates]
    <2>1. CASE Vanish
      BY <2>1 DEF Vanish, Kept, DiskStates
    <2>2. CASE disk' = disk
      BY <2>2 DEF Kept
    <2>3. QED
      BY <2>1, <2>2, ScanFrame
  <1>3. QED
    BY <1>1, <1>2, Frame, KnownGrows DEF Kept

LEMMA HaveTableStep ==
  ASSUME HaveTable, [Next]_vars
  PROVE  HaveTable'
  <1> USE DEF HaveTable, options, GoTo, exit
  <1>1. CASE ShowAndExit
    BY <1>1 DEF ShowAndExit, Option
  <1>2. CASE Verbose
    BY <1>2 DEF Verbose, Option
  <1>3. CASE Debug
    BY <1>3 DEF Debug, Option
  <1>4. CASE Conf
    BY <1>4 DEF Conf, Option
  <1>5. CASE UnknownOption
    BY <1>5 DEF UnknownOption, Option
  <1>6. CASE Trace
    BY <1>6 DEF Trace, Option
  <1>7. CASE IdTableOption
    BY <1>7, OptionTable
  <1>8. CASE IdTableOptionFails
    BY <1>8 DEF IdTableOptionFails, Option
  <1>9. CASE EndOptions
    BY <1>9 DEF EndOptions
  <1>10. CASE DefaultTable
    BY <1>10, DefaultSteps, DefaultLoaded DEF table
  <1>11. CASE ExeTable
    BY <1>11, DefaultSteps, DefaultLoaded DEF table
  <1>12. CASE MarkTraced
    BY <1>12 DEF MarkTraced
  <1>13. CASE Probe
    BY <1>13 DEF Probe
  <1>14. CASE OpenFile
    BY <1>14 DEF OpenFile, open_failed
  <1>15. CASE Identifier
    BY <1>15 DEF Identifier
  <1>16. CASE EndOfScan
    BY <1>16 DEF EndOfScan
  <1>17. CASE show_includes
    BY <1>17 DEF show_includes, io_guard
  <1>18. CASE Finish
    BY <1>18 DEF Finish
  <1>19. CASE OutOfMemory
    BY <1>19 DEF OutOfMemory
  <1>20. CASE Vanish
    BY <1>20 DEF Vanish
  <1>21. CASE UNCHANGED vars
    BY <1>21 DEF vars
  <1>22. QED
    BY <1>1, <1>2, <1>3, <1>4, <1>5, <1>6, <1>7, <1>8, <1>9, <1>10, <1>11,
       <1>12, <1>13, <1>14, <1>15, <1>16, <1>17, <1>18, <1>19, <1>20, <1>21 DEF
       Next, Step

LEMMA ReportAdded ==
  ASSUME reports \in Seq(Range(reports)), NEW x, reports' = Append(reports, x)
  PROVE  reports' \in Seq(Range(reports')) /\ Len(reports') = Len(reports) + 1
  <1> DEFINE S == Range(reports) \cup {x}
             t == Append(reports, x)
  <1>1. reports \in Seq(S)
    OBVIOUS
  <1>2. /\ t \in Seq(S) /\ Len(t) = Len(reports) + 1 /\ Len(reports) \in Nat
    BY <1>1, AppendFacts
  <1> HIDE DEF t, S
  <1>3. Len(t) \in Nat /\ t \in [1..Len(t) -> S]
    BY <1>2
  <1>4. t \in Seq(Range(t))
    <2>1. t \in [1..Len(t) -> Range(t)]
      BY <1>3 DEF Range
    <2>2. QED
      BY <1>3, <2>1
  <1>5. QED
    BY <1>2, <1>4 DEF t

LEMMA ProgressStep ==
  ASSUME Progress, Counts, filev \in Seq(Sources \cup {Stdin}), [Next]_vars
  PROVE  Progress'
  <1>a. /\ files' = files /\ Len(files) \in Nat /\ fnr \in Nat /\ Len(reports) \in Nat
        /\ fnr <= Len(files)
    BY Frame, FilesType DEF Counts, Progress
  <1> USE DEF Progress, Before, options, scan, GoTo, exit
  <1>1. CASE ShowAndExit
    BY <1>1, <1>a DEF ShowAndExit, Option
  <1>2. CASE Verbose
    BY <1>2, <1>a DEF Verbose, Option
  <1>3. CASE Debug
    BY <1>3, <1>a DEF Debug, Option
  <1>4. CASE Conf
    BY <1>4, <1>a DEF Conf, Option
  <1>5. CASE UnknownOption
    BY <1>5, <1>a DEF UnknownOption, Option
  <1>6. CASE Trace
    BY <1>6, <1>a, Bounds DEF Trace, Option, Counts
  <1>7. CASE IdTableOption
    BY <1>7, <1>a, OptionTable DEF IdTableOption, Option
  <1>8. CASE IdTableOptionFails
    BY <1>8, <1>a DEF IdTableOptionFails, Option
  <1>9. CASE EndOptions
    BY <1>9, <1>a DEF EndOptions
  <1>10. CASE DefaultTable
    BY <1>10, <1>a, DefaultSteps, DefaultLoaded
  <1>11. CASE ExeTable
    BY <1>11, <1>a, DefaultSteps, DefaultLoaded
  <1>12. CASE MarkTraced
    BY <1>12, <1>a DEF MarkTraced
  <1>13. CASE Probe
    BY <1>13, <1>a DEF Probe
  <1>14. CASE OpenFile
    BY <1>14, <1>a DEF OpenFile, open_failed
  <1>15. CASE Identifier
    BY <1>15, <1>a DEF Identifier
  <1>16. CASE EndOfScan
    <2>1. /\ fnr' = fnr + 1 /\ reports' = reports /\ pc' = "show"
          /\ stdin_open' = fclose(files[fnr + 1]) /\ pc = "scan"
      BY <1>16 DEF EndOfScan
    <2>2. ~stdin_open' => \E i \in 1..(fnr + 1) : files[i] = Stdin
      <3>1. ~stdin_open' => ~stdin_open \/ files[fnr + 1] = Stdin
        BY <2>1 DEF fclose
      <3>2. QED
        BY <1>a, <3>1
    <2>3. QED
      BY <1>a, <2>1, <2>2
  <1>17. CASE show_includes
    <2>1. /\ pc = "show" /\ UNCHANGED <<fnr, stdin_open>>
          /\ \/ (pc' = "undefined" \/ pc' = "abort") /\ reports' = reports
             \/ pc' = "file" /\ \E x : reports' = Append(reports, x)
      BY <1>17 DEF show_includes, io_guard
    <2>2. CASE reports' = reports /\ (pc' = "undefined" \/ pc' = "abort")
      BY <1>a, <2>1, <2>2
    <2>3. CASE pc' = "file" /\ \E x : reports' = Append(reports, x)
      <3>1. reports' \in Seq(Range(reports')) /\ Len(reports') = Len(reports) + 1
        BY <2>3, ReportAdded
      <3>2. Len(reports') = fnr
        BY <1>a, <2>1, <3>1
      <3>3. QED
        BY <1>a, <2>1, <2>3, <3>1, <3>2
    <2>4. QED
      BY <2>1, <2>2, <2>3
  <1>18. CASE Finish
    BY <1>18, <1>a DEF Finish
  <1>19. CASE OutOfMemory
    BY <1>19, <1>a DEF OutOfMemory
  <1>20. CASE Vanish
    BY <1>20, <1>a DEF Vanish
  <1>21. CASE UNCHANGED vars
    BY <1>21, <1>a DEF vars
  <1>22. QED
    BY <1>1, <1>2, <1>3, <1>4, <1>5, <1>6, <1>7, <1>8, <1>9, <1>10, <1>11,
       <1>12, <1>13, <1>14, <1>15, <1>16, <1>17, <1>18, <1>19, <1>20, <1>21 DEF
       Next, Step

\* What is missing stays missing, and the probing finds it.
LEMMA MissingStep ==
  ASSUME Missing, Kept, [Next]_vars
  PROVE  Missing'
  <1>a. filev' = filev /\ missing' = missing
    BY Frame
  <1>b. ASSUME missing
        PROVE  \E i \in DOMAIN filev : filev[i] \in Sources /\ disk'[filev[i]] = "absent"
    <2>1. PICK i \in DOMAIN filev : filev[i] \in Sources /\ disk[filev[i]] = "absent"
      BY <1>b DEF Missing
    <2>2. CASE Vanish
      BY <2>1, <2>2 DEF Vanish, Kept
    <2>3. CASE disk' = disk
      BY <2>1, <2>3
    <2>4. QED
      BY <2>2, <2>3, ScanFrame
  <1>c. ASSUME missing
        PROVE  reports = <<>> /\ pc # "file" /\ pc # "scan" /\ pc # "show"
    BY <1>c DEF Missing
  <1>d. ASSUME missing
        PROVE  reports' = reports
    BY <1>c, <1>d, ScanFrame DEF Identifier, EndOfScan, show_includes, scan
  <1> SUFFICES ASSUME missing PROVE pc' \notin {"file", "scan", "show"}
    BY <1>a, <1>b, <1>c, <1>d DEF Missing
  <1> USE DEF GoTo, exit
  <1>1. CASE ShowAndExit
    BY <1>1, <1>c DEF ShowAndExit, Option
  <1>2. CASE Verbose
    BY <1>2, <1>c DEF Verbose, Option
  <1>3. CASE Debug
    BY <1>3, <1>c DEF Debug, Option
  <1>4. CASE Conf
    BY <1>4, <1>c DEF Conf, Option
  <1>5. CASE UnknownOption
    BY <1>5, <1>c DEF UnknownOption, Option
  <1>6. CASE Trace
    BY <1>6, <1>c DEF Trace, Option
  <1>7. CASE IdTableOption
    BY <1>7, OptionTable DEF IdTableOption, Option
  <1>8. CASE IdTableOptionFails
    BY <1>8, <1>c DEF IdTableOptionFails, Option
  <1>9. CASE EndOptions
    BY <1>9, <1>c DEF EndOptions
  <1>10. CASE DefaultTable
    BY <1>10, DefaultSteps, DefaultLoaded
  <1>11. CASE ExeTable
    BY <1>11, DefaultSteps, DefaultLoaded
  <1>12. CASE MarkTraced
    BY <1>12, <1>c DEF MarkTraced
  <1>13. CASE Probe
    <2>1. PICK i \in DOMAIN filev : filev[i] \in Sources /\ disk[filev[i]] = "absent"
      BY DEF Missing
    <2>2. filev # <<>> /\ files = filev
      <3>1. filev # <<>>
        BY <2>1
      <3>2. QED
        BY <3>1 DEF files
    <2>3. fname_probe(files[i]) # 0 /\ i \in DOMAIN files
      BY <2>1, <2>2, CommandAssumption DEF fname_probe
    <2>4. filev_probe # 0
      BY <2>3 DEF filev_probe
    <2>5. QED
      BY <1>13, <2>4 DEF Probe
  <1>14. CASE OpenFile
    BY <1>14, <1>c DEF OpenFile, open_failed
  <1>15. CASE Identifier
    BY <1>15, <1>c DEF Identifier
  <1>16. CASE EndOfScan
    BY <1>16, <1>c DEF EndOfScan
  <1>17. CASE show_includes
    BY <1>17, <1>c DEF show_includes, io_guard
  <1>18. CASE Finish
    BY <1>18, <1>c DEF Finish
  <1>19. CASE OutOfMemory
    BY <1>19, <1>c DEF OutOfMemory
  <1>20. CASE Vanish
    BY <1>20 DEF Vanish, Missing
  <1>21. CASE UNCHANGED vars
    BY <1>21, <1>c DEF vars
  <1>22. QED
    BY <1>1, <1>2, <1>3, <1>4, <1>5, <1>6, <1>7, <1>8, <1>9, <1>10, <1>11,
       <1>12, <1>13, <1>14, <1>15, <1>16, <1>17, <1>18, <1>19, <1>20, <1>21 DEF
       Next, Step

\* Only the end of main exits with status 0.
LEMMA SuccessStep ==
  ASSUME SuccessIsComplete, Progress, filev \in Seq(Sources \cup {Stdin}), [Next]_vars
  PROVE  SuccessIsComplete'
  <1>a. files' = files
    BY Frame
  <1>b. ASSUME NEW code \in {1, 2, ENOENT, ENOMEM, EACCES, -1}, NEW os, exit(code, os)
        PROVE  status' # 0
    BY <1>b, ErrorStatus, ExitStatus
  <1> USE DEF SuccessIsComplete, options, scan, GoTo
  <1>1. CASE ShowAndExit
    BY <1>1, <1>b DEF ShowAndExit, Option
  <1>2. CASE Verbose
    BY <1>2, <1>b DEF Verbose, Option
  <1>3. CASE Debug
    BY <1>3, <1>b DEF Debug, Option
  <1>4. CASE Conf
    BY <1>4, <1>b DEF Conf, Option
  <1>5. CASE UnknownOption
    BY <1>5, <1>b DEF UnknownOption, Option
  <1>6. CASE Trace
    BY <1>6, <1>b DEF Trace, Option
  <1>7. CASE IdTableOption
    <2>1. (pc' = "exit" /\ status' \in 1..255) \/ pc' = "options"
      BY <1>7, OptionTable
    <2>2. QED
      BY <2>1
  <1>8. CASE IdTableOptionFails
    BY <1>8, <1>b DEF IdTableOptionFails, Option
  <1>9. CASE EndOptions
    BY <1>9, <1>b DEF EndOptions
  <1>10. CASE DefaultTable
    BY <1>10, DefaultSteps, DefaultLoaded
  <1>11. CASE ExeTable
    BY <1>11, DefaultSteps, DefaultLoaded
  <1>12. CASE MarkTraced
    BY <1>12, <1>b DEF MarkTraced
  <1>13. CASE Probe
    <2>1. filev_probe # 0 => filev_probe = -1
      BY DEF filev_probe
    <2>2. QED
      BY <1>13, <1>b, <2>1 DEF Probe
  <1>14. CASE OpenFile
    BY <1>14, <1>b DEF OpenFile, open_failed
  <1>15. CASE Identifier
    BY <1>15, <1>b DEF Identifier
  <1>16. CASE EndOfScan
    BY <1>16, <1>b DEF EndOfScan
  <1>17. CASE show_includes
    BY <1>17, <1>b DEF show_includes, io_guard
  <1>18. CASE Finish
    BY <1>18, <1>a DEF Finish, exit, Progress
  <1>19. CASE OutOfMemory
    BY <1>19, <1>b DEF OutOfMemory
  <1>20. CASE Vanish
    BY <1>20, <1>a DEF Vanish
  <1>21. CASE UNCHANGED vars
    BY <1>21, <1>a DEF vars
  <1>22. QED
    BY <1>1, <1>2, <1>3, <1>4, <1>5, <1>6, <1>7, <1>8, <1>9, <1>10, <1>11,
       <1>12, <1>13, <1>14, <1>15, <1>16, <1>17, <1>18, <1>19, <1>20, <1>21 DEF
       Next, Step

LEMMA FaultStep ==
  ASSUME FaultHasCause, HaveTable, Counts, Progress, Kept, References, [Next]_vars
  PROVE  FaultHasCause'
  <1>a. files' = files /\ filev' = filev
    BY Frame
  <1>b. /\ Len(files) \in Nat /\ DOMAIN files = 1..Len(files)
        /\ \A i \in 1..Len(files) : files[i] # Stdin => filev = files
    BY FilesType DEF Kept
  <1>c. CASE UNCHANGED vars
    BY <1>a, <1>c DEF FaultHasCause, vars, options, table, world, fname_probe, KnownUpTo
  <1> SUFFICES ASSUME pc' \in {"crash", "undefined"}, Next PROVE FaultHasCause'
    BY <1>c DEF FaultHasCause
  <1> USE DEF GoTo, exit
  <1>1. CASE ShowAndExit
    BY <1>1 DEF ShowAndExit, Option
  <1>2. CASE Verbose
    BY <1>2 DEF Verbose, Option
  <1>3. CASE Debug
    BY <1>3 DEF Debug, Option
  <1>4. CASE Conf
    BY <1>4 DEF Conf, Option
  <1>5. CASE UnknownOption
    BY <1>5 DEF UnknownOption, Option
  <1>6. CASE Trace
    <2>1. ntrace' > NTrcv
      BY <1>6, Bounds DEF Trace, Counts
    <2>2. QED
      BY <2>1 DEF FaultHasCause
  <1>7. CASE IdTableOption
    BY <1>7, OptionTable
  <1>8. CASE IdTableOptionFails
    BY <1>8 DEF IdTableOptionFails, Option
  <1>9. CASE EndOptions
    <2>1. verbose /\ fshow_str_array_overruns /\ verbose' = verbose
      BY <1>9 DEF EndOptions, options
    <2>2. \E i \in DOMAIN filev : fshow_str_overruns(NameBytes[filev[i]]) /\ verbose'
      BY <2>1 DEF fshow_str_array_overruns
    <2>3. QED
      BY <1>a, <2>2 DEF FaultHasCause
  <1>10. CASE DefaultTable
    <2>1. argv0' \in {"no_path", "short"}
      BY <1>10, DefaultSteps, DefaultLoaded
    <2>2. QED
      BY <2>1 DEF FaultHasCause
  <1>11. CASE ExeTable
    <2>1. argv0' \in {"no_path", "short"}
      BY <1>11, DefaultSteps, DefaultLoaded
    <2>2. QED
      BY <2>1 DEF FaultHasCause
  <1>12. CASE MarkTraced
    <2>1. have_id_table' /\ ~tables'
      BY <1>12 DEF MarkTraced, HaveTable, options, table
    <2>2. QED
      BY <2>1 DEF FaultHasCause
  <1>13. CASE Probe
    <2>1. PICK i \in DOMAIN files :
             fname_probe(files[i]) # 0 /\ fshow_fname_overruns(NameBytes[files[i]])
      BY <1>13 DEF Probe
    <2>2. files[i] # Stdin /\ i \in 1..Len(files)
      BY <2>1, <1>b DEF fname_probe
    <2>3. filev = files
      BY <1>b, <2>2
    <2>4. disk' = disk
      BY <1>13 DEF Probe, world
    <2>5. /\ i \in DOMAIN filev' /\ fshow_str_overruns(NameBytes[filev'[i]])
          /\ fname_probe(filev[i])' # 0
      BY <1>a, <2>1, <2>3, <2>4 DEF fshow_fname_overruns, fname_probe
    <2>6. QED
      BY <1>a, <2>5 DEF FaultHasCause, fname_probe
  <1>14. CASE OpenFile
    <2>1. /\ files[fnr + 1] = Stdin /\ ~stdin_open /\ fnr < Len(files) /\ fnr \in Nat
      BY <1>14 DEF OpenFile, open_failed, Counts
    <2>2. PICK i \in 1..fnr : files[i] = Stdin
      BY <2>1 DEF Progress
    <2>3. i \in 1..Len(files) /\ fnr + 1 \in 1..Len(files) /\ i # fnr + 1
      BY <1>b, <2>1
    <2>4. filev = files
      <3>1. Len(files) # 1
        BY <1>b, <2>3
      <3>2. QED
        BY <3>1 DEF files
    <2>5. i \in DOMAIN filev /\ fnr + 1 \in DOMAIN filev
      BY <1>b, <2>3, <2>4
    <2>6. QED
      BY <1>a, <2>1, <2>2, <2>3, <2>4, <2>5 DEF FaultHasCause
  <1>15. CASE Identifier
    <2>1. have_id_table' /\ ~tables'
      BY <1>15 DEF Identifier, HaveTable, options, table
    <2>2. QED
      BY <2>1 DEF FaultHasCause
  <1>16. CASE EndOfScan
    BY <1>16 DEF EndOfScan
  <1>17. CASE show_includes
    <2> DEFINE sorted == qsort(ref_inc_table)
    <2>1. \E i \in DOMAIN sorted : RunsOn(sorted[i].inc_sym)
      BY <1>17 DEF show_includes, io_guard
    <2>2. /\ sorted \in Seq(Refs) /\ \A i \in 1..Len(sorted) : GoodRef(sorted[i])
      BY SortedTable DEF Kept
    <2> HIDE DEF sorted
    <2>3. PICK i \in DOMAIN sorted : RunsOn(sorted[i].inc_sym)
      BY <2>1
    <2>4. GoodRef(sorted[i])
      BY <2>2, <2>3
    <2>5. PICK n \in KnownUpTo(Len(files)) : sorted[i] = RefTo(n)
      BY <2>4 DEF GoodRef
    <2>6. RunsOn(HeaderOf[n])
      BY <2>3, <2>5 DEF RefTo
    <2>7. n \in KnownUpTo(Len(files))'
      BY <1>17, <1>a, <2>5 DEF show_includes, KnownUpTo, table
    <2>8. QED
      BY <2>6, <2>7 DEF FaultHasCause
  <1>18. CASE Finish
    BY <1>18 DEF Finish
  <1>19. CASE OutOfMemory
    BY <1>19 DEF OutOfMemory
  <1>20. CASE Vanish
    BY <1>20 DEF Vanish, Ended
  <1>21. QED
    BY <1>1, <1>2, <1>3, <1>4, <1>5, <1>6, <1>7, <1>8, <1>9, <1>10, <1>11,
       <1>12, <1>13, <1>14, <1>15, <1>16, <1>17, <1>18, <1>19, <1>20 DEF Next, Step

----------------------------------------------------------------------------
\* Printing, from outputs that are in order.
AllOK(os) == \A o \in os : OutputOK(fds, o)
AllTold(os) == \A o \in os : JustTold(fds, o)

LEMMA QuietOK == Outcome => AllOK(Quiet)
  BY DEF Outcome, AllOK, Quiet

LEMMA ComplainedOK ==
  ASSUME NEW os, AllOK(os)
  PROVE  AllOK(Complained(os)) /\ AllTold(Complained(os))
  <1>1. "complaint" \in Kinds
    BY DEF Kinds
  <1>2. ASSUME NEW x \in Printed(fds, os, set_eprint_fh(fds), "complaint")
        PROVE  OutputOK(fds, x) /\ JustTold(fds, x)
    BY <1>1, PrintedKeeps, Zenon DEF AllOK
  <1>3. QED
    BY <1>2, Zenon DEF AllOK, AllTold, Complained, errprint_fh

LEMMA NoticeOK ==
  ASSUME NEW os, AllOK(os), NEW kind \in Kinds
  PROVE  /\ AllOK(Printed(fds, os, "stdout", kind))
         /\ AllOK(Printed(fds, os, errprint_fh, kind))
  <1>1. ASSUME NEW fh, fh = "stdout" \/ fh = set_eprint_fh(fds) \/ fh = "dbgfile",
               NEW x \in Printed(fds, os, fh, kind)
        PROVE  OutputOK(fds, x)
    BY <1>1, PrintedKeeps, Zenon DEF AllOK
  <1>2. QED
    BY <1>1, Zenon DEF AllOK, errprint_fh

LEMMA DebuggedOK ==
  ASSUME NEW os, AllOK(os), DebugStream
  PROVE  AllOK(Debugged(os))
  <1>1. "debug" \in Kinds
    BY DEF Kinds
  <1>2. CASE dbgprint_fh = "none"
    BY <1>2 DEF Debugged
  <1>3. CASE dbgprint_fh # "none"
    <2>1. dbgprint_fh = "dbgfile" \/ dbgprint_fh = set_eprint_fh(fds)
      BY <1>3 DEF DebugStream, errprint_fh
    <2>2. ASSUME NEW x \in Printed(fds, os, dbgprint_fh, "debug")
          PROVE  OutputOK(fds, x)
      BY <1>1, <2>1, PrintedKeeps, Zenon DEF AllOK
    <2>3. QED
      BY <1>3, <2>2, Zenon DEF AllOK, Debugged
  <1>4. QED
    BY <1>2, <1>3

\* exit(), with a status that is not 0 only behind a complaint.
LEMMA ExitOutcome ==
  ASSUME NEW code, NEW os, exit(code, os), AllOK(os), fds' = fds,
         code % 256 # 0 => AllTold(os)
  PROVE  Outcome'
  <1>1. pc' = "exit" /\ status' = code % 256 /\ out' \in Flushed(fds, os)
    BY DEF exit
  <1>2. /\ OutputOK(fds, out') /\ Len(out'.obuf) = 0
        /\ AllTold(os) => Told(fds, out')
    BY <1>1, FlushedKeeps, Zenon DEF AllOK, AllTold
  <1>3. "exit" # "abort"
    OBVIOUS
  <1>4. QED
    BY <1>1, <1>2, <1>3, Zenon DEF Outcome

LEMMA GoToOutcome ==
  ASSUME NEW place, NEW os, GoTo(place, os), AllOK(os), fds' = fds,
         place # "exit" /\ place # "shown" /\ place # "abort"
  PROVE  Outcome'
  <1>1. pc' = place /\ out' \in os
    BY DEF GoTo
  <1>2. OutputOK(fds, out')
    BY <1>1 DEF AllOK
  <1>3. QED
    BY <1>1, <1>2, Zenon DEF Outcome

\* read_id_table_file has complained if it makes main exit.
LEMMA TableOutcome ==
  ASSUME NEW ids, NEW repeats \in BOOLEAN, NEW result \in 0..2, NEW exitOn \in BOOLEAN,
         NEW place, place = "options" \/ place = "trace",
         read_id_table_file(ids, repeats, result, exitOn, place),
         Outcome, DebugStream, fds' = fds
  PROVE  Outcome'
  <1> DEFINE again == repeats \/ ids \cap known # {}
             read == Debugged(Quiet)
             told == IF again \/ result # 0 THEN Complained(read) ELSE read
  <1>1. AllOK(read)
    BY QuietOK, DebuggedOK
  <1>2. AllOK(Complained(read)) /\ AllTold(Complained(read))
    BY <1>1, ComplainedOK
  <1>3. AllOK(told) /\ (again \/ result # 0 => AllTold(told))
    BY <1>1, <1>2
  <1>4. \/ again /\ exit(2, told)
        \/ result # 0 /\ exit(result, told)
        \/ GoTo(place, told)
    BY DEF read_id_table_file
  <1> HIDE DEF again, read, told
  <1>5. CASE again /\ exit(2, told)
    BY <1>3, <1>5, ExitOutcome
  <1>6. CASE result # 0 /\ exit(result, told)
    BY <1>3, <1>6, ExitOutcome
  <1>7. CASE GoTo(place, told)
    BY <1>3, <1>7, GoToOutcome
  <1>8. QED
    BY <1>4, <1>5, <1>6, <1>7

LEMMA OutcomeStep ==
  ASSUME Outcome, DebugStream, [Next]_vars
  PROVE  Outcome'
  <1>a. fds' = fds
    BY Frame
  <1>b. AllOK(Quiet)
    BY QuietOK
  <1>c. AllOK(Complained(Quiet)) /\ AllTold(Complained(Quiet))
    BY <1>b, ComplainedOK
  <1>d. ASSUME NEW code, exit(code, Complained(Quiet))
        PROVE  Outcome'
    BY <1>a, <1>c, <1>d, ExitOutcome
  <1>e. ASSUME NEW place, GoTo(place, Quiet),
               place # "exit" /\ place # "shown" /\ place # "abort"
        PROVE  Outcome'
    BY <1>a, <1>b, <1>e, GoToOutcome
  <1>f. ASSUME NEW ids, NEW repeats \in BOOLEAN, NEW result \in 0..2, NEW exitOn \in BOOLEAN,
               NEW place, place = "options" \/ place = "trace",
               read_id_table_file(ids, repeats, result, exitOn, place)
        PROVE  Outcome'
    BY <1>a, <1>f, TableOutcome
  <1>g. ASSUME LoadTable PROVE Outcome'
    <2>1. PICK ids \in TableIds, repeats \in BOOLEAN, result \in 0..2 :
             read_id_table_file(ids, repeats, result, TRUE, "trace")
      BY <1>g DEF LoadTable
    <2>2. QED
      BY <1>f, <2>1
  <1>1. CASE ShowAndExit
    <2> DEFINE os == Printed(fds, Quiet, "stdout", "notice")
    <2>1. pc' = "shown" /\ out' \in Flushed(fds, os)
      BY <1>1 DEF ShowAndExit
    <2>2. AllOK(os)
      BY <1>b, NoticeOK DEF Kinds
    <2>3. OutputOK(fds, out') /\ Len(out'.obuf) = 0
      BY <2>1, <2>2, FlushedKeeps, Zenon DEF AllOK
    <2>4. "shown" # "exit" /\ "shown" # "abort"
      OBVIOUS
    <2>5. QED
      BY <1>a, <2>1, <2>3, <2>4, Zenon DEF Outcome
  <1>2. CASE Verbose
    BY <1>2, <1>e DEF Verbose
  <1>3. CASE Debug
    BY <1>3, <1>e DEF Debug
  <1>4. CASE Conf
    BY <1>4, <1>d DEF Conf
  <1>5. CASE UnknownOption
    BY <1>5, <1>a, <1>c, GoToOutcome DEF UnknownOption
  <1>6. CASE Trace
    BY <1>6, <1>e DEF Trace
  <1>7. CASE IdTableOption
    <2>1. PICK ids \in TableIds, repeats \in BOOLEAN, result \in 0..2 :
             read_id_table_file(ids, repeats, result, FALSE, "options")
      BY <1>7 DEF IdTableOption
    <2>2. QED
      BY <1>f, <2>1
  <1>8. CASE IdTableOptionFails
    BY <1>8, <1>a, <1>c, GoToOutcome DEF IdTableOptionFails
  <1>9. CASE EndOptions
    <2> DEFINE ended == IF err_count > MaxOptionErrors THEN Complained(Quiet) ELSE Quiet
               shown == IF verbose THEN fshow_str_array(ended) ELSE ended
    <2>1. AllOK(ended)
      BY <1>b, <1>c
    <2> HIDE DEF ended
    <2>2. AllOK(shown)
      BY <2>1, NoticeOK DEF fshow_str_array, Kinds
    <2> HIDE DEF shown
    <2>3. \/ GoTo("undefined", shown) \/ exit(1, Complained(shown))
          \/ GoTo("trace", shown) \/ GoTo("default", shown)
      BY <1>9 DEF EndOptions, ended, shown
    <2>4. exit(1, Complained(shown)) => Outcome'
      BY <1>a, <2>2, ComplainedOK, ExitOutcome
    <2>5. QED
      BY <1>a, <2>2, <2>3, <2>4, GoToOutcome
  <1>10. CASE DefaultTable
    <2>1. LoadTable \/ TableVanishes \/ NoTable(GoTo("exe", Quiet))
      BY <1>10 DEF DefaultTable
    <2>2. QED
      BY <1>d, <1>e, <1>g, <2>1 DEF TableVanishes, NoTable
  <1>11. CASE ExeTable
    <2>1. \/ LoadTable \/ TableVanishes
          \/ NoTable(GoTo("crash", Quiet)) \/ NoTable(GoTo("undefined", Quiet))
          \/ NoTable(exit(2, Complained(Quiet)))
      BY <1>11 DEF ExeTable
    <2>2. QED
      BY <1>d, <1>e, <1>g, <2>1 DEF TableVanishes, NoTable
  <1>12. CASE MarkTraced
    BY <1>12, <1>e DEF MarkTraced
  <1>13. CASE Probe
    <2>1. filev_probe # 0 => filev_probe = -1
      BY DEF filev_probe
    <2>2. QED
      BY <1>13, <1>d, <1>e, <2>1 DEF Probe
  <1>14. CASE OpenFile
    BY <1>14, <1>d, <1>e DEF OpenFile, open_failed
  <1>15. CASE Identifier
    <2>1. AllOK(Debugged(Quiet))
      BY <1>b, DebuggedOK
    <2>2. GoTo("scan", Debugged(Quiet)) \/ GoTo("scan", Quiet) \/ GoTo("crash", Quiet)
      BY <1>15 DEF Identifier
    <2>3. QED
      BY <1>a, <1>e, <2>1, <2>2, GoToOutcome
  <1>16. CASE EndOfScan
    BY <1>16, <1>e DEF EndOfScan
  <1>17. CASE show_includes
    <2> DEFINE sorted == qsort(ref_inc_table)
               printed == IF sorted = <<>> THEN Quiet
                          ELSE Printed(fds, Quiet, "stdout", "report")
    <2>1. AllOK(printed)
      BY <1>b, NoticeOK DEF Kinds
    <2>2. GoTo("undefined", Quiet) \/ GoTo("file", printed) \/ io_guard(printed)
      BY <1>17 DEF show_includes
    <2> HIDE DEF printed
    <2>3. CASE io_guard(printed)
      <3>1. pc' = "abort" /\ fds[1] \notin Files /\ out' \in Complained(printed)
        BY <2>3 DEF io_guard, GoTo
      <3>2. OutputOK(fds, out') /\ JustTold(fds, out')
        BY <2>1, <3>1, ComplainedOK, Zenon DEF AllOK, AllTold
      <3>3. Told(fds, out')
        BY <3>1, <3>2 DEF JustTold, Told
      <3>4. "abort" # "exit" /\ "abort" # "shown"
        OBVIOUS
      <3>5. QED
        BY <1>a, <3>1, <3>2, <3>3, <3>4, Zenon DEF Outcome
    <2>4. QED
      BY <1>a, <1>e, <2>1, <2>2, <2>3, GoToOutcome
  <1>18. CASE Finish
    <2>1. exit(0, Quiet) /\ 0 % 256 = 0
      BY <1>18 DEF Finish
    <2>2. QED
      BY <1>a, <1>b, <2>1, ExitOutcome
  <1>19. CASE OutOfMemory
    BY <1>19, <1>d DEF OutOfMemory
  <1>20. CASE Vanish
    BY <1>20, <1>a DEF Vanish, Outcome
  <1>21. CASE UNCHANGED vars
    BY <1>21 DEF vars, world, Outcome
  <1>22. QED
    BY <1>1, <1>2, <1>3, <1>4, <1>5, <1>6, <1>7, <1>8, <1>9, <1>10, <1>11,
       <1>12, <1>13, <1>14, <1>15, <1>16, <1>17, <1>18, <1>19, <1>20, <1>21 DEF
       Next, Step

LEMMA DebugStreamStep ==
  ASSUME DebugStream, [Next]_vars
  PROVE  DebugStream'
  <1>1. errprint_fh' = errprint_fh
    BY Frame
  <1>2. CASE Debug
    BY <1>1, <1>2 DEF Debug, DebugStream, set_debug_fh
  <1>3. CASE ~Debug
    <2>1. dbgprint_fh' = dbgprint_fh
      BY <1>3 DEF Next, Step, vars, table, options, world, scan, ShowAndExit, Verbose,
             Conf, UnknownOption, Trace, IdTableOption, IdTableOptionFails, EndOptions,
             DefaultTable, ExeTable, MarkTraced, Probe, OpenFile, Identifier, EndOfScan,
             show_includes, Finish, OutOfMemory, Vanish
    <2>2. QED
      BY <1>1, <2>1 DEF DebugStream
  <1>4. QED
    BY <1>2, <1>3

----------------------------------------------------------------------------
LEMMA CommandInit ==
  ASSUME Init
  PROVE  CommandInv
  <1> USE DEF Init
  <1>1. filev \in Seq(Sources \cup {Stdin})
    <2>1. PICK m \in 0..MaxFiles : filev \in [1..m -> Sources \cup {Stdin}]
      BY DEF BoundedSeq, SeqOf
    <2>2. m \in Nat
      BY Bounds
    <2>3. QED
      BY <2>1, <2>2
  <1>3. Len(files) \in Nat
    BY <1>1, FilesType
  <1>4. Flags
    BY DEF Flags
  <1>5. Counts
    BY <1>3, Bounds DEF Counts, Ended
  <1>6. Kept
    BY <1>1 DEF Kept
  <1>7. HaveTable /\ SuccessIsComplete /\ FaultHasCause
    BY DEF HaveTable, SuccessIsComplete, FaultHasCause
  <1>8. Progress
    BY Bounds DEF Progress, Before
  <1>9. RefsFit /\ References
    BY Bounds DEF RefsFit, References
  <1>10. Missing
    BY DEF Missing
  <1>11. DebugStream
    BY DEF DebugStream
  <1>12. Outcome
    BY SilenceOK DEF Outcome
  <1>13. QED
    BY <1>4, <1>5, <1>6, <1>7, <1>8, <1>9, <1>10, <1>11, <1>12 DEF CommandInv

LEMMA CommandStep ==
  ASSUME CommandInv, [Next]_vars
  PROVE  CommandInv'
  <1>1. /\ Flags /\ Counts /\ Kept
        /\ HaveTable /\ Progress /\ RefsFit /\ References /\ Missing
        /\ DebugStream /\ Outcome
        /\ SuccessIsComplete /\ FaultHasCause
    BY DEF CommandInv
  <1>2. filev \in Seq(Sources \cup {Stdin})
    BY <1>1 DEF Kept
  <1>3. Flags' /\ Counts'
    BY <1>1, <1>2, FlagsStep, CountsStep
  <1>4. Kept' /\ RefsFit' /\ References'
    BY <1>1, TableSteps
  <1>5. HaveTable' /\ Progress'
    BY <1>1, <1>2, HaveTableStep, ProgressStep
  <1>6. Missing' /\ SuccessIsComplete' /\ FaultHasCause'
    BY <1>1, <1>2, MissingStep, SuccessStep, FaultStep
  <1>7. DebugStream' /\ Outcome'
    BY <1>1, DebugStreamStep, OutcomeStep
  <1>8. QED
    BY <1>3, <1>4, <1>5, <1>6, <1>7 DEF CommandInv

\* The invariant that the theorems follow from, of every run of the command.
THEOREM CommandIndInv == Spec => []CommandInv
  <1>1. Init => CommandInv
    BY CommandInit
  <1>2. CommandInv /\ [Next]_vars => CommandInv'
    BY CommandStep
  <1>3. QED
    BY <1>1, <1>2, PTL DEF Spec

\* Every variable has its type, for every command line.
THEOREM CommandTypeOK == Spec => []TypeOK
  <1>1. CommandInv => TypeOK
    <2> SUFFICES ASSUME CommandInv PROVE TypeOK
      OBVIOUS
    <2>1. Flags /\ Counts /\ Kept /\ DebugStream /\ OutputOK(fds, out)
      BY DEF CommandInv, Outcome
    <2>2. {have_id_table, verbose, tables, stdin_open, missing, cut} \subseteq BOOLEAN
      BY <2>1, Zenon DEF Flags
    <2>3. dbgprint_fh \in {"none", "dbgfile", "stdout", "stderr"}
      <3>1. errprint_fh = "stdout" \/ errprint_fh = "stderr"
        BY EprintStream, Zenon DEF errprint_fh
      <3>2. QED
        BY <2>1, <3>1 DEF DebugStream
    <2>4. OutputTypeOK(out)
      BY <2>1, OutputType
    <2>5. QED
      BY <2>1, <2>2, <2>3, <2>4 DEF TypeOK, Counts, Kept
  <1>2. QED
    BY <1>1, CommandIndInv, PTL

\* add_ref_inc_pair never writes behind the end of the array, whatever the
\* size of its segments and however often it is sorted in between.
THEOREM CommandRefsFit == Spec => []RefsFit
  <1>1. CommandInv => RefsFit
    BY DEF CommandInv
  <1>2. QED
    BY <1>1, CommandIndInv, PTL

\* Status 0 at the end of main means that each file has been reported: no
\* error of the options, the tables, the probing, the files or the memory
\* has a code that eight bits turn into 0.
THEOREM CommandSuccessIsComplete == Spec => []SuccessIsComplete
  <1>1. CommandInv => SuccessIsComplete
    BY DEF CommandInv
  <1>2. QED
    BY <1>1, CommandIndInv, PTL

\* A file that does not exist at the start keeps main from any report.
THEOREM CommandQuietWhenMissing == Spec => []QuietWhenMissing
  <1>1. CommandInv => QuietWhenMissing
    BY DEF CommandInv, Missing, QuietWhenMissing
  <1>2. QED
    BY <1>1, CommandIndInv, PTL

\* Null pointers, arrays left and closed streams: the six causes are all.
THEOREM CommandFaultHasCause == Spec => []FaultHasCause
  <1>1. CommandInv => FaultHasCause
    BY DEF CommandInv
  <1>2. QED
    BY <1>1, CommandIndInv, PTL

\* The order in which messages arrive at one file is that in which they were
\* printed, wherever the descriptors lead: set_eprint_fh achieves its end.
THEOREM CommandInOrder == Spec => []InOrder
  <1>1. CommandInv => InOrder
    <2> SUFFICES ASSUME CommandInv, NEW f \in Files PROVE Increasing(out.arrived[f])
      BY DEF InOrder
    <2>1. Ordered(out.arrived[f]) /\ out \in OutputRecords
      BY DEF CommandInv, Outcome, OutputOK
    <2>2. Len(out.arrived[f]) \in Nat
      BY <2>1, RecordParts
    <2>3. QED
      BY <2>1, <2>2 DEF Ordered, Increasing
  <1>2. QED
    BY <1>1, CommandIndInv, PTL

\* exit() has delivered everything, if descriptors 1 and 2 lead to files.
THEOREM CommandDelivered == Spec => []Delivered
  <1>1. CommandInv => Delivered
    <2> SUFFICES ASSUME CommandInv, pc \in {"exit", "shown"},
                        {fds[1], fds[2]} \subseteq Files
                 PROVE  UNION {Messages(out.arrived[f]) : f \in Files} = DOMAIN out.said
      BY DEF Delivered
    <2>1. /\ OutputOK(fds, out) /\ Len(out.obuf) = 0
      BY DEF CommandInv, Outcome
    <2>2. /\ out \in OutputRecords
          /\ \A f \in Files : AllUpTo(out.arrived[f], Len(out.said))
          /\ \A m \in 1..Len(out.said) : \E f \in Files : Has(out.arrived[f], m)
      BY <2>1 DEF OutputOK, Has
    <2>3. /\ DOMAIN out.said = 1..Len(out.said)
          /\ \A f \in Files : DOMAIN out.arrived[f] = 1..Len(out.arrived[f])
      BY <2>2, RecordParts
    <2>4. \A f \in Files : Messages(out.arrived[f]) =
                              {m \in 1..Len(out.said) : Has(out.arrived[f], m)}
      BY <2>2, <2>3 DEF Messages, AllUpTo, Has
    <2>5. QED
      BY <2>2, <2>3, <2>4
  <1>2. QED
    BY <1>1, CommandIndInv, PTL

\* Whoever reads descriptor 2 learns of every failure: the last message but
\* those of --debug is a complaint that has arrived there.
THEOREM CommandFailureIsTold == Spec => []FailureIsTold
  <1>1. CommandInv => FailureIsTold
    <2> SUFFICES ASSUME CommandInv, (pc = "exit" /\ status # 0) \/ pc = "abort",
                        fds[2] \in Files
                 PROVE  \E m \in Messages(out.arrived[fds[2]]) :
                           /\ out.said[m] = "complaint"
                           /\ \A k \in {n \in DOMAIN out.said : out.said[n] # "debug"} : k <= m
      BY DEF FailureIsTold
    <2>1. OutputOK(fds, out) /\ Told(fds, out)
      BY DEF CommandInv, Outcome
    <2>2. out \in OutputRecords
      BY <2>1 DEF OutputOK
    <2>3. /\ DOMAIN out.said = 1..Len(out.said) /\ Len(out.said) \in Nat
          /\ DOMAIN out.arrived[fds[2]] = 1..Len(out.arrived[fds[2]])
      BY <2>2, RecordParts
    <2>4. out.said[Len(out.said)] = "complaint" /\ Has(out.arrived[fds[2]], Len(out.said))
      BY <2>1 DEF Told
    <2>5. Len(out.said) \in Messages(out.arrived[fds[2]])
      BY <2>3, <2>4 DEF Messages, Has
    <2>6. QED
      BY <2>3, <2>4, <2>5
  <1>2. QED
    BY <1>1, CommandIndInv, PTL

----------------------------------------------------------------------------
\* The reports.

TableIdents(t) == {t[i].ref_sym : i \in 1..Len(t)}

\* The identifiers that the scan has looked up in the file it is at.
Seen == {Mentioned[files[fnr + 1]][j] : j \in 1..refnr}

\* What the table of references holds: the identifiers of the files behind,
\* and of the part of the current one that has been scanned, that the tables
\* describe.
Gathered ==
    /\ pc \in Before => refnr = 0 /\ ref_inc_table = <<>>
    /\ pc \in {"file", "show"} => refnr = 0
    /\ pc = "scan" => refnr <= Len(Mentioned[files[fnr + 1]])
    /\ pc \in {"file", "scan", "show"} /\ ~cut =>
          TableIdents(ref_inc_table) = KnownUpTo(fnr) \cup (known \cap Seen)

\* Behind the probing nothing adds to the tables, and main comes to the files
\* only from there.
LEMMA BehindTables ==
  ASSUME [Next]_vars
  PROVE  /\ pc \notin Before => pc' \notin Before /\ known' = known
         /\ /\ ~Identifier /\ ~EndOfScan /\ ~show_includes
            /\ pc' \in {"file", "scan", "show"}
            =>
               \/ pc' = pc
               \/ pc \in Before /\ pc' = "file"
               \/ pc = "file" /\ pc' = "scan"
  <1> USE DEF Before, table, GoTo, exit
  <1>1. CASE ShowAndExit
    BY <1>1 DEF ShowAndExit, Option
  <1>2. CASE Verbose
    BY <1>2 DEF Verbose, Option
  <1>3. CASE Debug
    BY <1>3 DEF Debug, Option
  <1>4. CASE Conf
    BY <1>4 DEF Conf, Option
  <1>5. CASE UnknownOption
    BY <1>5 DEF UnknownOption, Option
  <1>6. CASE Trace
    BY <1>6 DEF Trace, Option
  <1>7. CASE IdTableOption
    BY <1>7, OptionTable DEF IdTableOption, Option
  <1>8. CASE IdTableOptionFails
    BY <1>8 DEF IdTableOptionFails, Option
  <1>9. CASE EndOptions
    BY <1>9 DEF EndOptions
  <1>10. CASE DefaultTable
    BY <1>10, DefaultSteps, DefaultLoaded
  <1>11. CASE ExeTable
    BY <1>11, DefaultSteps, DefaultLoaded
  <1>12. CASE MarkTraced
    BY <1>12 DEF MarkTraced
  <1>13. CASE Probe
    BY <1>13 DEF Probe
  <1>14. CASE OpenFile
    BY <1>14 DEF OpenFile, open_failed
  <1>15. CASE Identifier
    BY <1>15 DEF Identifier
  <1>16. CASE EndOfScan
    BY <1>16 DEF EndOfScan
  <1>17. CASE show_includes
    BY <1>17 DEF show_includes, io_guard
  <1>18. CASE Finish
    BY <1>18 DEF Finish
  <1>19. CASE OutOfMemory
    BY <1>19 DEF OutOfMemory
  <1>20. CASE Vanish
    BY <1>20 DEF Vanish
  <1>21. CASE UNCHANGED vars
    BY <1>21 DEF vars
  <1>22. QED
    BY <1>1, <1>2, <1>3, <1>4, <1>5, <1>6, <1>7, <1>8, <1>9, <1>10, <1>11,
       <1>12, <1>13, <1>14, <1>15, <1>16, <1>17, <1>18, <1>19, <1>20, <1>21 DEF
       Next, Step

\* Each file adds what it mentions and the tables describe.
LEMMA KnownUpToNext ==
  ASSUME NEW k \in Nat, Mentioned[files[k + 1]] \in Seq(Idents)
  PROVE  /\ KnownUpTo(0) = {}
         /\ KnownUpTo(k + 1) =
               KnownUpTo(k) \cup
               (known \cap {Mentioned[files[k + 1]][j] : j \in 1..Len(Mentioned[files[k + 1]])})
  <1> DEFINE m == Mentioned[files[k + 1]]
  <1>1. KnownUpTo(0) = {}
    BY DEF KnownUpTo
  <1>2. \A i : i \in 1..(k + 1) <=> i \in 1..k \/ i = k + 1
    OBVIOUS
  <1>3. Range(m) = {m[j] : j \in 1..Len(m)}
    BY DEF Range
  <1>4. KnownUpTo(k + 1) = KnownUpTo(k) \cup (known \cap Range(m))
    BY <1>2 DEF KnownUpTo
  <1>5. QED
    BY <1>1, <1>3, <1>4

\* Sorting keeps the identifiers of the table.
LEMMA SortedIdents ==
  ASSUME ref_inc_table \in Seq(Refs),
         NEW sorted, sorted = qsort(ref_inc_table)
  PROVE  /\ sorted \in Seq(Refs)
         /\ TableIdents(sorted) = TableIdents(ref_inc_table)
         /\ \A k, l \in DOMAIN sorted : k < l => ~refcmp(sorted[l], sorted[k])
  <1> DEFINE D == DOMAIN ref_inc_table
  <1>1. D = 1..Len(ref_inc_table)
    OBVIOUS
  <1>2. /\ sorted \in Seq(Refs) /\ Len(sorted) = Len(ref_inc_table)
        /\ \E q \in Bijection(D, D) : \A k \in D : sorted[k] = ref_inc_table[q[k]]
        /\ \A k, l \in D : k < l => ~refcmp(sorted[l], sorted[k])
    BY QsortSorts
  <1>3. PICK q \in Bijection(D, D) : \A k \in D : sorted[k] = ref_inc_table[q[k]]
    BY <1>2
  <1>4. /\ \A k \in D : q[k] \in D
        /\ \A i \in D : \E k \in D : q[k] = i
    BY <1>3 DEF Bijection, Injection, Surjection
  <1>5. DOMAIN sorted = D /\ D = 1..Len(sorted)
    BY <1>1, <1>2
  <1> HIDE DEF D
  <1>6. TableIdents(sorted) = {sorted[k].ref_sym : k \in D}
        /\ TableIdents(ref_inc_table) = {ref_inc_table[k].ref_sym : k \in D}
    BY <1>1, <1>5 DEF TableIdents
  <1>7. {sorted[k].ref_sym : k \in D} = {ref_inc_table[k].ref_sym : k \in D}
    BY <1>3, <1>4
  <1>8. QED
    BY <1>2, <1>5, <1>6, <1>7

\* The lines that show_includes prints, once all files so far have been read
\* to their ends.
LEMMA ShownIncludes ==
  ASSUME show_includes, Kept, Gathered, ~cut,
         ~\E n \in KnownUpTo(fnr) : DoubledBar(HeaderOf[n])
  PROVE  ReportsOf(Lines(qsort(ref_inc_table)), KnownUpTo(fnr))
  <1> DEFINE sorted == qsort(ref_inc_table)
  <1>1. ref_inc_table \in Seq(Refs) /\ pc = "show"
    BY DEF Kept, show_includes
  <1>2. refnr = 0 /\ TableIdents(ref_inc_table) = KnownUpTo(fnr) \cup (known \cap Seen)
    BY <1>1 DEF Gathered
  <1>3. Seen = {}
    BY <1>2 DEF Seen
  <1>4. /\ sorted \in Seq(Refs)
        /\ TableIdents(sorted) = KnownUpTo(fnr)
        /\ \A k, l \in DOMAIN sorted : k < l => ~refcmp(sorted[l], sorted[k])
    BY <1>1, <1>2, <1>3, SortedIdents
  <1> HIDE DEF sorted
  <1>5. DOMAIN sorted = 1..Len(sorted)
    BY <1>4
  <1>6. \A k \in DOMAIN sorted : ~DoubledBar(sorted[k].inc_sym)
    <2> TAKE k \in DOMAIN sorted
    <2>1. sorted[k].ref_sym \in KnownUpTo(fnr)
      BY <1>4, <1>5 DEF TableIdents
    <2>2. sorted[k].inc_sym = HeaderOf[sorted[k].ref_sym]
      BY <1>4, <1>5, RefOf
    <2>3. QED
      BY <2>1, <2>2
  <1>7. {sorted[k].ref_sym : k \in DOMAIN sorted} = KnownUpTo(fnr)
    BY <1>4, <1>5 DEF TableIdents
  <1>8. ReportsOf(Lines(sorted), {sorted[k].ref_sym : k \in DOMAIN sorted})
    BY <1>4, <1>6, LinesReport
  <1>9. QED
    BY <1>7, <1>8 DEF sorted

\* A lookup adds the identifier to what has been seen, and to the table when
\* it is known.
LEMMA GatheredByScan ==
  ASSUME Identifier, Counts, Progress, Kept, Gathered, files' = files, known' = known
  PROVE  Gathered'
  <1> DEFINE m == Mentioned[files[fnr + 1]]
             n == m[refnr + 1]
  <1>1. /\ pc = "scan" /\ refnr < Len(m) /\ refnr' = refnr + 1
        /\ fnr' = fnr /\ cut' = cut
        /\ \/ pc' = "crash"
           \/ pc' = "scan" /\ n \in known /\ ref_inc_table' = Append(ref_inc_table, RefTo(n))
           \/ pc' = "scan" /\ n \notin known /\ ref_inc_table' = ref_inc_table
    BY DEF Identifier, GoTo, add_ref_inc_pair
  <1>2. fnr \in Nat /\ fnr + 1 \in 1..Len(files) /\ refnr \in Nat
        /\ ref_inc_table \in Seq(Refs)
    BY <1>1, FilesType DEF Counts, Progress, Kept
  <1>3. m \in Seq(Idents)
    BY <1>2, FilesType DEF Kept
  <1>4. Len(m) \in Nat /\ refnr + 1 <= Len(m) /\ refnr + 1 \in 1..Len(m)
    BY <1>1, <1>2, <1>3
  <1>5. n \in Idents /\ RefTo(n) \in Refs /\ RefTo(n).ref_sym = n
    BY <1>3, <1>4 DEF Refs, RefTo
  <1>6. Mentioned[files[fnr + 1]]' = m
    BY <1>1
  <1>7. Seen' = Seen \cup {n}
    <2>1. \A j : j \in 1..(refnr + 1) <=> j \in 1..refnr \/ j = refnr + 1
      BY <1>2
    <2>2. Seen' = {m[j] : j \in 1..(refnr + 1)}
      BY <1>1, <1>6 DEF Seen
    <2>3. Seen = {m[j] : j \in 1..refnr}
      BY DEF Seen
    <2>4. QED
      BY <2>1, <2>2, <2>3
  <1>8. KnownUpTo(fnr)' = KnownUpTo(fnr)
    BY <1>1 DEF KnownUpTo
  <1> HIDE DEF m, n
  <1>9. CASE pc' = "crash"
    BY <1>9 DEF Gathered, Before
  <1>10. CASE pc' = "scan"
    <2>1. TableIdents(ref_inc_table)' = IF n \in known THEN TableIdents(ref_inc_table) \cup {n}
                                                   ELSE TableIdents(ref_inc_table)
      <3>1. CASE n \notin known
        BY <1>1, <1>10, <3>1 DEF TableIdents
      <3>2. CASE n \in known
        <4> DEFINE t == Append(ref_inc_table, RefTo(n))
                   l == Len(ref_inc_table)
        <4>1. /\ Len(t) = l + 1 /\ t[l + 1] = RefTo(n) /\ l \in Nat
              /\ \A i \in 1..l : t[i] = ref_inc_table[i]
          BY <1>2, <1>5, AppendFacts
        <4>2. ref_inc_table' = t
          BY <1>1, <1>10, <3>2
        <4> HIDE DEF t
        <4>3. \A i : i \in 1..(l + 1) <=> i \in 1..l \/ i = l + 1
          BY <4>1
        <4>4. TableIdents(t) = {t[i].ref_sym : i \in 1..l} \cup {t[l + 1].ref_sym}
          BY <4>1, <4>3 DEF TableIdents
        <4>5. {t[i].ref_sym : i \in 1..l} = TableIdents(ref_inc_table)
          BY <4>1 DEF TableIdents
        <4>6. QED
          BY <1>5, <3>2, <4>1, <4>2, <4>4, <4>5 DEF TableIdents
      <3>3. QED
        BY <3>1, <3>2
    <2>2. ~cut => TableIdents(ref_inc_table)' = KnownUpTo(fnr)' \cup (known' \cap Seen')
      <3>1. SUFFICES ASSUME ~cut
                     PROVE  TableIdents(ref_inc_table)' = KnownUpTo(fnr)' \cup (known' \cap Seen')
        OBVIOUS
      <3>2. TableIdents(ref_inc_table) = KnownUpTo(fnr) \cup (known \cap Seen)
        BY <1>1, <3>1 DEF Gathered
      <3>3. QED
        BY <1>7, <1>8, <2>1, <3>2
    <2>3. refnr' <= Len(Mentioned[files[fnr + 1]])'
      BY <1>1, <1>4, <1>6
    <2>4. QED
      BY <1>1, <1>10, <2>2, <2>3 DEF Gathered, Before
  <1>11. QED
    BY <1>1, <1>9, <1>10

\* At the end of a file, unless it was cut off, all of its mentions have been
\* seen.
LEMMA GatheredAtEnd ==
  ASSUME EndOfScan, Counts, Progress, Kept, Gathered, files' = files, known' = known
  PROVE  Gathered'
  <1> DEFINE m == Mentioned[files[fnr + 1]]
  <1>1. /\ pc = "scan" /\ pc' = "show" /\ refnr' = 0 /\ fnr' = fnr + 1
        /\ cut' = (cut \/ refnr < Len(m)) /\ ref_inc_table' = ref_inc_table
    BY DEF EndOfScan, GoTo
  <1>2. fnr \in Nat /\ fnr + 1 \in 1..Len(files) /\ refnr \in Nat
    BY <1>1, FilesType DEF Counts, Progress, Kept
  <1>3. m \in Seq(Idents)
    BY <1>2, FilesType DEF Kept
  <1>4. Seen' = {}
    BY <1>1 DEF Seen
  <1>5. ~cut' => TableIdents(ref_inc_table)' = KnownUpTo(fnr)'
    <2>1. SUFFICES ASSUME ~cut' PROVE TableIdents(ref_inc_table)' = KnownUpTo(fnr)'
      OBVIOUS
    <2>2. ~cut /\ ~(refnr < Len(m))
      BY <1>1, <2>1
    <2>3. refnr = Len(m)
      <3>1. refnr <= Len(m)
        BY <1>1 DEF Gathered
      <3>2. QED
        BY <1>2, <1>3, <2>2, <3>1
    <2>4. TableIdents(ref_inc_table) = KnownUpTo(fnr) \cup (known \cap {m[j] : j \in 1..Len(m)})
      BY <1>1, <2>2, <2>3 DEF Gathered, Seen
    <2>5. KnownUpTo(fnr + 1) = KnownUpTo(fnr) \cup (known \cap {m[j] : j \in 1..Len(m)})
      BY <1>2, <1>3, KnownUpToNext
    <2>6. KnownUpTo(fnr)' = KnownUpTo(fnr + 1)
      BY <1>1 DEF KnownUpTo
    <2>7. QED
      BY <1>1, <2>4, <2>5, <2>6 DEF TableIdents
  <1>6. QED
    BY <1>1, <1>4, <1>5 DEF Gathered, Before

\* Sorting keeps what was gathered.
LEMMA GatheredShown ==
  ASSUME show_includes, Kept, Gathered, files' = files, known' = known
  PROVE  Gathered'
  <1> DEFINE t == qsort(ref_inc_table)
  <1>1. /\ pc = "show" /\ pc' \in {"undefined", "abort", "file"}
        /\ UNCHANGED <<fnr, refnr, cut>> /\ ref_inc_table' = t
    BY DEF show_includes, io_guard, GoTo
  <1>2. TableIdents(t) = TableIdents(ref_inc_table)
    BY SortedIdents DEF Kept
  <1> HIDE DEF t
  <1>3. TableIdents(ref_inc_table)' = TableIdents(ref_inc_table)
    BY <1>1, <1>2 DEF TableIdents
  <1>4. Seen' = Seen /\ KnownUpTo(fnr)' = KnownUpTo(fnr)
    BY <1>1 DEF Seen, KnownUpTo
  <1>5. refnr' = 0 /\ (~cut => TableIdents(ref_inc_table) = KnownUpTo(fnr) \cup (known \cap Seen))
    BY <1>1 DEF Gathered
  <1>6. QED
    BY <1>1, <1>3, <1>4, <1>5 DEF Gathered, Before

\* Every step keeps the table in step with the files.
LEMMA GatheredStep ==
  ASSUME Counts, Progress, Kept, Gathered, [Next]_vars
  PROVE  Gathered'
  <1>1. files' = files
    BY Frame
  <1>2. pc \notin Before => pc' \notin Before /\ known' = known
    BY BehindTables
  <1>3. CASE Identifier \/ EndOfScan \/ show_includes
    <2>1. pc \notin Before
      BY <1>3 DEF Identifier, EndOfScan, show_includes, Before
    <2>2. QED
      BY <1>1, <1>2, <1>3, <2>1, GatheredByScan, GatheredAtEnd, GatheredShown
  <1>4. CASE ~Identifier /\ ~EndOfScan /\ ~show_includes
    <2>1. UNCHANGED <<fnr, refnr, ref_inc_table, cut>>
      BY <1>4, ScanFrame DEF scan
    <2>2. pc' \in {"file", "scan", "show"} =>
             \/ pc' = pc
             \/ pc \in Before /\ pc' = "file"
             \/ pc = "file" /\ pc' = "scan"
      BY <1>4, BehindTables
    <2>3. TableIdents(ref_inc_table)' = TableIdents(ref_inc_table) /\ Seen' = Seen
      BY <1>1, <2>1 DEF TableIdents, Seen
    <2>4. Mentioned[files[fnr + 1]]' = Mentioned[files[fnr + 1]]
      BY <1>1, <2>1
    <2>5. CASE pc' \in Before
      <3>1. pc \in Before
        BY <1>2, <2>5
      <3>2. QED
        BY <2>1, <2>5, <3>1 DEF Gathered, Before
    <2>6. CASE pc \in Before /\ pc' = "file"
      <3>1. fnr = 0 /\ refnr = 0 /\ ref_inc_table = <<>>
        BY <2>6 DEF Gathered, Progress
      <3>2. TableIdents(ref_inc_table)' = {} /\ Seen' = {} /\ KnownUpTo(fnr)' = {}
        BY <2>1, <3>1 DEF TableIdents, Seen, KnownUpTo
      <3>3. QED
        BY <2>1, <2>6, <3>1, <3>2 DEF Gathered, Before
    <2>7. CASE pc' = pc /\ pc' \in {"file", "scan", "show"}
      <3>1. known' = known
        BY <1>2, <2>7 DEF Before
      <3>2. KnownUpTo(fnr)' = KnownUpTo(fnr)
        BY <1>1, <2>1, <3>1 DEF KnownUpTo
      <3>3. QED
        BY <2>1, <2>3, <2>4, <2>7, <3>1, <3>2 DEF Gathered, Before
    <2>8. CASE pc = "file" /\ pc' = "scan"
      <3>1. known' = known
        BY <1>2, <2>8 DEF Before
      <3>2. KnownUpTo(fnr)' = KnownUpTo(fnr)
        BY <1>1, <2>1, <3>1 DEF KnownUpTo
      <3>3. refnr = 0
        BY <2>8 DEF Gathered
      <3>4. refnr <= Len(Mentioned[files[fnr + 1]])
        <4>1. OpenFile
          BY <1>4, <2>8 DEF Next, Step, vars, ShowAndExit, Verbose, Debug, Conf,
                 UnknownOption, Trace, IdTableOption, IdTableOptionFails, Option, EndOptions,
                 DefaultTable, ExeTable, MarkTraced, Probe, Finish, exit, OutOfMemory, Vanish
        <4>2. fnr \in Nat /\ fnr + 1 \in 1..Len(files)
          BY <4>1, FilesType DEF OpenFile, Counts, Kept
        <4>3. Mentioned[files[fnr + 1]] \in Seq(Idents)
          BY <4>2, FilesType DEF Kept
        <4>4. QED
          BY <3>3, <4>3
      <3>5. QED
        BY <2>1, <2>3, <2>4, <2>8, <3>1, <3>2, <3>4 DEF Gathered, Before
    <2>9. CASE pc' \notin Before /\ pc' \notin {"file", "scan", "show"}
      BY <2>9 DEF Gathered, Before
    <2>10. QED
      BY <2>2, <2>5, <2>6, <2>7, <2>8, <2>9
  <1>5. QED
    BY <1>3, <1>4

ReportRight(k) ==
    \/ cut
    \/ \E n \in KnownUpTo(k) : DoubledBar(HeaderOf[n])
    \/ ReportsOf(reports[k], KnownUpTo(k))

\* A report, once printed, stays right: the tables do not change any more. A
\* new one is right because of what was gathered.
LEMMA ReportsStep ==
  ASSUME Counts, Progress, Kept, Gathered, Reports, [Next]_vars, Len(reports)' \in Nat
  PROVE  Reports'
  <1>1. files' = files /\ (pc \notin Before => known' = known)
    BY Frame, BehindTables
  <1>2. \A k \in 1..Len(reports) : ReportRight(k)
    BY DEF Reports, ReportRight
  <1>3. Len(reports) \in Nat /\ (pc \in Before => Len(reports) = 0)
    BY DEF Progress
  <1>4. cut => cut'
    BY ScanFrame DEF scan, Identifier, EndOfScan, show_includes
  <1>5. ASSUME pc \notin Before PROVE \A k : KnownUpTo(k)' = KnownUpTo(k)
    BY <1>1, <1>5 DEF KnownUpTo
  <1>6. CASE UNCHANGED reports
    <2>1. ASSUME NEW k \in 1..Len(reports)' PROVE ReportRight(k)'
      <3>1. k \in 1..Len(reports) /\ pc \notin Before
        BY <1>3, <1>6, <2>1
      <3>2. ReportRight(k) /\ KnownUpTo(k)' = KnownUpTo(k)
        BY <1>2, <1>5, <3>1
      <3>3. QED
        BY <1>4, <1>6, <3>2 DEF ReportRight
    <2>2. QED
      BY <2>1 DEF Reports, ReportRight
  <1>7. CASE show_includes /\ reports' = Append(reports, Lines(qsort(ref_inc_table)))
    <2> DEFINE x == Lines(qsort(ref_inc_table))
               S == Range(reports) \cup {x}
    <2>1. pc = "show" /\ fnr' = fnr /\ cut' = cut /\ pc \notin Before
      BY <1>7 DEF show_includes, Before
    <2>2. Len(reports) = fnr - 1 /\ fnr \in Nat
      BY <2>1, FilesType DEF Progress, Counts, Kept
    <2>3. reports \in Seq(S) /\ x \in S
      BY DEF Progress
    <2>4. cut \/ (\E n \in KnownUpTo(fnr) : DoubledBar(HeaderOf[n])) \/ ReportsOf(x, KnownUpTo(fnr))
      BY <1>7, ShownIncludes
    <2> HIDE DEF x, S
    <2>5. /\ Len(reports)' = Len(reports) + 1 /\ reports'[Len(reports) + 1] = x
          /\ \A k \in 1..Len(reports) : reports'[k] = reports[k]
      BY <1>7, <2>3, AppendFacts DEF x
    <2>6. ASSUME NEW k \in 1..Len(reports)' PROVE ReportRight(k)'
      <3>1. KnownUpTo(k)' = KnownUpTo(k)
        BY <1>5, <2>1
      <3>2. k \in 1..Len(reports) \/ k = Len(reports) + 1
        BY <1>3, <2>5
      <3>3. CASE k \in 1..Len(reports)
        BY <1>2, <2>1, <2>5, <3>1, <3>3 DEF ReportRight
      <3>4. CASE k = Len(reports) + 1
        <4>1. k = fnr /\ reports'[k] = x
          BY <2>2, <2>5, <3>4
        <4>2. QED
          BY <2>1, <2>4, <3>1, <4>1 DEF ReportRight
      <3>5. QED
        BY <3>2, <3>3, <3>4
    <2>7. QED
      BY <2>6 DEF Reports, ReportRight
  <1>8. UNCHANGED reports
        \/ (show_includes /\ reports' = Append(reports, Lines(qsort(ref_inc_table))))
    BY ScanFrame DEF scan, Identifier, EndOfScan, show_includes, io_guard
  <1>9. QED
    BY <1>6, <1>7, <1>8

\* The report behind each file is that of all files so far: each header once,
\* in order, and under it each identifier that needs it once, in order,
\* whatever the files mention, however the references are spread over them,
\* and although show_includes sorts the table in place each time.
THEOREM CommandReports == Spec => []Reports
  <1>1. Init => Gathered /\ Reports
    BY DEF Init, Gathered, Before, Reports
  <1>2. CommandInv /\ CommandInv' /\ Gathered /\ Reports /\ [Next]_vars
        => Gathered' /\ Reports'
    <2> SUFFICES ASSUME CommandInv, CommandInv', Gathered, Reports, [Next]_vars
                 PROVE  Gathered' /\ Reports'
      OBVIOUS
    <2>1. Counts /\ Progress /\ Kept
      BY DEF CommandInv
    <2>2. Len(reports)' \in Nat
      <3>1. reports' \in Seq(Range(reports'))
        BY DEF CommandInv, Progress
      <3>2. QED
        BY <3>1
    <2>3. QED
      BY <2>1, <2>2, GatheredStep, ReportsStep
  <1>3. QED
    BY <1>1, <1>2, CommandIndInv, PTL DEF Spec
=============================================================================
