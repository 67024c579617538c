# incbot: models, checks and proofs

`incbot` reads C source files, looks every identifier that it finds in code up
in a table, and prints the `#include` lines that the identifiers need. This
directory holds TLA+ models of its parts, the TLC runs that check them on small
instances, and TLAPS proofs of what holds for every instance. `PROJECT.json`
lists the runs, the lines of the source behind each definition, the hazards the
properties are for, the findings and the theorems.

## The system

| part | state | operations | used by |
|---|---|---|---|
| libcf (`libcf/libcf.c`) | context: state, class of the next character, error; array of at most 4 super-characters | `cf_next`, `ccv_push`, `ccv_top` | the scan |
| scan (`libincbot/incbot.c`, `cf_getc` .. `incbot_src_stream`) | line, column, identifier buffer, in-preprocessor flag, `ref_inc_table` | `cf_getc`, `cf_ungetc`, the loop | `incbot_all_files` |
| identifier table (`libincbot/incbot.c`, `read_id_table_*`) | `id_symtable`, rows of `id_table`, allocated size | load a file, verify, `id_find`, `trace_identifier` | main, the scan |
| symbol table (`libincbot/dict.c`) | segments of names; buckets, overflow array and chains | `dict_find`, `dict_add` | identifier table |
| report (`libincbot/incbot.c`, `show_includes`) | `ref_inc_table`, sorted in place | sort, print each header and identifier once | `incbot_all_files` |
| command (`cmd/incbot.c`), `filev_probe` | options, traced names, table found or not, file list | main | the user |
| output (`libcscript/set-print-fh.c`, `show-char.c`, `fshow-*.c`) | `errprint_fh`, `dbgprint_fh`, the buffer of `stdout` | choose the streams, print, flush at the exit | all |
| guarded allocation (`libcscript/guard-*.c`) | none | return memory, or complain and exit | all |
| libcf-debug, wording of messages, table data, tests | none, or data | not modelled | |

The program is sequential. What makes it hard is that its parts hand each other
state one call late: libcf holds a `/` back until the next character; the scan
reads one character too far and puts it back, or does not; a symbol is numbered
when its field is read and its row is counted when its line ends; a chain of the
hash table is linked behind entries of other chains; the table of references is
sorted and added to again. Around it, a file may vanish between the probe and
the open, reading one may fail half-way, memory may run out, a table may be
missing, damaged or cut off, standard output and standard error may lead to one
file, to two, or to none, and the command line may be anything.

What makes each part correct:

- libcf: every character comes out once, in order, in the class C gives it; no
  text reaches an internal error.
- scan: it ends, always has room for a character it puts back, and records
  exactly the identifiers mentioned in code outside `#include` directives; it
  leaves its arrays only for causes that are known.
- symbol table: the two searches agree; a name has one number for good; nothing
  is written outside the arrays; every operation returns.
- identifier table: a name leads to the row that its own line has filled, by
  either search; the array has room.
- report and command: the report is exact; success means every file was
  reported; a missing file means nothing is reported; the command ends.
- output: messages that go to one file get there in the order they were printed;
  none is lost at an exit; a run that fails ends with a complaint.

## Modules

`CFilter` - libcf. One action per case of the switch in `cf_next`, and `cf_eof`
for the block at its top. A character is one of the special ones or a member of
`OtherChars`; the array is the sequence `ccv`. The block at the end of the file
declares a variable `chr` of its own that hides the parameter; `ReportsOpenState`
says what is compared as it is compiled.

`CTokens` - the reference for libcf: where tokens start in a text, and the class
of each position, defined from the text and not from a state machine.

`CStream` - libcf and a caller. The caller feeds a character when two places
are free (what one call can add) and takes super-characters at any pace; `src`
and `out` record what went in and out.

`Scanner` - `incbot_src_stream` with `cf_getc` and `cf_ungetc`, extending
`CTokens` and so `CFilter`. `pc` is the loop that control is in. An identifier
is the sequence of its characters; the identifier table is a constant. `idbuf`
holds `IdBufSize` characters, and a scan that writes behind it, or that looks the
declaration of a typedef up in a dictionary that did not number it
(`LooksUpDeclaration`), ends in `undefined`.

`Mentions` - the reference for the scan: which identifiers a text mentions, which
of them are called, which are in an `#include`. It also names the texts for which
the program is not exact (`Glued`, `LetteredNumber`, `LineLost`,
`IndentedDirective`, `CTokens`' division sign before a quote, and
`IncludeUnfinished`: when the table itself has the word include, the word is looked
up at the end of the directive's line, which a text that ends within the line has not).

`SymbolTable` - the promise of `dict.h`: a list of distinct names, operations
that are called, take effect at one moment and return.

`Dict` - `dict.c`, one step per entry of a bucket or chain that is looked at.
`sv` is the list of names without the reserved number 0; `ovfl` likewise.
Segments appear as the allocated size. `ST` is the refinement mapping: a find
takes effect at the comparison of the two answers, an add that appends at the
append. Code that is compiled but never called (`upsert`) is left out.

`IdTable` - the loading of table files, one step per field. Texts are empty, a
letter, name or header, exactly as long as the buffer, or longer. `lost` records
that a line, or a part of one, was not counted; `line` and `described` record what
each line said about its name, for comparison with the row that `id_find` leads to.

`Report` - `refcmp`, `qsort` and `show_includes` as operators on the table of
references. The reference, `ReportsOf`, works with sets: the entries that a set of
identifiers calls for, each on the line that has as many lines before it as the
entry has entries before it. An identifier and a header string are numbered by
their order in `strcmp()`. Header strings are sequences of names and bars, because
the loop that splits them at bars skips the place behind each; of two bars in a row
it takes the second as the start of a name (`DoubledBar`).

`Output` - where messages go. `set_eprint_fh` and `set_debug_fh` choose a stream;
a message printed on `stdout` stays in a buffer that may spill at any time, one
printed on `stderr` arrives at once, and `exit()` flushes. Messages are numbered
as they are printed. The module also says how many characters `show_char_r`
writes, and so which names overrun the buffer of the `fshow` functions.

`Command` - main: options one by one, the search for a table, marking, probing,
scanning (one step per identifier), reporting, every exit, what each step prints,
and another program that removes files. Reading a file may fail, which the program
takes for its end (`cut`); an allocation may fail wherever there is one
(`OutOfMemory`); a guarded write may fail (`abort`). A table adds the identifiers that it describes, a scan finds
the identifiers that the file mentions: what IdTable and Scanner model in detail,
with the faults that may happen there.
`pc` ends in `exit`, `shown` (help or version), `abort` (`io_guard`), `crash` (null
pointer) or `undefined` (outside an array, or a closed stream).

The `MC*` modules give the constants values. `*Proofs` hold the theorems.
Operators marked MUTANT are used by no specification: each is a plausible bug
that a property is shown to catch.

## Runs

| run | checks | bounds |
|---|---|---|
| `cstream` | no internal error, no character lost, one end mark, classes as in C | texts of up to 6 special characters |
| `scanner` | never exits, finds exactly the mentions, undefined only for a cause, line numbers not ahead, terminates | texts of up to 6 characters from 7, `idbuf` of 4 |
| `dict` | the two searches agree, capacity, one entry per symbol, the inductive invariant, refinement of `SymbolTable`, operations return | 6 names, 2 buckets of 1 entry, segments of 2 |
| `idtable` | capacity; in sync, each name with the row of its own line, the two searches agree, unless a line was cut off | 2 files of 2 lines, 2 names, 4 fields |
| `command` | exact reports, success is complete, quiet when missing, output in order and delivered, failures told, faults have a cause, halts | 2 options, 2 files out of 2 sources and standard input, 4 layouts of the output |

The bounds. libcf's longest pattern is an opening, a delimiter inside an escape
or a run of stars, and a closing: 5 characters; 6 leaves one behind it. A scan
needs `#`, the word include (one letter in the instance), a blank, a name and a
line end; newlines are its only white space, line comments its only comments and
it has no digits, since `cstream` tells comments apart; its table has the word
include, without which `IncludeUnfinished` never arises. In `dict` one bucket has four names, so that its chain has three
entries, interleaved with the other bucket's; two names share their hash code.
Segments of two entries grow twice and more. In `idtable` each line makes the
array grow, one line has more fields than allowed and the second is one error
too many. In `command` a table may repeat an identifier of an earlier one, or be
empty, so that the first lookup allocates; two
files that share a header show that reports are cumulative and free of
duplicates; the limits (option errors, traces) are 1 so that they are passed. One
source has a name with a byte above 127 and needs a header string that ends with a
bar, so that the faults of both happen; standard input needs one with two bars in a
row. The layouts are: both streams to one file,
to two files, standard output closed, both to a full device. Two reports, a
complaint and the debugging messages between them are enough to overtake each
other. In `scanner` three letters fill `idbuf`, and 6 characters leave room for
them on both sides of a comment.

Deadlock is checked where a state always has a next one (`cstream`, `dict`); the
others model programs that stop.

Seven runs refute something that the repository says of the program; `findings`
quotes it.

| run | what TLC shows |
|---|---|
| `cstream_open` | a file that ends inside a comment or literal is not reported |
| `cstream_quote` | a quote right behind a division sign opens no literal: the `x` of `/'x'` comes out as code |
| `scanner_swallow` | the line behind `#include "a.h"` is not scanned |
| `scanner_glue` | identifiers with only a comment between them become one |
| `scanner_stale` | the `#` of an `#include` is used up when the line above ended with an identifier, and the operand is looked up |
| `idtable_sync` | two tables without a final newline: the second overwrites the row of the first one's name, and verification passes |
| `command_table` | a table that cannot be opened leads to a null pointer |

### Fairness

`Scanner` and `Command` assume weak fairness of the program's steps, `Dict` of
the steps of an operation that was called: the program is one thread that blocks
on nothing but the end of its input. `Scanner` includes the steps that read, as
a file has an end (`MaxLen`). Nothing is assumed of the program that removes
files in `Command`, nor that memory runs out, nor of a caller of `Dict`.

## Proofs

All from the named assumptions on the constants (`OtherCharsAssumption`,
`CStreamAssumption`, `ScannerAssumption`, `DictAssumption`,
`IdTableAssumption`, `ReportAssumption`, `OutputAssumption`, `CommandAssumption`), for every
alphabet, table, set of names, hash function, command line and size. Each
inductive invariant was checked by TLC on the instance of its run before it was
proved.

- `CFilterProofs`: `CallPreserves`, on which the next two rest. The invariant
  ties the class to the state (inside a character literal it is the class of its
  contents, otherwise the `abort()` would be reached) and says that `err` is 0.
  Then the tokens of a text, as `CTokens` defines them: a character more leaves
  the tokens before it as they were (`SameStart`, `SameClass`), and each state of
  libcf says in which token the text ends, and how far in it (`Reads`). The
  recursive references ask for induction over the text; the prover has none, and
  the smallest counterexample of a set of naturals (`NatMin`, from the library's
  theorem on well-founded relations) takes its place. `ClassOfText`: the class of
  what comes out is the class that the text calls for.
- `CStreamProofs`: types, `StreamNoInternalError`, `StreamNoCharLost`,
  `StreamEofLast`, `StreamClassifiesAsC`. The invariant adds that the text fed is
  the text that came out, plus a `/` exactly in the state that holds one back, and
  that a mark is in the array only when the state is at the end of the file; for the classes, that
  the state reads the text fed so far (`ReadsText`).
- `ScannerProofs`: types, `ScanNeverExits`, `ScanUndefinedHasCause`. `cf_getc`
  calls `cf_next` only when the array is empty, so at most two entries come in, one
  is taken, and there is room to put one back. `UndefinedHasCause` speaks of the text, and the
  scan of super-characters and `idbuf`; the invariant `CauseInv` ties them
  together: there is a place of the text up to which `cf_getc` has gone
  (`ScannedTo`), the array holds the characters from there on with the classes
  they have in the text, and while an identifier is read there is a stretch of the
  text, ended there, whose code is all identifier characters, and as many as
  `idbuf` holds (`RunAt`).
- `MentionsProofs`: `ScanFindsMentions`, `ScanLinesNotAhead`. The reference reads the
  whole text, the scan a part of it, and whether a word is in an `#include` or is
  called depends on what is still to come. So the invariant, `FindInv`, speaks of
  every text that the file may still turn out to be (`Continues`), and says that
  there is a place in it where the scan is (`At`), such that what was recorded, what
  `idbuf` holds and the line are right for that place. What is right depends on the loop
  (`PlaceIn`): behind the last whole word at the head of the main loop, within one
  while it is read, between a word and what decides whether it is called. At the
  end of the file only the text itself is left, and the place is its end. The exception
  `IncludeUnfinished` was missing from `FindsMentions` until the step for the end of
  an `#include` line could not be proved; TLC then showed it on a table with the word include.
- `DictProofs`: `DictIndInv`. Neither `NoAbort` nor the refinement is inductive:
  that the hash search finds a name depends on where earlier adds put it. The
  invariant says that bucket entries are filled from the first on and hold the
  hash code of their symbol (`SlotsOK`), that the link of an overflow entry is the
  next entry of the same bucket in the array, which rules out lost tails and
  cycles without any induction over chains (`ChainsOK`), that every symbol but the
  one being entered is in the table (`Complete`), and what a search has passed
  (`SearchOK`). `DictNoAbort`, `DictInCapacity` and `DictImplements` follow.
  `DictEnteredOnce` needs more: a symbol that is being entered is in no entry that
  `dict_symnr_add_hash` has passed, and so in none at all when it finds a free one
  (`NotPassed`, `OnceInv`). It covers buckets of any size; in the run they have one
  entry, so that only the proof exercises what `EnteredOnce` says of two slots.
- `IdTableProofs`: names are distinct (`NamesDistinct`); each name that was
  numbered is that of a row, or of the row that is being filled (`Covered`); each
  row says what the line of its name said (`HistoryOK`). Both may fail once a line
  is cut off, which `lost` records, and only then. Behind a file `verify_idtable`
  has seen that the row at each place has the number of the place (`Verified`);
  with `Covered` there are as many names as rows, and the two searches meet at one
  row. `TableTypeOK`, `TableInCapacity`, `TableSynced`, `TableFindsOwnLine` and
  `TableSearchesAgree` follow.
- `OutputProofs`, the report: `QsortSorts` and `LinesReport`. `qsort` is defined by
  counting the entries that come before one (`PlaceOf`); equal entries are told
  apart by their place. The counts are distinct and at most the length, so they are
  a bijection on the places, and the result is a permutation in the order of
  `refcmp`. `LinesReport`: for a sorted table the loops of `show_includes` print
  `ReportsOf` its identifiers, unless a header string has two bars in a row. The
  table is taken row by row: a row with a header string already printed adds
  nothing, or the identifier behind the last one; a new header string adds its names
  behind all others, because the rows are sorted (`NewHeader`, `SameHeader`,
  `EntryAdded`). The loops are recursive functions, about which the prover knows
  nothing; `Iterates` shows, by the smallest length that fails, that the values they
  pass through exist, and `NamesIterate` and `LinesIterate` that the loops compute them.
- `OutputProofs`, the streams: what printing and flushing keep (`OutputOK`). That a file gets its
  messages in order is not inductive: the invariant says in addition that what is
  in the buffer of `stdout` is in order, and younger than all that has arrived in
  the file it leads to, whoever wrote it. A complaint on `stderr` would break this
  if both led to one file, and then `set_eprint_fh` has chosen `stdout`; that is the
  whole argument, and the lemma `EprintStream`. When both descriptors lead to files
  a message is in the buffer or has arrived, and `exit()` empties the buffer.
- `CommandProofs`: `CommandIndInv`. Its parts are the types; how far main has come
  at each place (`Progress`: a report per file that was shown, standard input closed
  only behind a file that was standard input); that a table was named (`HaveTable`);
  that each entry of `ref_inc_table` belongs to an identifier that is known and that
  a file mentions, which the sorting keeps (`References`, from `QsortSorts`); that
  what was missing at the start stays missing and is found by the probing
  (`Missing`); and what was printed (`Outcome`, from `OutputProofs`: every `exit()`
  with a status other than 0 comes right behind a complaint). Each part is kept by
  every action, given the others. `CommandReports` needs two facts more: the table of references
  holds exactly the known identifiers of the files behind and of the part of the
  current one that has been scanned (`Gathered`), and behind the probing nothing
  adds to the tables, so that what was known at an earlier file is what is known now
  (`BehindTables`); the lines are then those of `LinesReport`. Its exception, two
  bars in a row, was found when the lemma on the names of a header string failed,
  and confirmed by TLC. All invariants of the run `command` follow: `CommandReports`, `CommandTypeOK`, `CommandRefsFit`, `CommandSuccessIsComplete`,
  `CommandQuietWhenMissing`, `CommandInOrder`, `CommandDelivered`,
  `CommandFailureIsTold`, `CommandFaultHasCause`.

Every safety invariant of the passing runs is the subject of a theorem, and so is the
refinement of `SymbolTable`. Only model-checked: liveness (`Terminates`, `Returns`,
`Halts`), which the prover does not handle.

## What the checks show about faults

Three properties say exactly when the program leaves defined behaviour, rather
than that it never does, because it does:

- `FaultHasCause`: the command faults only for more traces than `trcv` holds, an
  `argv[0]` that is no path or a short one, a named table that cannot be opened,
  standard input named twice, a name with bytes above 127 that is shown (each such
  byte needs 11 characters of a buffer of 8), or a header string that ends with a
  bar. Each of the six happens in the run. Faults within the loading of a table and
  within a scan are not in `Command`: `IdTable` and `Scanner` have them.
- `UndefinedHasCause`: the scan faults only for an identifier, perhaps glued
  together from several, that fills `idbuf`, or for a typedef with a declaration.
- `SyncedWhenLoaded`, `FindsOwnLine`, `SearchesAgree`: the identifier table is
  wrong only behind a line that was cut off.

An error while a file is read, and a write that fails without a guard, are not
noticed by the program: it exits with status 0. `Reports` says so with `cut`, and
`FailureIsTold` is about the runs with another status. `Reports` also leaves out
header strings with two bars in a row, for which a name printed begins with a bar.

## Not modelled

- What goes to standard error directly: the lines of `--trace` and, with
  `--verbose`, the name of a table. They may overtake what `stdout` has buffered.
- A debugging file that is also the file of the output.
- The wording of messages (`decode-emsg.c`, `decode-esym.c`, `explain-err.c`,
  `sname.c`) and the form of an import line (`annotate_type`): no state, and
  nothing depends on them.
- `strdup()` in `dict.c`, the one allocation without a guard, failing.
- Errors while standard input or a table is read.
- Fields of the table that nothing reads; the dump functions; rehashing and
  `upsert` in `dict.c`, which no call reaches; an empty `argv`.

## Plan

Done: libcf, the scan, the symbol table, the identifier table, the report, the
command, its output and its failures, each with its run; proofs of every safety
invariant of the passing runs, and of the refinement. Left: what is listed as not
modelled, and liveness, should the prover come to handle it.
