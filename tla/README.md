# A verification development for the dta extension of DuckDB

The extension reads Stata `.dta` files with the table function `read_dta` and
writes them with `COPY ... TO ... (FORMAT dta)`.  This directory holds TLA+
models of both paths, the TLC runs that check them on small instances, and
proofs, checked by TLAPS, of all the safety properties that hold, for every value
of the constants: the parallel scan is correct for every number of threads, rows
and every vector size; a file that opens is safe to scan whatever it holds, a
whole one opens, as its own table, unless an ENUM would have a text twice, and a
size that exceeds the file is rejected, but for one sum that wraps; what
the sinks of a COPY write reads back as the rows they were given, whatever their
interleaving, and a COPY that fails or is interrupted shows no part of them; a
cell is shown under its own label; each value a COPY accepts comes back; and the
texts of any file are shown in their own characters.

    tlc -workers 2 -config scan_remote.cfg MCDtaScan
    tlapm DtaScanProofs.tla
    tlapm DtaOpenProofs.tla
    tlapm DtaLayoutProofs.tla
    tlapm DtaCopyProofs.tla
    tlapm DtaCopyFileProofs.tla
    tlapm ValueLabelsProofs.tla
    tlapm DtaValuesProofs.tla
    tlapm ProofLemmas.tla

`PROJECT.json` lists the runs with their properties, the lines of code each
definition models, the hazards of the code and the mutants: for every property
of a passing run, a plausible bug in the code that breaks it.  The operators
named as mutants stand beside the definition they would replace and are used
by nothing else.

## The system

| Part | Code | State it keeps | Operations |
|---|---|---|---|
| Parallel scan | `read_dta_function.cpp` | per query: `next_row`, `lock`, the filter; per thread: `batch_index`, `row_buffer` | init, claim a range, read, decode, filter, return, partition data |
| Row reading | `dta_reader.cpp`, `ReadRows` | the file handle and its position, `io_mutex_` | positional read of a range of rows |
| Opening and binding | `dta_reader.cpp`, `ReadDtaBind` | header fields, map offsets, columns, strL table, value labels | parse header, map and descriptors, in the modern or the legacy layout; check sizes; load strLs and labels; build types and offsets |
| Value labels | `dta_writer.cpp`, `dta_reader.cpp`, `ReadDtaBind` | label tables, ENUM types and indexes | lay out a table, find its texts, bind ENUMs, decode a labelled cell |
| Cell decoding | `read_dta_function.cpp`, `DtaMissing` | none | type mapping, missing codes, dates, strL and ENUM lookup |
| COPY sink | `write_dta_function.cpp` | `writer`, `lock`, `rows_written` | sink a chunk, combine, finalize |
| File writer | `dta_writer.cpp` | the file, `offsets_`, `strl_map_`, `strl_order_`, `value_labels_` | metadata, row, add strL, add label, finalize |
| Cell encoding | `write_dta_function.cpp` | none | type mapping, range checks, missing codes, epoch shifts |
| Registration | `dta_extension.cpp` | none | registers the functions, replaces table names ending in `.dta` |

How they interact:

- The query engine opens one `DtaReader` at bind and shares it between all
  scan tasks.  Tasks share `next_row` under `gstate.lock` and, on handles that
  are not on disk (httpfs, WASM, compressed files), one handle position under
  `io_mutex_`.  The engine reads the batch index of a chunk after the call that
  returned it, and stops calling a task after an empty chunk.
- COPY sinks of several threads share one writer under `gstate.lock`.  Rows of
  a string column hold references to strings that the writer keeps in memory
  until `Finalize`.  `Finalize` writes what follows the rows, then goes back
  and fills in the number of observations and the map, which were zero.
- The two sides meet in the file: what the writer leaves behind, at any moment
  the process may die at, is what the reader may be asked to open.

What is hard: interleavings of scans on a shared position; the end of a scan
after filtered-out ranges; batch indexes across threads; exceptions while a
mutex is held; observation numbers computed from a counter other sinks move; a
failed or interrupted COPY; the order of the last writes; files that are cut off
or whose counts, lengths and offsets lie, with checks whose products must not
wrap; references divided differently by every format and byte order; alias
variables, which are in every list but in no row; label texts found by offsets;
the borders of types, missing value codes and epochs.  `PROJECT.json` has them
one by one, at their lines.

What makes each part correct:

- Scan: every wanted row once, with its own data, in an order the engine can
  restore, and an end that is reported only when nothing is left.
- Writer: references name strings the file defines; a finalised file reads
  back as the rows written; an unfinished one never shows some of its rows as
  if they were all.
- Opening: a whole file opens as the table it is, unless labels are asked for
  and the table of a numeric column has a text twice; one that was cut off opens
  with all of its rows or not at all; whatever a file says of itself, nothing
  is allocated for what it does not hold and no scan leaves it.
- Labels: a cell is shown under the label of its own value or none.
- Cells: what is accepted comes back, NULL is NULL, and what is rejected can be
  cured by the cast that the message advises.

## Modules

| Module | Models |
|---|---|
| `ScanContract` | the promise of a scan: wanted rows handed out once, then the end |
| `DtaScan` | `ReadDtaScan` and `ReadRows` with their threads, mutexes, ranges and buffers; its properties and inductive invariant |
| `DtaScanProofs` | the proofs about `DtaScan` |
| `CopyContract` | the promise of a COPY to a reader: the whole table at once or nothing |
| `DtaFile` | the layout of the writer's files and what `read_dta` makes of any prefix of one |
| `DtaCopy` | the sinks and the writer, write by write, over a file of `DtaFile` |
| `DtaCopyProofs` | the invariants of the threads, the strings and the writes of `DtaCopy`, and the proofs about them |
| `DtaCopyFileProofs` | what `ReadBack` makes of a file that holds a table; the invariants of the file of `DtaCopy`, and the proofs about finished and interrupted COPYs and the contract |
| `DtaOpen` | the constructor of `DtaReader`, its loaders and `ReadDtaBind`, step by step, on any sequence of bytes; its properties |
| `DtaOpenProofs` | the inductive invariant of `DtaOpen` for files that hold anything, and the proofs about it |
| `DtaLayout` | what a file that other programs wrote holds and where, in each format, whole or damaged: the assumption that ties the constants of `DtaOpen` to each other |
| `DtaLayoutProofs` | the inductive invariant of opening a file of that layout, and the proofs about it |
| `ValueLabels` | label tables from an ENUM column, or another program, through the file to the text a cell is shown as |
| `ValueLabelsProofs` | the invariant of `ValueLabels` and the proofs about it |
| `DtaText` | byte orders, strL references of every format, Latin-1 |
| `DtaValues` | a cell from a DuckDB column into the file and back, or from a file of another program |
| `DtaValuesProofs` | the invariant of `DtaValues` and the proofs about its cells |
| `ProofLemmas` | facts on numbers and sequences that the proofs share, with induction on numbers and on sets of them |
| `MCDtaScan`, `MCDtaCopy`, `MCDtaOpen`, `MCValueLabels`, `MCDtaValues` | constants and symmetry for TLC; `MCDtaOpen` lays files out and damages them |

`DtaOpen` ends where `DtaScan` begins: it establishes that the rows a scan
claims are in the file.  `DtaFile` is what `DtaOpen` does, shortened, with the
writer's files for input: `DtaCopy` needs the outcome of a bind in every state,
not its steps.

### DtaScan

| Variable | Code |
|---|---|
| `pass` | the rows that satisfy `filter_expr` |
| `nextRow`, `gLock` | `ReadDtaGlobalState::next_row`, `lock` |
| `ioLock`, `handlePos` | `DtaReader::io_mutex_`, the position of a handle that is not on disk |
| `pc`, `start`, `count` | where a thread is in `ReadDtaScan`, and its locals |
| `batch`, `buffer` | `ReadDtaLocalState::batch_index`, `row_buffer` |
| `out` | the chunks each thread has returned |

A row is its number.  The claim is two steps, reading `next_row` and advancing
it, inside the critical section, so that dropping the lock is a bug the model
can show.  A read of a remote file is two steps, moving the handle and reading
from it, for the same reason.  A read may throw where `IoMayFail` says so.
`ClaimRange`, `AdvanceNextRow` and `EndOfScan` are lines 280-291 of
`read_dta_function.cpp`, `ReadOnDisk`, `SeekHandle`, `FillBuffer` and
`ReadFails` are `ReadRows`, and `ReturnChunk` and `SkipChunk` are the filter at
the end of the loop.

### DtaFile and DtaCopy

A file is a sequence of tokens: tags, the number of observations, map entries,
cells, strLs, label tables.  `ReadBack` gives what `read_dta` shows of a file,
with `value_labels` or without: whether bind succeeds, and the rows.

| Variable | Code |
|---|---|
| `phase`, `pending` | how far the writer is, and the writes still to do |
| `lock`, `rowsWritten` | `WriteDtaGlobalState::lock`, `rows_written` |
| `pc`, `row` | where a thread is in `WriteDtaSink` |
| `strls`, `offset` | `strl_order_` with the references, `offsets_` |
| `file` | the file |
| `written` | the rows appended, in their order (history) |

`SinkCall` is the engine's call, `SinkBegin` takes the mutex, `SinkRow` is one
turn of the loop over rows with the string registration and the write,
`SinkThrows` is a value out of range in the middle of a row, `RowWriteFails` a
row cut off by a full disk, `SinkEnd` the count and the return.  `Finalize`
fixes the offsets and the list of writes, and `FinalizeWrite` does one of them.
The engine finalises only when no sink has thrown, and drops the writer
otherwise.  A crash is not an action: what it leaves is the file of the state it
happens in, so an invariant over `file` speaks of every crash.

### DtaOpen

| Variable | Code |
|---|---|
| `file`, `wantLabels` | the path and the option `value_labels` of `read_dta` |
| `pc` | the point reached in the constructor, `LoadValueLabels`, `LoadStrLs` or `ReadDtaBind`; `"bound"` when the bind returned, `"error"` when it threw |
| `pos` | the position of the handle |
| `reader` | `params_.version`, `n_obs_`, `data_offset_`, `strls_offset_`, `value_labels_offset_`, `row_width_`; the layout, the local `n_vars` and a text length |
| `columns`, `strls`, `labels` | `columns_`, `strl_table_`, `value_labels_` |
| `mapped` | `col_offset_in_row` and the label table of each column, of the bind data |
| `index` | the index of the loops over columns |
| `allocated` | the largest allocation sized by a field of the file (history) |

A file is its size and the tokens (tags, fields, strings) that begin at some of
its positions.  Reading at a position where the expected token does not begin
gives any of the values in `Samples`, so a wrong offset is not an error by
itself: only what the code checks is.  `Expected` is the layout of each point
(opening tag, bytes, closing tag), `Readable` says whether the file has it
there, and `ReadFails` is the exception of `ReadBytes` and `ReadTag`.  The rest
is one action for each `Parse...` and `Load...` function or for each turn of its
loop: `ParseRelease` to `EndHeader` are `ParseHeader`, `ParseVariableTypes` to
`ParseVariableLabels` serve both layouts, as their functions and
`ParseLegacyDescriptors` do the same in the same order, `AddWidth` and
`CheckRows` are the end of the constructor, `NextLabelTable`/`ReadLabelTable`
and `NextStrL`/`ReadStrL` the two loops over items, `MapColumn` the loop of the
bind, and `EnumThrows` the exception that `LogicalType::ENUM` ends it with when
the label table of a numeric column has a text twice.  The texts of a table are
one opaque body here, and `Repeats(table)` says whether two values of it have the
same text; of bytes that are no label table of the file it may say both.  The sums and products of the checks are taken modulo `Mod32` and
`Mod64` where the code's types do.

### ValueLabels

| Variable | Code |
|---|---|
| `source` | the columns a COPY writes, or that the file is another program's |
| `written`, `file` | the tables `Finalize` has written, and the label sections of the file |
| `labels` | `DtaReader::value_labels_` |
| `bound` | the ENUM type and `col_enum_index` of each column |
| `shown` | one cell and the text that `ReadDtaScan` gives it |

`TableFor` lays a table out as `WriteDtaBind` and the writer do, `TextAt` is the
`strnlen` of `ReadValueLabelTable`, `Mappings` its loop over entries,
`BindColumn` the part of `ReadDtaBind` and `MapDtaType` about labels, and
`Decoded` the labelled branches of `ReadDtaScan`.  Names and texts are sequences
of bytes here, because what is at stake is where a NUL is.

### DtaValues

One behaviour is one cell: a column type and a value are chosen, COPY accepts
and encodes the value or rejects it, and `read_dta` decodes the cell; or the
cell comes from another program.  Integer types have their real widths up to 32
bits.  Days are scaled down from 32 bits, the microseconds of a timestamp from
64 (`MicroLimit`) and the integers that a double holds from 2^53 (`Exact`); an
overflowing signed operation may wrap or be carried out in more bits, and a
floating cast that does not fit, to 32 bits for a date or to 64 for a timestamp,
gives either end of the range.

`WriteText`, `ForeignStrL` and `ForeignStr` do the same for texts, with the
operators of `DtaText`.  There, numbers and texts are sequences of bytes:
`Swap16` to `Swap64` are the functions of these names, `ShownStrL` puts a cell's
reference together as `ReadDtaScan` does, `StrLKey` packs it, and `ResolveStrL`
finds the strL among those `LoadStrLs` has kept.  How other programs lay files
out (`VBytes`, `RefBytes`, `StrL`) is written down apart from the operators that
read them, so that the two can disagree; so are the bytes of each text in
Latin-1 and in UTF-8, which are part of the sample, and related by what UTF-8 is
(`Utf8`, `TextAssumption`) and not by the code that converts them.

## Runs

| Run | Properties | What it shows |
|---|---|---|
| `scan_remote` | `TypeOK RowsMatchIds NoRowTwice BatchesOrderRows IInv` | three tasks on a shared handle: rows carry their own data, none twice, order restorable; the inductive invariant holds where it can be enumerated |
| `scan_contract` | `ImplementsContract EveryTaskReturns` | the scan implements `ScanContract` and every task returns, with reads that throw inside `io_mutex_` |
| `scan_disk` | `NothingLost ScanCompletes` | on disk nothing is lost, and the scan ends with every wanted row, unless a read throws |
| `copy_strings` | `TypeOK RefsAreFirstOccurrences FinalizedReadsBack ImplementsContract CopyEnds` | references are first occurrences in file order, the file reads back, the table appears in one step, and the COPY ends |
| `copy_numbers` | `FinalizedReadsBack CrashShowsNothingOrAll FailedCopyShowsNothing` | what crashes and failures show when no strL column notices them |
| `copy_wide` | `WideTablesReadBack` (violated) | strL references of far apart columns collide |
| `open` | `TypeOK ScansStayInFile WholeFilesOpen OpenedTablesAreTrue ExcessIsRejected AllocationsFitFile OpenEnds` | whole files open as what they are, unless an ENUM would have a text twice; cut ones as that or not at all; sizes that exceed the file are rejected before anything is allocated or scanned, unless `offsets[9] + 6` wraps; and the call ends |
| `labels` | `TypeOK EnumsSurvive TextsStayInBlob CellsShowTheirLabel` | ENUM columns come back, and no cell is shown under the label of another value or with bytes from outside the text |
| `values` | `ValuesSurvive TimestampsKeepMilliseconds RejectionHasRemedy TextsAreShown` | the round trip at the borders of every type; texts of all formats in both byte orders read as their own characters |
| `values_missing` | `NegativeDoublesAreValues` (violated) | huge negative doubles read as NULL |
| `values_formats` | `DateFormatsAreDates` (violated) | `%-td` is not recognised |
| `values_casts` | `CastsAreDefined` (violated) | an unguarded cast of a double date |

Bounds, and why they are enough:

- `scan_remote`: 3 threads, 7 rows, vectors of 2, every subset of rows as the
  filter.  Three full ranges and a short one, more ranges than threads, ranges
  that are filtered out first, in the middle and last; `max_threads` is 3.  The
  proofs remove the bounds from all its properties.
- `scan_contract`, `scan_disk`: 2 threads, 5 rows, vectors of 2: two full
  ranges and a short one, each task may claim any of them, fail or skip.
  The proofs cover scans of row ids only (`NeedsData = FALSE`), which no run has.
- `copy_*`: 2 threads, chunks of at most 2 rows (`ChunkSize`), queries of at
  most 4 (`copy_strings`), 3 (`copy_numbers`) or 2 rows (`copy_wide`; `MaxRows`).
  A second chunk starts after a full one, so observation
  numbers depend on both counters; two strings in two columns repeat within a
  row, across rows and across chunks; `ENUM`, NULL and the empty string occur.
  The proofs drop the bounds from all safety properties and from the refinement.
- `copy_wide`: the 2^24 values of the column part are scaled down to 2
  (`VMod`), with 3 columns.
- `open`: twelve tables, in all nine formats, with and without rows, tables,
  strLs, aliases and expansion fields, without columns, and with only an alias;
  a column of strings is labelled by a table that has a text twice, and in format
  115 a numeric one is.
  Each is laid out whole; cut off one byte before, at and after every border of
  two tokens; and with each field that holds a count, length, offset, type or
  version replaced, by the least value that does not fit, the greatest, those
  whose product or sum wraps, and some that are wrong but fit: some 2,600 files,
  each read with and without labels.  `Mod32` and `Mod64` are scaled down to
  10^5 and 10^8, which keeps 638 `Mod32` below `Mod64` as in the code.  The
  proofs drop all these bounds from the six invariants.  The run
  evaluates `LayoutAssumption` on every file of it, so that what the proofs assume
  of a file that was made from a table is true of those laid out here.
- `labels`: COPYs of up to two ENUM columns of up to three texts, with names
  that agree in the bytes kept; tables of another program with up to two
  entries, every offset in and just outside texts that are empty, overlap or
  lack their NUL, negative values, floating columns with fractional cells, a
  second table of the name; copied texts may hold a NUL.  The largest long is
  scaled down to 2 (`Int32Max`), so that values and cells leave its range.  The
  proofs drop these bounds from all four properties.
- `values`: each limit of each type, one below and one above.  Texts that are
  empty or hold a NUL or bytes of each kind of UTF-8; references that differ in
  one byte, in each byte that some format keeps, two in every file; formats 117
  to 121 in both byte orders for strLs, and all formats for `str#` fields that
  are full, ended by a NUL, or with bytes left behind it.  The proofs drop these
  bounds from the three properties of the round trip.

`SYMMETRY` on the threads is used only in runs of safety properties: the
threads differ in nothing but their name.

Fairness.  `FairSpec` of `DtaScan` asks of each thread that it goes on when it
can: the engine's workers run and call the scan until it returns an empty
chunk.  Weak fairness per thread is enough: a mutex is kept for a bounded
number of steps, and a thread that waits is again and again able to take it
only while ranges are left, of which there are finitely many.  No fairness is
assumed about failures apart from being one of the steps a thread may take.
`FairSpec` of `DtaCopy` asks the same of the sinks and of the writer; a query
has at most `MaxRows` rows, a bound on the input and not a property of the
code.  `FairSpec` of `DtaOpen` asks that the one call goes on: it waits for
nobody, so `WF_vars(Step)` says no more than that the thread is run.

What the code does and the docs say otherwise (`findings`): the width of
tables, large negative doubles, left-justified date formats, and the cast that
the comment on `FitsInInt32` calls undefined.

Worth knowing, though no doc speaks of it: `CrashShowsNothingOrAll` excepts one
moment, `TornHeader`.  Between rewriting N and rewriting the map the header
declares rows whose offset is still zero.  With a strL column or
`value_labels=true` such a file does not open; without, its header is read as
rows.  A failed COPY leaves a file that opens as an empty table in the same
cases, and the file it truncated is gone (unless the engine writes to a
temporary file, which it decides, not this code).

Also met while modelling, in no contradiction to a doc:

- `OpenedTablesAreTrue` lets a file that was cut off between two strLs or label
  tables open: the loops take the end of the file for the end of the section.
  Its rows are all there; strings beyond the cut read as
  empty, labels beyond it are those of no table.
- A count of rows that is one too many is bound when the bytes after the rows
  are room enough for it; the extra row is made of them.  What is promised, and
  proved, is that no scan leaves the file.
- `offsets[9] + 6` (`ParseMap`) wraps for the last 6 numbers of 64 bits: a map
  entry of 2^64 - 6 puts the rows at offset 0, and the file is bound if its rows
  fit from there.  `ExcessIsRejected` excepts these entries
  (`dataOffset < DataTag`); the check of the rows holds for the offset that
  results, so that `ScansStayInFile` does not.
- The code of an alias, 65525, in formats 117 to 119 is a column of width 0, and
  with only such columns no number of rows is too large for the file.
- A text file that begins with a letter from `q` to `y` (but `t`) is read as a
  legacy file of that number until a size in it is found not to fit.
- Of columns whose names agree in 128 bytes, all get the labels of the first
  (`EnumsSurvive` excepts them).
- A table with the same text for two values makes the bind throw, as an ENUM
  holds a text once, when a numeric column has it; with `value_labels=false` the
  file opens.  `WholeFilesOpen` excepts these files (`HasRepeats`).
- A fractional value in a labelled column shows the label of its whole part, and
  NULL where that is below -2^31.
- A text of an ENUM that holds a NUL comes back up to it; two texts that agree up
  to there make the bind of the file throw.
- A double datetime outside 64 bits, which only files of other programs have, is
  cast to an integer without a guard; what it is shown as is undefined.
- A column of an empty ENUM comes back as a plain integer column.
- A binary strL is shown with its bytes, and so is text of formats 118 and later;
  neither is checked to be UTF-8.

## Proofs

### The scan

`DtaScanProofs` proves about `DtaScan`, for all constants with finitely many
threads, `NumObs` a natural number, `VectorSize` a positive one, and any value
of the three flags (the `ASSUME`s of the module; they say no more than the
types of the code's fields do):

| Theorem | States |
|---|---|
| `ScanInvariant` | `Spec => []IInv` |
| `ScanTypes` | `Spec => []TypeOK` |
| `ScanRowsMatchIds` | `Spec => []RowsMatchIds` |
| `ScanNoRowTwice` | `Spec => []NoRowTwice` |
| `ScanNothingLost` | `Spec => []NothingLost` |
| `ScanBatchesOrderRows` | `Spec => []BatchesOrderRows` |
| `ScanImplementsContract` | `Spec => ImplementsContract` |

The properties are not inductive: that two chunks hold different rows says
nothing of the ranges threads are still working on.  `IInv` adds

- `LocksInv`: a mutex is owned by the thread inside its critical section, and
  the handle is where that thread has put it;
- `RangesInv`: a claimed range lies below `next_row`, or begins at it while the
  claim is under way;
- `BuffersInv`: a thread that builds a chunk has the bytes and the batch index
  of its own range;
- `ChunksInv`: a returned chunk holds wanted rows of its range, unaltered;
- `ApartInv`: claims, returned or held, are a vector apart, and a thread's own
  grow;
- `CoverInv`: a wanted row below `next_row` was returned or is in a range that
  is held;
- `TasksInv`: a task that ended has seen `next_row` at the end.

One lemma per action shows that it keeps each conjunct; `NextIInv` joins them.
`RowsMatchIds` and `NoRowTwice` follow from `ChunksInv` and `ApartInv`,
`NothingLost` from `CoverInv` and `TasksInv` (when all tasks are done nobody
holds a range), `BatchesOrderRows` from `ApartInv` and a lemma on division:
starts a vector apart have different quotients, in their order.  The refinement
shows that `ReturnChunk` is `Deliver`, that the last `EndOfScan` is `Complete`,
that the first `ReadFails` is `Fail`, and that all other steps leave the
contract's variables alone.

### Opening a file

`DtaOpenProofs` proves about `DtaOpen`, for any set of files, each of any size
and with any contents:

| Theorem | States |
|---|---|
| `OpenInvariant` | `Spec => []OInv` |
| `OpenTypes` | `Spec => []TypeOK` |
| `OpenAllocationsFitFile` | `Spec => []AllocationsFitFile` |
| `OpenScansStayInFile` | `Spec => []ScansStayInFile` |

The assumptions are those of the module: a file's size is a 64-bit number, a
field that is read holds a number of its width, tags have a length, and 638
times what 32 bits hold is less than what 64 bits do (638 is the most metadata a
variable takes, in formats 118 and later).  Nothing is assumed of what a file
says.

`ScansStayInFile` is not inductive: the constructor adds up the width of a row
and checks the rows with it, and the bind later adds up the widths again to get
the offsets.  `OInv` ties both to one function: there is a `w` with `w[0] = 0`
and `w[i] = w[i - 1] + TypeWidth(columns[i].type)` (`Sums`), the width added up
so far is `w[index - 1]` (`WidthInv`), and once the rows were checked it is
`w[NumVars]`, while the columns mapped so far begin at `w[i - 1]`
(`OffsetsInv`).  `ScalarsInv` and `ColumnsInv` bound the fields, `TablesInv` the
indexes of label tables, `IndexInv` says where the loops are.  `w` is monotone,
so a cell ends at `w[i] <= w[NumVars]`, and the last row ends in the file by the
lemma that `n <= a \div b` implies `n * b <= a` (`QuotientBound`), which is why
the code may check a quotient where a product would wrap.  That the product of
the check on K does not wrap is `ResizeStep`.  Actions are grouped by what they
leave alone (`EarlyStep`, `HeaderStep`, `KeepsColumns`, `LoadStep`,
`ErrorStep`), and there is one lemma for each.

### Opening the file of a table

To the proofs above a file is anything at all.  What a whole file promises needs
to be said first, and `DtaLayout` says it, for formats 113 to 115 and 117 to 121,
without recursion: `Source(f)` is the table with the places where its parts are,
and each part is followed by the next (`Section`).  `IsLaidOut` is the
conjunction of `Header`, `Descriptors`, `Columns`, `Rows`, `StrLs` or
`Expansions`, and `LabelTables`, for any numbers of each.  `Sized` allows a size
field of a damaged file to exceed the room for it (`MostVariables`, `MostRows`,
`MostData`, `MostExpansion`, `MostLength`, `MostEntries`, `MostText`) by any
amount, and `HasExcess` and `HasLabelExcess` say that one does.
`LayoutAssumption` says that the files which are called whole, cut off or excessive
are just that.  It is the definition of these words rather than a restriction of
the code's input: files of other kinds (`Source(f).damage`) are as arbitrary as
before, and TLC evaluates it on the files of the run `open`, which `MCDtaOpen`
lays out by other means, one token behind the other.  A whole file must have its
rows in it and rows narrower than 2^32 bytes, and the reader requires both; and
no file has 2^64 bytes.

| Theorem | States |
|---|---|
| `OpenLayout` | `Spec => []LayoutInv` |
| `OpenWholeFilesOpen` | `Spec => []WholeFilesOpen` |
| `OpenTablesAreTrue` | `Spec => []OpenedTablesAreTrue` |
| `OpenExcessIsRejected` | `Spec => []ExcessIsRejected` |

`LayoutInv` is the invariant: in such a file, `ReadInv` holds until an exception,
and in a whole one there is none but that of `EnumThrows`, which needs
`HasRepeats`: `AllTables` says that at the columns the tables read are those of
the file, so that the bind finds for a column the table that the file gives it
(`EnumThrowsLayout`).  `ReadInv` says, for each point of the code,

- `FormatInv`, `PlaceInv`: the format is known, and the handle is at the
  beginning of the section that is read next;
- `CountsInv`: the counts are those of the file, and from the first list on K
  is one the file has room for;
- `DescribedInv`: the columns have the types, names and label names that the
  lists passed so far give, and after the last list they are the table's, without
  aliases;
- `RowsInv`: the offsets of the map, or the number of expansion fields passed,
  and the width added up so far; once the rows are checked, that no count
  or offset exceeded its room;
- `LabelsInv`, `StrLsInv`: in the loops, that the handle is at the table or strL
  n + 1 and the first n were read (`LabelsRead`, `StrLsRead`), none of whose sizes
  exceeded; at the end, that n is all of them unless the file was cut off.

There is a lemma for each action, `...Follows`: a whole file is not refused, and
what is accepted was read as it is laid out.  A file that was cut off has the
same contents up to the cut, and a read across it throws, so it takes the same
steps until it is refused or a loop takes the cut for the end of its section.
A size that exceeds its room cannot pass the check the code makes of it, and
`RowsChecked`, `CountFits`, `TableChecked` and `TextThere` are about these checks,
each with the quotient or the difference that the code takes.  The start of the
rows is the offset in the map plus 6 unless that wraps (`StartInv`, `DataSum`);
when it does, it is less than 6 (`Wraps`).  That the columns
after the last list are the table's, although both are only said to be the
variables without aliases in their order, is `EnumerationUnique`: two increasing
functions onto a finite set of numbers are the same.

### Copying

`DtaCopyProofs` and `DtaCopyFileProofs` prove about `DtaCopy`, for any table, any
set of threads, any chunks of at most `ChunkSize` rows and at most `MaxRows` of
them, with values out of range and failing writes anywhere:

| Theorem | States |
|---|---|
| `CopyTypes` | `Spec => [](TypeOK /\ CountInv)` |
| `CopyRefsAreFirstOccurrences` | `Spec => []RefsAreFirstOccurrences` |
| `CopyFailedShowsNothing` | `Spec => []FailedCopyShowsNothing` |
| `CopyFinalizedReadsBack` | `KeysFit` implies `Spec => []FinalizedReadsBack` |
| `CopyCrashShowsNothingOrAll` | `KeysFit` implies `Spec => []CrashShowsNothingOrAll` |
| `CopyImplementsContract` | `HasStrLs` and `KeysFit` imply `Spec => ImplementsContract` |

The assumptions are those of `DtaFile` and `DtaCopy`: a column has one of three
kinds, `Null` is no position of the dictionary, and a cell of an ENUM column is
NULL or one of its texts, as DuckDB's types have it.  Two hypotheses are more
than that, and both are needed:

- `KeysFit`: in a table with strL columns, there are fewer columns than a
  reference has column numbers and fewer rows than it has row numbers (2^24 and
  2^40 in the code).  Nothing in the code ensures it, and without it
  `FinalizedReadsBack` is false: that is the run `copy_wide`.
- `HasStrLs`, for the refinement only: without a strL column a file is readable,
  as a table with no rows, as soon as its header is complete, and the contract
  has no such moment.  `CopyCrashShowsNothingOrAll` says what holds there.

The invariant is `AllInv`, of five parts.

- `TypeInv` adds to the types that the rows which the owner of the mutex has
  written are the only ones not counted, unless a sink has thrown (`CountInv`);
  `ObsIndex` is then the number of the row in the file, whichever thread writes.
- `RefsInv` says that `strls` are the strings of the rows in the order of their
  first cells.  It is carried from cell to cell (`RefsUpTo`, `NextColumn`): a
  string that is looked up and found has an earlier cell, and one that is not
  found has none, because all earlier strings are registered (`HasAll`).
  `Register` is a function over columns; `RegisterSteps` unfolds it, and
  `SetInduction` takes it through a row.
- `FileInv` follows the writes: the header is the metadata's until `Finalize`
  overwrites it, overwriting comes after all appending (`PendingInv`), and
  finalising comes after all threads have ended (`ThreadsInv`).  So N is 0 in
  every file that a COPY which failed leaves behind, and no row is shown.
- `RowsInv` says that the cells in the file, from the end of the metadata on, are
  those of the rows written, with the references that their strings have by now.
  A string registered later does not disturb it, because `strls` only grows and
  the reference of a string is that of its first cell.
- `TrailerInv` says how far `Finalize` is: of the writes it planned, a prefix is
  done.  The end of the file is that prefix of `Trailer`, and the header differs
  from the metadata in exactly the entries that were rewritten.  This is what
  makes each moment of the finalisation a case of its own for
  `CrashShowsNothingOrAll` and for the refinement.

The first half of `DtaCopyFileProofs` takes over from there.  `HoldsTable` describes a file that has
rows, strings and labels in their places; the lemmas show that each loader then
finds its section, that references below `VMod` and `OMod` have keys of their
own, so that a reference finds its own string and no other, that a code finds
its label, and that `ReadBack` gives the rows.  The refinement maps the third
write into the header, the map entry of the strLs, to the appearance of the
table: before it a file with a strL column does not open (`TableInv`).

### Value labels

`ValueLabelsProofs` proves about `ValueLabels`, for any columns that a COPY may
write and any file of another program, with tables of any entries, offsets,
values and texts:

| Theorem | States |
|---|---|
| `LabelsInvariant` | `Spec => []LInv` |
| `LabelsTyped` | `Spec => []TypeOK` |
| `LabelsStayInBlob` | `Spec => []TextsStayInBlob` |
| `CellsUnderTheirLabel` | `Spec => []CellsShowTheirLabel` |
| `EnumsReadBack` | `Spec => []EnumsSurvive` |

`LabelsAssumption` says that the texts of a copied ENUM differ and that their
positions are numbers of 32 bits, as DuckDB's ENUMs have it, that a column of a
COPY has a name, and that the field of a name has room for a byte and its NUL.

`LInv` says what each step has taken over from the one before: the tables on
file are those that `TableFor` lays out of the columns written so far
(`FileInv`), those loaded are the mappings of those on file, in their order
(`LabelsInv`), a bound column has the texts and the index that its map gives,
with no text twice (`BoundInv`), and a cell shown is one that was decoded with
them (`ShownInv`).  The properties then are about one map.  `BlobPlaces` says
where a text lies: at its offset, with a NUL behind it, however many texts come
before; so what is read there is the text up to its own first NUL.  A map is
keyed by value, and the ENUM has its texts in the order of the values; the
position of a value is its `Rank`, the number of keys up to it, and ranks tell
values apart.  For a COPY the values are `0 .. n - 1` and ranks are positions.

### Cells

`DtaValuesProofs` proves about `DtaValues`, for every value of each type and
every text:

| Theorem | States |
|---|---|
| `CellsInvariant` | `Spec => []VInv` |
| `CellsReadBack` | `Spec => []ValuesSurvive` |
| `TimestampsReadBack` | `Spec => []TimestampsKeepMilliseconds` |
| `RejectedCellsHaveRemedy` | `EnumsFit` implies `Spec => []RejectionHasRemedy` |
| `ForeignTextsAreShown` | `Spec => []TextsAreShown` |

`IntSamples`, `DoubleSamples` and `MicroSamples` may be any sets of numbers here,
and the limits any that are related as the real ones are (`ValuesAssumption`):
2^63 is less than 2^10 times 2^53, a timestamp of 64 bits has less than 2^54
milliseconds from 1960, no date or 64-bit integer, signed or not, is as large as a missing double.
The widths of 8, 16 and 32 bits are the real ones.  `EnumsFit` says that
an ENUM has at most 2147483621 values; with more, the last positions would be
missing values of a long, and rejected.

The properties speak of the value read; `VInv` speaks of every value that could
be read from the cell as it was written (`Readings`), among them all outcomes of
sums that overflow, and says that each is right for the value written (`Right`).
The lemmas follow the encodings: an integer that is accepted lies below the
missing values of its code, so it is stored as itself and decoded as itself
(`StoredAsIs`); a double is the value or, past 2^53, within half a spacing of it
(`ToDoubleNear`, `ToDoubleExact`, `SpacingFacts`), which is why a `BIGINT` or
`UBIGINT` may change and a date may not; milliseconds are cut towards 1970, held exactly up to
2^53, and times 1000 they fit into 64 bits again (`InMicrosExact`).

Texts come next.  `TInv` says of a text of another program's file what `VInv` says
of a copied value: the cell as written is shown as what it means.  Swapping the
bytes of a number undoes the order of the file (`OrderFacts`, `SwapFacts`), so that
cell, strL and key agree on one reference; the bytes of it that a format keeps tell
two references apart (`KeysTellApart`), though 117
keeps four bytes of the observation, 119 five and 118 six; and so the strL found is the cell's own, whichever of
the two of the file comes first (`FindsItsStrL`, `CellFindsItsStrL`).  COPY is the
case of format 119.  For characters, `TextAssumption` says that the two
encodings of a text have the same ones; the pair of bytes that the reader makes of
one is the only one with its bits (`Utf8Facts`), a text that needs no transcoding
is the same in both (`FlattenBytes`), and one without a NUL has none in either
(`FlattenKeeps`), so that a `str#` field ends where its text does.

### Induction

The library's induction rules take a predicate as a parameter and cannot be
used.  `ProofLemmas` has first-order forms: a set of numbers that is not empty
has a least element (`LeastExists`), and a set that has 0, and with a number the
next, has all numbers (`SetInduction`).  A proof by
induction names the set of the numbers for which its claim holds.  That is how a
function that runs over columns (`Register`), a sum of widths or the
concatenation of any number of texts is dealt with.

### Only model-checked

Liveness (`EveryTaskReturns`, `ScanCompletes`, `CopyEnds`, `OpenEnds`): it needs
fairness and so `ENABLED`, out of reach of the prover.

## Not modelled, and why

- Registration, the replacement scan, build files: no state.
- The names and label texts of a file are transcoded by the operators of
  `DtaText`, but in `DtaOpen` and `ValueLabels` that is left out.  Names and texts
  matter there in three ways only, which are modelled: which table has the name of
  a column, where a text has its NUL, and whether two texts are the same.
- A machine that stores numbers in the other byte order.
- Display formats and variable labels, which the reader keeps and does not act
  on; only their length moves the handle.
- A scan the engine abandons early (LIMIT): its chunks are a prefix of those
  modelled, for which all safety properties hold.
- A power cut that reorders writes the system has not flushed: `Sync` comes
  only after the last of them, and the model has the order of the calls.
- A file that changes between bind and scan, and temporary files of the engine.
- `DECIMAL` and `HUGEINT`: COPY converts them to double, and they are doubles from
  there on; the conversion itself is arithmetic with no case of its own.

## Plan

Done: the scan, opening files of all formats, COPY and the writer, value labels,
cells and texts, each modelled and checked; and the proofs about all of them but
for the list above.  Left: files with any number of strLs in the proof about
texts, where `ForeignStrL` has two.
