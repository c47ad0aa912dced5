# gnaro in TLA+

`gnaro` is a small database in C: a read-eval-print loop, one table of rows
`(id, username, email)`, a B-tree in 4096-byte pages, a page cache that is
written to one file when the session ends. This directory holds TLA+ modules
translated from that code, TLC runs that check them on small instances, and
proofs about them for every instance.

Paths of the program are given from the repository root (`src/btree.c`,
`include/btree.h`, ...).

## 1. The system

| part | code | state it keeps | operations |
|---|---|---|---|
| B-tree | `src/btree.c`, `include/btree.h` | the bytes of the pages: node type, root flag, parent, counts, links, cells | find in a leaf, find in an internal node, insert into a leaf, split a leaf, new root, insert into an internal node, split an internal node, print |
| Cursor | `src/cursor.c` | page number, cell number, end-of-table flag; lives within one statement | `cursor_start`, `cursor_find_key`, `cursor_advance`, `cursor_value` |
| Statement execution | `src/statement.c` | none | `statement_execute_insert`, `statement_execute_select` |
| Statement preparation | `src/statement.c` | the statement being filled in, on the stack of `main` | `statement_prepare` |
| Pager | `src/pager.c` | the file, its length at opening, `num_pages`, the array of cached pages | open, get a page, flush a page, next unused number |
| Database | `src/database.c` | the pager, the number of the root page (always 0) | open, close |
| Loop | `src/gnaro.c` | the input buffer, the database | dispatch of a line, cleanup |
| Input | `src/input.c` | one line | read, free |
| Meta commands | `src/meta.c` | none | `.exit`, `.btree` |
| Row | `src/row.c` | none | serialize, deserialize, print |
| Command line parser | `lib/argtable/argtable3.c`, table and decisions in `src/gnaro.c` | the copy of the words, the next word, the operands skipped, the values and counts of each entry, the errors | `arg_parse`, `getopt_long`, `permute_args`, scan, check and error functions |
| Usage and option text | the same file | the text put together, one flag per bracket | `arg_print_syntax`, `arg_print_glossary`, `arg_cat_option`, `arg_cat_optionv` |
| Dynamic strings | the same file | the text, its owner, the append buffer | set, reset, free, cat, catc, catf |
| Wrapped text | the same file | begin and end of the line | `arg_print_formatted_ds` |
| Hash table, command registry | the same file; the program does not use them | buckets, chains, iterator | insert, search, change, remove, iterate; register, unregister, look up |
| Other option types | the same file; the program declares none | | numbers, dates, files, regular expressions, sort |
| Log | `lib/log` | level, callbacks | messages that decide nothing |
| Tests | `tests/gnaro_test.c` | | one assertion, `1 == 1` |

How they interact: the loop is one thread that runs a statement to its end
before it reads the next line. A statement makes a cursor, the cursor asks the
pager for pages and the B-tree for positions in them, an insert rewrites pages
in place in the cache. All calls are synchronous and share the cached pages by
pointer. Nothing reaches the file before `database_close`; every internal error
is `exit(EXIT_FAILURE)`, which skips it.

Before the loop, `main` hands its words to the parser with a table of four
entries and decides between the usage, the errors and a session. The parser
puts together what it prints in dynamic strings. `lib/argtable` is vendored but
compiled into the program as one file of 6000 lines, most of what is executed
before a session begins, so its state machines are modelled like the rest.

What is hard here is not concurrency inside the program, for there is none. It
is

* long sequences of inserts: the interesting paths need several splits in the
  right order, and the one test of the repository asserts `1 == 1`;
* page fields that keep old content: pages come from `malloc`, the root changes
  its type in place, counts are raised before the room is checked, cells are
  read before they are written;
* boundaries: a leaf or a node exactly full, key 0, page number 0 used as "no
  page", the subtraction of unsigned counts;
* the end of the process between two statements or in the middle of one, with
  everything since the last orderly close in memory only.

What makes each part correct:

* B-tree: the pages are one tree, each page reached exactly once, parents name
  their parents; nodes are sorted; a separator is the greatest key on its left;
  the leaves are chained once each, in order; a stored key is found; no insert
  into a tree with room ends the process; unwritten bytes decide nothing (but
  for the one cell of section 5 that is read before it is written).
* Cursor and select: a scan prints every row once, in order, and ends.
* Insert: adds exactly one row, or refuses exactly a stored id.
* Pager and database: a close that writes every page whole saves the session; an
  end before the first page is written leaves the file as it was, and a close that
  is cut short replaces its first pages only; a page is loaded as it was saved.
* Loop, preparation, input: every line gets one answer, refusals change
  nothing, and what is stored is what was typed; with status 0, and no write that
  fell short, the file is the session.
* Parser: whatever order the words come in, it finds what a reader from left to
  right finds; operands end up last, no word is lost, the arrays hold what is
  put into them, every error is told, and it ends.
* Texts: nothing is written outside of a buffer, brackets match, words are
  neither lost nor doubled by wrapping; every block of memory has one owner.
* Hash table: every entry is in one chain, the right one, through growth and
  through removals under an iterator.

The hazards, each at its line with the properties that watch it, are in
`PROJECT.json`.

## 2. The modules

| module | what it is |
|---|---|
| `Node` | pages as nodes, the fields read from them, the searches within one node; operators only |
| `NodeSearch` | the loops of the two binary searches, turn by turn |
| `CellLoops` | the loops that shift cells and divide a full leaf, turn by turn |
| `BTree` | the database over sessions: open, insert, select, close, kill |
| `Table` | the abstract promise of `BTree`: a bag of rows, saved as a whole |
| `Pager` | the page cache, and opening and saving the file page by page |
| `PageStore` | the abstract promise of `Pager`: numbered pages, each saved as a whole |
| `Statement` | a line, the statement it is taken for, the bytes of a row; operators only |
| `Repl` | the loop over `BTree`: lines, answers, the close page by page, exit status |
| `CommandLine` | the argument parser, word by word and letter by letter |
| `Main` | the table of options and what `main` does with the outcome |
| `Permute` | the exchange of two blocks of words in place |
| `OptionText`, `Usage` | the text of one option in its buffer; the usage line and the glossary |
| `Bytes`, `DStr` | C strings in memory; the growing strings |
| `Formatted` | the wrapping of a text into a column |
| `HashTable`, `Registry` | the hash table with its iterator; the commands kept in it |
| `Commands` | the abstract promise of `Registry`: a function from names to procedures, and a walk over it |
| `MCTrees`, `MCBTree`, `MCNodeLoops`, `MCNodeSearch`, `MCPager`, `MCRepl`, `MCCommandLine`, `MCArgtable` | what TLC instantiates: inputs, workloads, refinement mappings |
| `MCPromises` | statements of the source that the program does not keep |
| `BTreeProofs` | proofs about the shape of the tree; it extends `BTree` |
| `BTreeOrderProofs` | the order of its rows, the chain of leaves, searches and scans; extends `BTreeProofs` |
| `SessionProofs` | the refinement of `Table`, and the prompt; extends `BTreeOrderProofs`, `MCBTree` (for the mapping) and `Repl` |
| `PagerProofs` | the page cache and the refinement of `PageStore`; extends `MCPager` |
| `NodeLoopsProofs` | the loops within one node; extends `NodeSearch` and `CellLoops` |
| `CommandLineProofs` | the parser; extends `Main` |
| `RegistryProofs` | the hash table and the registry of commands; extends `MCArgtable` |
| `ArgtableProofs` | the exchange of two blocks, wrapped text, growing strings and the text of an option; extends `RegistryProofs` |

What is composed with what: `BTree` extends `Node`; `Repl` extends `BTree` and
`Statement`, so a line goes through preparation into the tree and, at `.exit`,
into the file; `Main` extends `CommandLine`; `DStr` and `OptionText` extend
`Bytes`; `Registry` extends `HashTable`. `MCBTree` instantiates `Table`, `MCPager`
`PageStore` and `MCArgtable` `Commands`, each with a mapping from the state of the
detailed module. Some modules look into one step of another: `NodeSearch` and
`CellLoops` into the node operations of `BTree`, `Pager` into its `Open` and
`Close`, `Repl` into its `Close`, and `Permute` into the exchange of `CommandLine`.

### Node

A page is a record. `num` is `num_cells` of a leaf and `num_keys` of an internal
node, `link` is `leaf_next` and `right_child`: these pairs have the same offset
in `include/btree.h`, so a page read as the other type yields exactly the field
of the model. `cells` are the keys of a leaf's cells (the id stands for the
whole row, since nothing else in a row takes part in a decision), `kids` and
`seps` the child and key of the internal cells. The code never clears a page,
and neither does the model: `FreshPage(w)` has an arbitrary word `w` in every
field, `LeafInit` and `InternalInit` set only what the C functions set, cells
past the count keep what they held.

Two overlaps of leaf layout and internal layout can be observed, and are in the
model: the first child pointer of an internal node is where a leaf has the key
of cell 0 (`LeafKey`), and the unused cells of a root that was a leaf hold text
of that leaf's rows (`RootCells`, an arbitrary word).

### BTree

| variable | code |
|---|---|
| `db.pages`, `db.num_pages` | `pager->pages`, `pager->num_pages`, the cache with the file behind it |
| `db.fate` | `"runs"` while the process has the database open; `"closed"` after it ended in order or was killed; `"exits"` after `exit(EXIT_FAILURE)`; `"outside"` after an access past the array of the pager, which is undefined and not followed further; `"recurses"` when a function calls itself more often than the model follows |
| `disk` | the file as the last close that wrote every page whole left it |
| `reply` | what the loop reported for the last statement, and the rows a scan printed |

| action | code |
|---|---|
| `Open(w)` | `database_open`, `pager_open` |
| `Insert(key, w)` | `statement_execute_insert` and everything below it |
| `Select` | `statement_execute_select` |
| `Close` | `.exit`, or the end of input: `database_close` |
| `Kill` | the process ends between two statements (external) |

A statement is one action because no other thread sees it half done, and
because a statement cut short leaves nothing behind: its pages are in memory
only. Inside it, `d1`, `d2`, ... follow the calls of the C code in their order,
each operator taking a database and yielding the one that is left. `Insert` goes
`LeafInsert` - `LeafSplitAndInsert` - `NewRoot` or `InternalInsert` -
`AddChild` or `SplitAndInsert`, which are the functions of the same names. The
position in a leaf that holds a key several times is any of its cells, as the
binary search stops at the first hit. `w` is the content of the memory the
statement allocates or uncovers.

The recursion of `cursor_find_key` / `btree_node_internal_find` and of
`btree_node_get_max_key` is followed for two levels; `TreeShape` shows that
there are no more, since the first internal split never returns. The recursion
of `btree_node_internal_split_and_insert` is followed for two calls, and
`NoRunaway`, checked and proved, shows that a third one is never made.

### Table

`rows`, `saved`, `up`, `reply`, and the actions `Start`, `Add`, `Reject`, `Show`,
`Stop`, `Die`. It promises what the program really delivers: no row is lost or
doubled by a split, an answer says what was done, an orderly end saves
everything and any other end nothing; while the rows fit one page an id is
refused exactly if it is stored. Beyond one page the program refuses and accepts
ids wrongly (section 5), so `Table` leaves that open there. It never lets a scan
show a row more often than it is stored, and demands that it shows all rows in
order as long as the ids are different.

### NodeSearch

`node` and `key` are the arguments, `min_index` and `max_index` the two indices of
the loops, `Hit`, `Left`, `Right`, `Return` the branches of one turn. `Node` and
`BTree` use only the result (`LeafPositions`, `FindChild`); `Correct` says that
the loops end there.

### CellLoops

`page` and `fresh` are the two pages, with arbitrary cells beyond the count, `i`
the loop counter, `before` the cells when the loop began. `ShiftCell` and
`PutCell` are the shift of `btree_node_leaf_insert` and, with the same bounds, of
`btree_node_internal_insert`; `MoveToNew`, `MoveWithinOld` and `Divided` the loop of
`btree_node_leaf_split_and_insert`, which reads and writes the old page from the
top down. At the end the cells are those of `before` with the new one among them
(`AllInOrder`), which is how `BTree` takes them. The counter of a split
is signed and ends below zero, as in the code.

### Pager

| variable | code |
|---|---|
| `file` | the bytes of the file, in units; a unit is known by the session that wrote it |
| `pager` | `file_length`, `num_pages` and `pages` of the `Pager` |
| `phase`, `closing` | where `main` is, and the loop counter of `database_close` |
| `before` | history: the file when the session began |

`Open` and `Refuse` are `pager_open` for a file of whole pages and for another one,
`Look` and `Change` a page that is read or written through `pager_get_page`
(loaded if it is not in the cache), `FlushPage` one turn of the loop of
`database_close`, in which a write stores all of the page or, with
`ShortWrites`, some first units of it, `SkipPage` a page that was never loaded,
`Die` the ends: a failed seek or write, and a kill at any time. `LeaveArray` is the
access past the array that `pager_get_page` lets through; what happens then is
undefined and the model goes no further.

### Statement and Repl

A line is its words, and a word what the program can tell about it: the keyword
it begins with, the number `strtol` finds in it, its length. `Buffer` cuts off the
last character as `input_read` does; `Prepare` is `statement_prepare` with its
order of refusals; `Atoi` takes the ends of `long` and then the low bits of it, as
the C library does. `RowSerialize` and `RowPrinted` are the two copies of
`row.c` with `strncpy`, and show that texts come back whole.

`Repl` has one action for each way a line can go (`Meta`, `Exit`, `NotPrepared`,
`ExecuteInsert`, `ExecuteSelect`), for the end of the input (`EndOfInput`), for a
database that cannot be opened (`CannotOpen`, in which the process dies of a
signal) and for a kill at any time (`Killed`).

The last line begins the close: `Cleanup` is `database_close` up to its loop,
`FlushPage` one turn of that loop, which writes one page to the file or, when the
write falls short, some part of it (`Torn`: not a page the tree could read),
`FinishClose` what comes behind the loop, with status 0, and `TransferFails` a seek
or a write that fails, which ends the process with status 1 wherever the loop is.
`file` is what the pages of the file hold, `saved` how many were written whole,
`short` whether a write fell short; a page that is not in the cache is in the file
already, as `Pager` shows, so writing every page of `db` is what the loop comes to.
`status` is what the shell sees, `reported` what the messages promised, `found` the
file the session began with. `disk` follows `file` only when a close wrote every
page whole, and a session begins only on such a file. An insert that leaves the
array or calls itself too often ends with status 1 or with a signal, whatever comes
first (`Aftermath`).

### CommandLine, Main and Permute

`argv`, `optind`, `place`, `nonopt_start`, `nonopt_end` are the variables of
`getopt_internal`; `count`, `sval` and `errors` what the scan functions fill in;
`tentative` and `tabindex` belong to the second pass over the words that are no
options. A step is one turn of `getopt_internal` (skip an operand, enter a word,
one letter of it, a long option) together with what `arg_parse_tagged` does with
its result, or one turn of `arg_parse_untagged`, or the check of all entries.
Words are sequences of characters because options can be run together,
abbreviated and joined to their value. `Exchange` is what `permute_args` yields;
`Permute` follows its cycles and its `gcd`, one assignment at a time. `Main` has the
table of `gnaro.c`, in which long names are abbreviated in a way that keeps which
of them begin alike, `Decide`, and the three error functions.

### OptionText, Usage, Bytes, DStr, Formatted

`OptionText` builds the text of one option by the very calls of `arg_cat_option`
and `arg_cat_optionv`: `arg_cat`, which moves a pointer and a count, and
`strncat`, which does not. `Usage` has the three loops that put the usage line
together (`MandatorySwitch`, `OptionalSwitch`, `OtherOption`) and the glossary; a
text is the sequence of brackets, separators and entries in it. `DStr` has a heap,
`mem`, from which blocks are taken and given back, and one action per function of
`arg_dstr_t`; `arg_dstr_catf` is a loop, `Catf`, `CatfAgain`, `CatfEnd`.
`Formatted` is one turn of the outer loop of `arg_print_formatted_ds` per step.

### HashTable, Registry, Commands

`h` holds the chains as they are linked, entry by entry; growth, removal through
the iterator and its correction of the parent pointer follow the code link by
link. The hash function is a constant. An iterator is used until something is
inserted or removed beside it, which is all the library allows. `Registry` is
`arg_cmd_register` and its siblings, which remove an old entry before they
insert the new one; `Commands` is what their callers see.

## 3. The runs

| run | what it shows |
|---|---|
| `trees` | one session of inserts under two workloads (`MCTrees`): four ids again and again with different words in unwritten memory, ten different ids in every order up to the full tree. `TypeOK`, `TreeShape`, `OneChain`, `AllSorted`, `SeparatorIsMax`, `SearchFindsRow`, `ScanIsComplete`, `NoRunaway`, `ExitOnlyWhenFull`; `GarbageNeverDecides`: in each of these trees every id is inserted with each word, the invalid page number among them, in all the places earlier pages have left unwritten, and each word of `Words` in the pages the insert asks for, and the outcomes are compared |
| `sessions` | `ImplementsTable`: refinement of `Table` over sessions of inserts, scans, closes, kills and exits; also that there is no deadlock |
| `node_loops` | `Correct` and `Terminates` for both searches on every small sorted node; `AllInOrder` for every shift and every division of a leaf |
| `pager` | three sessions with kills and failures anywhere. With short writes: `TypeOK`, `OldOrNew`, `CachedOrSaved`, `UnusedIsNew`, `CacheIsFaithful`; on a disk without them `ImplementsStore`, the refinement of `PageStore` |
| `prompt` | sessions at the prompt, closed page by page with kills, failures and short writes in between. `StatusTellsSaved`: after status 0, if no write fell short, the file holds the rows it held and those that were reported, neither more nor less; after any other end it is what the session found if no page had been written yet. `CutShortIsATree`: what the file holds while a close without short writes is under way, which is what a kill or a failure leaves, is a tree with every row it held before and none but those reported since, as long as the session added no page. `StoredAsTyped`: ids in the range of `int` and texts that fit their columns are stored, and read back, as typed; `ReplTypeOK` |
| `options` | the parser and `main` on every combination of a few words: `OptionsAsTyped` and `OperandsLast` against a second reading of the words from left to right, `ParserIsSound` (types, no word lost, no empty block exchanged, arrays within their bounds), `NoErrorIsComplete`, `EveryErrorIsTold`, `Terminates` |
| `argtable` | the parts below the parser, one at a time (`MCArgtable`): `TypeOK`, `StaysInside`, `Exchanged` of `Permute`; `UsageTellsTheTable`, `OptionTextIsWhole`, `StringIsSound`, `ParagraphIsWhole`, `TableIsSound` of the modules these names tell, each a conjunction of the properties stated there; `EveryLoopEnds`; `ImplementsCommands`, the refinement of `Commands` by `Registry` |
| `duplicate_stored`, `refused_is_stored`, `scan_starts_leftmost`, `grows_to_max_pages`, `invalid_child` | counterexamples, section 5 |

Three runs look at several independent questions at once (`trees`, `node_loops`,
`argtable`): a variable without next-state changes of its own (`workload`,
`part`, or which of two initial states) says which one a behaviour is about, and
the parts do not touch each other's variables.

Every property of a passing run has a mutant: a changed definition, beside the
one it changes and marked as such, under which TLC finds the property violated.

### Bounds

Trees and sessions:

* `LeafMaxCells` is 3; the build has 13. The code uses it only as the limit of
  `num_cells` and, through the split counts, as the place where the cells are
  divided. 3 is the least value for which the two halves have two cells each, so
  that there are cells before and after every position in both. The proofs of
  section 4 hold for every value from 3 on.
* `InternalMaxCells` is 3, as in the build; `PagerMaxPages` is 100, as in the build.
* Ten rows fill the tree when leaves have 3 cells and there are 4 of them
  (splits leave 2 in each): 4 to 10 ids reach every tree, including the insert
  that ends the process. The workload with repeated ids needs fewer.
* `InvalidPage` is 999 instead of `UINT32_MAX`, as TLC's integers have 32 bits
  with a sign. It only needs to differ from page numbers and from other words.
* `Words`, the content of unwritten memory: in `trees` 2, which is among the page
  numbers and ids, and 100, the one number that passes the check of the pager and
  lies past its array; `GarbageNeverDecides` adds the invalid page number, 999.
  Elsewhere one word is enough: 200 is above every page number, so a step that
  takes it for a page ends the process, 0 is the least.
* `MaxKeyInNode` is the greatest of three keys in a searched node; the searched
  keys lie below, between, on and above them. Leaves have up to 5 cells there.
* `MaxCells` of `CellLoops` is 4, so that a split has both an even and an odd place
  to divide at; a cell holds one of two values, enough to see any cell that was
  overwritten too early.

Pager: pages of 2 units (a write can store nothing, half or all), an array of 3
pages (`MaxPages`) and callers that ask for up to 4 (`CallerPages`), so that the
first number outside of the array occurs; 3 sessions: one that leaves a file half
saved, one that finds it, one that finds what that one made of it. Where writes
are whole 2 sessions (`MaxWhole`) are enough for the refinement.

Prompt: an `int` of 4 bits and a `long` of 6 (`IntMax` is 7, `LongMax` 31) put all
four ends of the two ranges within reach; columns of 2 and 3 characters; up to 5
lines over as many sessions as one likes (`MaxShort`), or 14 lines (`MaxLines`) of
inserts, which fill the tree, and after them sessions of 2 lines over a file of up to
4 pages (`MaxFound`), so that closes over a tree of several leaves are cut short.

Options: words of up to 6 characters from 10, up to 3 words from 12 and 4 from 8
with the table of the program, up to 4 from 7 with another one. Four words are two
operands between options twice over, the least for a second exchange that shifts
the first. `MaxErrors` is 2 instead of 20: an error that replaces another one takes
three.

Parts: vectors of 9 words; tables of up to two entries, or three switches; a
buffer of 14 characters against texts of up to 16; strings of up to 4 characters
(`MaxText`) on a first buffer of 1, a first append buffer of 4 and three blocks of
memory; paragraphs of up to 6 characters (`MaxParagraph`) in a column of 3; tables
of 1, 3 and 5 buckets with up to 5 entries (`MaxEntries`) under 3 keys, two of which
always share a bucket, so that a table grows twice and is then filled beyond its
limit.

`CHECK_DEADLOCK FALSE` stands where a program ends: `trees` makes inserts until
the process has ended or the ids are used up, a search returns, a parser or a
loop comes to its end, and the bounds on lines and sessions stop the rest. Only
`sessions` goes on for ever, and there deadlock is checked.

### Fairness

A loop of a single-threaded program waits for nothing, so it takes the next turn:
`WF_vars(Next)` for `NodeSearch`, `CommandLine` with `Main`, `Permute` and
`Formatted`, and for the loop of `arg_dstr_catf` alone in `DStr`. The other modules
have none, since nothing makes a client type the next line or a caller append the
next text; they state no liveness. That the statements of `BTree` end is
`Terminates` for the searches, `OneChain` for scans and `NoRunaway` for the one
recursion whose depth is not that of the tree; the last two are proved. `CellLoops` counts down.

`Terminates` of `CommandLine` leaves out one kind of word, which the parser reads
for ever (section 5).

## 4. The proofs

Checked with TLAPS for all values of the constants.

Assumptions: `NodeSizesAssumption` (a leaf holds at least as many rows as an
internal node cells; the numbers are naturals), `BTreeAssumption` (the pager
handles more pages than the root, the children of a full root and the two that
its split asks for, the invalid page number is not a page number, ids and words
are naturals, there is some word), `NodesAssumption` (the searched nodes are pages, sorted, and within the limit),
`CellLoopsAssumption` (a page holds a cell), `PagerAssumption` (a page and the array
are not empty; what `malloc` returns is told from what a gap in the file holds),
`StatementAssumption` (`INT_MAX` and `LONG_MAX` are naturals, the second no smaller;
no column is empty), `ReplAssumption` (the lines are lines, and every id an `int`
can hold that is not negative is among the ids of the tree), `CommandLineAssumption`
(tables and words have their types, an entry without options takes a value, and
there is room for an error),
`PermuteAssumption` and `ArgtableAssumption`. All of them are true of the build, and TLC evaluates them on the
instances. `InternalMaxCells` is 3 everywhere: it is a definition of `Node`, as it
is one of `include/btree.h`.

**`BTreeProofs`.** `TreeShape` is not inductive. To know that the page number of
a new leaf is not in use, one needs to know how many pages there are; to know
that its greatest key is one of its cells, that the leaf has as many cells as it
counts; and to know that the insert survives, that no unused cell of the root
holds the invalid page number. `Sound` adds these three: `n` pages, which are
either a single leaf (`RootLeaf`) or a root with `n - 2` cells whose children
are exactly the pages `1 .. n - 1` (`RootNode`), each of them `BelowRoot`. `Inv`
says that of the open database and of the file.

An insert that ends the process, or leaves the array of the pager, loses the session
(`Lost`): the open database is gone and `Inv` speaks of the file alone.

Along the calls of the code: each operator gets a lemma on what it yields from
sound pages (`SplitLeafResult`, `NewRootOfLeaf`, the two ways `AddChild` fills a
cell, ...); `LeafInsert` keeps `Sound` or ends the process, and ends it only in
a full tree; the recursion of the split keeps the process from ever coming back,
so nothing has to be known of the pages it leaves. Then one step for each action
(`Inductive`) and

* `AlwaysSound`: `Spec => []Inv`;
* `TreeIsKept`: `Spec => []TreeShape`;
* `PagesAreOK`: `Spec => []PagesOK`, the part of `TypeOK` about the pages;
* `RecursionEnds`: `Spec => []NoRunaway`. The first call of
  `btree_node_internal_split_and_insert` either ends the process or calls itself on
  a half with two cells; the second call moves the right child of that half away
  and then asks for its child number 2, which is the right child and by now the
  invalid page, and that ends the process;
* `SurvivesWhileThereIsRoom`: if `InvalidPage` is not among `Words`, then
  `Spec => ExitOnlyWhenFull`. The condition is needed: see `invalid_child`;
* `GarbageIsHarmless`: `Spec => []GarbageNeverDecides`. Two databases that differ
  only in words nobody wrote (`Refilled`: the internal cells past the count of a
  root, those of a leaf, which may become a root, and the parent of a root) are
  `Alike`. An insert is followed through both of them, each with words of its own for
  the pages it asks for: a split leaves them alike (`SplitsAlike`), so does a
  new root (`HeightenedAlike`), and whether a node takes a child is decided by its own
  cells and the greatest keys of two leaves (`AddChildAlike`), except where the word
  the child overwrites is the invalid page number, which ends the process. The theorem
  says so: an outcome differs in that case only. No condition on `Words` is needed.

**`BTreeOrderProofs`.** With duplicates the order of a textbook does not hold: a
split whose halves end in the same id may put the upper half to the left of the
lower one, and ids below a separator then stand to its right. What is left,
`InOrder`, is inductive: every leaf is sorted; a separator is the last cell of the
leaf on its left; separators ascend; and of a leaf's cells fewer than a lower half
holds lie below the separator on its left, so that the greatest cell of neither
half of a split falls below it. Searches, insert, split and the new cell of the
root each have a lemma on sequences, without pages, and one that applies it.
`AlwaysOrdered` is `[]OrderInv`, that the pages in memory and in the file are
`Sound` and `Ordered`; from it `SearchesAreSound` (`AllSorted`) and
`SeparatorsAreGreatest` (`SeparatorIsMax`).

The second half of the module is about the chain of leaves. `Threaded` says that there is an enumeration of the leaves
in which `link` leads from each to the next one. A split puts the new leaf behind
the old one, so given `Sound` it is inductive by itself.
That the enumeration runs from left to right is true only as long as no id is
stored twice, and `LinedIfDistinct` claims no more: equal ids, once stored, stay
stored, so nothing has to be known of what comes after. `LeafChain` and the
flattening of a sequence are recursive functions; as a tree has at most four
leaves they are unfolded as often as that, and `Joins` and `Drawn` say what the
flattened sequence holds: each of its places is a cell, a different one for each.
`AlwaysChained` is `[]ScanInv`; from it `ChainIsWhole` (`OneChain`), `TypesAreOK`
(`TypeOK`, with the rows of a scan), `EveryRowIsFound` (`SearchFindsRow`) and
`ScansPrintEveryRow` (`ScanIsComplete`).

**`SessionProofs`, the table.** `PagesAreATable`: `Spec => ImplementsTable`. `Copies`
counts the cells with an id, and moving cells about does not change the count
because each insert is a bijection from the cells before it to the cells after it
without the new one (`OneMore`): within a leaf, to a new leaf, and to another page
when the root is raised (`RowInLeaf`, `RowInHalves`, `GrownIsOneMore`). `Table`
promises the right answer to duplicates while all rows fit on one page; to know
that the tree is then a single leaf, `TableInv` adds to `ScanInv` that a tree with
two levels holds more rows than a page (`Kept`). The rows a scan shows are no more
than are stored by `Drawn`, and complete by `WholeScan`.

**`SessionProofs`, the prompt.** A step of the prompt is a step of `BTree` or leaves it alone, so
`TableInv` holds here too. `ReplInv` adds two things. `Understood`: `prepared` comes
from the last line. `Accounted`: while the process runs the pages hold what the
session found and a row more for each one reported, and the file is what it found
with the first `saved` pages replaced by those of the session, as long as no write
fell short (`Saving`, `WrittenUpTo`). Before the close nothing is replaced
(`NothingWritten`), a turn of its loop replaces one page more (`OneMoreWritten`), and
behind the loop all are, so that the file is the session (`AllWritten`); for that a
session must not have fewer pages than it found (`GrownIsMore`). With this
`StatusIsTrue` (`StatusTellsSaved`) follows from one lemma for each way a process
ends: in order (`FinishKept`), or broken off at any place (`BrokenOffKept`).
`LinesAreKept` (`StoredAsTyped`) is arithmetic: an `int` is itself modulo the number
of its values, a line with its newline is read as it is, and a text that fits
leaves its column a NUL, behind which nothing is printed. `PromptTypes` is
`ReplTypeOK`.

**`NodeLoopsProofs`.** Of the searches the invariant is the usual one: what lies left of
`min_index` is below the key, what lies from `max_index` on is not. Cardinalities
of the two sides give `SearchIsCorrect` (`Spec => []Correct`) for nodes of every
size; `SearchStaysInside` is `TypeOK`, and `EachTurnNarrows` the action property
that explains why the loop ends.

The invariant of the copying loops says what the two pages hold at counter `i`: cells above `i` are where they belong, cells up to `i` are still those
of `before`. That the lower ones are untouched is what makes the direction of the
loop matter. From it `TypeCorrect` (no turn leaves the page), `OrderKept`
(`AllInOrder`) and `UpperPlaced` (the remainder modulo the left
count is the place behind it), for pages of every size.

**`PagerProofs`.** `IInv` is a conjunction of seven parts. `FileFits` (the file
never has more pages than the array), `FileAsFound` (until the close begins the
file is what the session found) and `CachedAsFound` (a cached unit is the
session's own or what the file had then) are the strengthening; without the second
nothing could be said of a page that is loaded late, without the third nothing of
what a flush leaves. `CachedOrSaved`, `UnusedIsNew` and `OldOrNew` are inductive
together with them. Theorems for every size of a page and of the array and any
number of sessions, with short writes: `PagesFit` (`TypeOK`), `NothingSkippedIsLost`,
`NewPagesAreNew`, `KillMixesOnlyOldAndNew` (`OldOrNew`) and `SessionSeesTheFile`
(`CacheIsFaithful`). `PagesAreStored` is `ImplementsStore`, the refinement of
`PageStore` on a disk without short writes; `WholeInv` is what such a disk adds: the
file ends with a page, a page that is not cached is one of the file, and the loop
of the close has dropped every page it has passed.

**`CommandLineProofs`.** `ParserInv` holds for every table, all words and every
size of the array of errors (`ParserInvariant`). Three parts are the strengthening.
`BehindOperands`: skipped operands lie before the next word, and a block of them
ends before it, or at an option that is still being read; the exception is the
dash that `LoneDash` leaves behind, which is an option, so that no exchange comes
between. Without it nothing forbids an exchange of empty blocks. `ErrorList`: an
error belongs to an entry exactly when it is about a count, and only the last place
may tell that there were more. `EntriesChecked`: the words are used up when the
checks begin, and as long as there is no error the entries passed have enough.
That an exchange loses no word is a bijection between the places of a word
before and after it (`ExchangeIs`, `ExchangeKeeps`). Which entry an option belongs
to is a least number (`Min`); that there is one (`LeastNumber`) follows from the
well-foundedness of finite sets under inclusion, for the intervals up to the
numbers. From the invariant `StaysWithinArrays` (`ParserIsSound`),
`AcceptedIsComplete` (`NoErrorIsComplete`) and `ErrorsAreTold` (`EveryErrorIsTold`).

**`RegistryProofs`.** A table is sound when there is a family of sequences, one
for each bucket, such that the pointers of a bucket thread its sequence, no entry
is in two of them or twice in one, and each entry is where its key is hashed to
(`WellMade`). The family is what makes the recursion of `ChainFrom` have a value:
along pointers in a circle it would have none. Every operation turns a family into
another one: an entry in front of a sequence (`ThreadedPush`), an entry out of it
(`ThreadedLess`), or, when the table grows, all of them dealt out anew, entry by
entry (`ExpandedMade`). `ItrAt` says that the iterator is at a place of a sequence
and knows the entry in front of it. `TableIsKept` is `PartsSpec => []TableIsSound`.

`RegistryKeepsItsPromise` is `PartsSpec => ImplementsCommands`. The strengthening is
`OneEntryEach`: no two entries have the same name, because `Register` removes before
it inserts. What a walk has still to come to is `Ahead`, the entries behind its
place in its sequence and those of the buckets behind; an advance takes exactly
one of them away (`WentOn`). The order of a chain does not matter.

**`ArgtableProofs`, exchanging blocks.** `DivisorInBounds`: the divisor is never
zero and no greater than the second block. `WordsOutsideStay`: the words in front
of and behind the two blocks are not touched. `BlocksExchanged` is `Exchanged`, for
vectors of every length. While the divisor is sought, `Divisors` says that both
numbers are combinations of the lengths and that whoever divides them divides the
lengths; so when it is found, the lengths are `b * s` and `b * t`, and one is a
combination of `s` and `t` (`Quotients`, which is Bézout's identity). A word of the
blocks is place `p` of class `c`, one of `b`. A cycle stays in its class, and the
places it comes to after `k` steps are apart for different `k` and leave none out
(`ReachedApart`, `ReachedAll`): each because one is a combination. `HalfWay` is the
invariant of one cycle: the places it reached have their words, the others still
the old ones, and the start of the cycle holds the word for the next.

**`ArgtableProofs`, wrapped text.** `ParagraphInv` says of each line that it is
no wider than the column, has no newline within and ends at a space, a newline, the
end of the text or in a word with no room in a line (`GoodLine`), that lines do not
overlap, and that what is not a space up to `line_start` is in one of them (`Printed`).
`NoWordIsLost` is `ParagraphIsWhole` for every text and all margins.

**`ArgtableProofs`, growing strings.** `StringsReadAsWritten` is `StringIsSound`. A
buffer holds a text when the text and a NUL are at its front (`IsText`); of an append
buffer all that follows is NUL as well (`Padded`), so that a piece that is put there
has an end. `HeapIs` lists the blocks that are in use, one
for each owner. `FormatIs` says how much of an output is in the buffer of a format
while `arg_dstr_catf` looks for a size.

**`ArgtableProofs`, the text of an option.** `OptionsShownWhole` is
`OptionTextIsWhole`, for every option and every size of the buffer. That the calls of
`arg_cat_option` and `arg_cat_optionv` print what the reader should see, in two loops
and with separators between, is about sequences of texts and has no state:
`CallsPrint`, by way of `Leads`, which says to which text a sequence of calls leads
from another one. `OptionInv` then says that the buffer holds as much of what was
printed so far as fits (`Shown`), that the calls that are left lead to the whole
text, and that a `strncat` finds the pointer at the end of the text: only so is the
room it is told the room there is. It holds because `arg_cat` moves the pointer there
and every `strncat` comes behind an `arg_cat`, which `Leads` keeps too.

In these two modules the assumptions are those of the parts (`ArgtableAssumption`):
sizes of tables are at least two apart, the table the registry asks for is not
larger than the largest, what `arg_cmd_info` answers for an unknown command is no
name, no NUL is among the letters that are appended or of which options consist, and a
long name is not empty.

Only model-checked:

* `OptionsAsTyped` and `OperandsLast`, which compare the parser with a second,
  recursive reading of the words: a proof is an induction over the words;
* `UsageTellsTheTable`: how often an entry is read in the usage line is counted along
  three nested loops, and a proof counts along with them;
* `CutShortIsATree`: a proof needs that leaves keep their places and their bounds
  when rows are added to them;
* liveness (`Terminates`, `EveryLoopEnds`), which is out of the prover's reach.

## 5. What the runs found

* `duplicate_stored`, `refused_is_stored`: the duplicate check of
  `statement_execute_insert` reads the root page instead of the leaf
  (`src/statement.c:91`, `:99`). Once there are two levels, stored ids are
  accepted again, and the id that equals the number of the root's first child
  (2 in a tree that has just split) is refused.
* `scan_starts_leftmost`: `cursor_start` looks for id 0; after duplicates of it
  were accepted, `select` starts in the middle.
* `grows_to_max_pages`: the split of an internal node calls itself instead of
  inserting (`src/btree.c:503`) and always ends in an exit, so five pages are
  the most a database ever has, and the session that tries to add another one is
  lost.
* `invalid_child`: the cell for a new child is read through the checked accessor
  before it is written (`src/btree.c:416`); if the stale bytes there happen to be
  `UINT32_MAX` the process ends although the tree has room. The bytes are the
  first four of the username in the first row.

The last one, `grows_to_max_pages` and the two of the duplicate check were also
seen in the built program.

What else came up while the modules were written. The models have these
behaviours as the code has them; the properties above are stated so that they
hold with them.

* A short write is taken for success (`src/pager.c:121`): the program ends with
  status 0, and if it was at the end of the file the next session refuses the file,
  whose length is no multiple of a page (`src/pager.c:30`). `ImplementsStore` is
  about a disk that makes no short writes, and `StatusTellsSaved` excepts them.
* When a page cannot be written (`src/pager.c:112`, `:117`), the program ends with
  status 1, and the pages before it have been overwritten; the same holds of a kill
  during the close. So status 1 does not say that the file is as it was
  (`StatusTellsSaved` says it only of ends before the first page). If the session
  had split a leaf, what is left need not be a tree.
* Page number `PAGER_MAX_PAGES` passes the check of `src/pager.c:54` and lies past
  the array. No page of a tree has this number, but the split of a full root takes
  words nobody wrote for children, bytes of usernames among them, and may ask for it
  (`db.fate` is `"outside"`). The session is lost at that point in any case;
  `ExitOnlyWhenFull` says that nothing else gets there.
* Id 0 is accepted, and so is a text, which `atoi` makes 0; a positive id beyond
  `int` is refused (`src/statement.c:50`, `:51`). The message is `id must be greater
  than zero` in `src/gnaro.c:104`. `StoredAsTyped` is about ids within `int`.
* A word that only begins with `insert` is taken for it (`src/statement.c:19`).
* The last character of a line is cut off whatever it is (`src/input.c:31`); a last
  line without a newline loses one. `StoredAsTyped` is about lines that end
  in one.
* When the database cannot be opened the process dies of a signal in the cleanup
  (`src/gnaro.c:70`, `:71`), and not with status 1.
* A word like `-v-`, a dash behind short options, is read for ever: the branch
  of `argtable3.c:1840` returns without going on to the next word. `Terminates`
  leaves out words of this kind.
* `--version` starts a session; its help text in `src/gnaro.c:27` says that it
  exits.
* In wrapped text, a line that follows a newline of the text is not indented, and
  where a line is wrapped at a newline an empty line comes behind it, although the
  comments of `argtable3.c:5954` and `:6000` say otherwise. `Formatted` has the lines
  and not their indentation.
* The hash table of 53 buckets takes 35 entries before it grows, 0.66 and not 0.65
  of its size, as the limit is rounded up (`argtable3.c:612`).

## 6. What is not modelled

* Sessions on a file that a close left half saved. `BTree` saves in one step; `Repl`
  writes page by page and lets no session begin on a file that was not saved as a
  whole; `Pager` goes on with such files and knows no tree. `CutShortIsATree` says
  when the file is a tree all the same.
* A read that yields less than a page without an error (`src/pager.c:74`) where the
  file has the whole page: `Pager.Loaded` takes what the file has.
* A failed `getline` is the same as the end of the input. Memory that runs out
  ends the process (`s_panic` in argtable) and is left out where the code does not
  look (`malloc` in `src/`). The cursor that is not freed on a refused key
  (`src/statement.c:102`), and other memory that `src/` does not give back.
* `.btree` prints and changes nothing; so do the log messages, and `lib/log` has
  neither callbacks nor locks set by the program.
* The layout of the glossary in columns, and the variants of usage and error
  printing that the program does not call (except wrapped text).
* Entries of other types than `arg_lit`, `arg_str` and the terminator, with
  regular expressions, dates and numbers: the program has none. The sort `mgsort`.
* The hash function itself, iterators that outlive a change of the table, names of
  modules and versions in the registry.
* The offsets of `include/btree.h` as arithmetic: which fields overlap is taken over
  into `Node`.
* The build files and the test that asserts nothing.

## 7. Plan

Done: `Node`, `NodeSearch`, `BTree`, `Table`, `CellLoops`, `Pager`, `PageStore`,
`Statement` and `Repl`, with proofs of all that is checked of them but liveness;
`CommandLine` and `Main`, with proofs but for the
comparisons of results with a second reading; the parts of the run `argtable`, with
proofs of those that change blocks, lines, strings and tables; `MCPromises`.

Open, in this order:

1. Sessions that begin on a file a close left half saved: what `BTree` makes of pages
   of two generations.
2. A proof of `CutShortIsATree`.
3. `Layout`: the header offsets of `include/btree.h` as arithmetic.
