# A TLA+ development of PulpDB

PulpDB keeps a recorded stream of messages in the order they arrived, and for
every key a message was filed under the ascending list of the message numbers.
Queries merge those lists. A database is written once, by one process, and then
read, by position, by key, forwards and backwards.

This directory holds TLA+ modules of the parts where the state is, the TLC
configurations that check them on small instances, and proofs for TLAPS.
`PROJECT.json` maps every definition to the lines it stands for.

## The parts of the system

| part | source | state it keeps | operations |
|---|---|---|---|
| mmbuf | `src/common/mmbuf.c` | one growable memory-mapped file: counted size, offset, mapping | setup, append, alloc, pos_alloc, pos_tmpptr, get_data, free_data, teardown |
| mds, bitpack | `src/pulp_db/mds` | messages in a data mmbuf; an index mmbuf of packed blocks of 48 sizes; the clump last packed or unpacked | setup, append, get, len, teardown |
| dpref | `src/pulp_db/kds/dpref.c` | one mmbuf in which many reference streams grow as linked pages | open, setup_wbuffer, append, setup_rbuffer, geti, teardown_buffer, close |
| cpref | `src/pulp_db/kds/cpref.c` | one stream of references in blocks, a table of (min, max) per block, a cursor, a buffered block | setup streams, write, close, get, next, prev, ge, le |
| rtrie | `src/pulp_db/kds/rtrie.c` | a radix trie in memory, the stack of its iteration | add, get, iter, next, fullkey, close |
| ttrie | `src/pulp_db/kds/ttrie.c` | the same keys as tables of rows that refer to each other, in memory and in a file; iterators | convert, get, iter, next_node, write, read, close |
| kds | `src/pulp_db/kds/kds.c` | one key table: rtrie + dpref while written, ttrie + cpref once converted | open, append, optimize_write, contains, get_key_i, lookup, close |
| query | `src/pulp_db/query.py` | keys, slices and filters of the database, each with a cursor; merges of two of them | next, prev, ge, le, getitem |
| pulp_db | `src/pulp_db/pulp_db.py` | a directory: one master mds and a kds per index | append, close in reverse order; open to read, look up, fetch |

How they interact. All calls are synchronous and there is one thread; a
database has one process at a time. What is hard comes from elsewhere:

* **the kernel as the other actor**: `mremap` may move a mapping while pointers
  into it are held, and shared mappings keep what a dead process stored;
* **clients that interleave**: many streams grow in one file in any order, two
  operands of a merge share nothing but the order of references;
* **long sequences of legal calls** on objects with cursors, buffered blocks and
  cached clumps, whose answers must not depend on what was asked before;
* **boundaries**: pages, blocks and clumps that end exactly full, counted sizes
  one off, sentinels on both sides of a cursor, widths of packed fields;
* **exits**: every C error path ends in `exit(EXIT_FAILURE)`, between any two
  steps of the other tables.

What makes each part correct:

* mmbuf: the object never counts more than the file has; a pointer is used only
  while it points into the kernel's mapping; a reader sees what was written;
  growing ends.
* mds: a message that reached the index is given whole, whoever asked for what
  before, and however the writer ended; nothing is given past the end; the
  length is right.
* dpref: no page lost or shared; every reference at its place; reads exact, and
  they end.
* cpref: get, next and prev walk the stream; ge and le find the exact neighbour
  from any cursor and any buffered block; searches end.
* rtrie, ttrie: a map from keys to values, converted without loss or invention,
  through the exchange of the values and the file; rows are not shared.
* kds: what was appended under a key, in order, is what its query walks.
* query: a merge gives references in order, each as often as the operator says;
  each call of `next` returns.
* pulp_db: a value leads to the messages filed under it, and a reference to its
  message, whatever became of the other tables and of the writer; what was
  closed opens.

## The modules

| module | models | state and actions |
|---|---|---|
| `Mmbuf` | mmbuf | The fields of `mmbuf__obj` under their names, `liveMap` and `diskLen` for what the kernel and the file system have, `req` for the allocating call in progress. A call is `Call`, then one `Grow` per turn of its `while` loop, then `Return`. `Crash` ends the process. |
| `Dpref` | dpref, whose file is that of `Mmbuf` | Extends `Mmbuf`, and makes its calls as parts of its own steps. `pages` by position in the file, a record per write buffer, the read buffer. `new_page` is the call, any number of `GrowFile` steps, and `BufferReady` or `LinkPage`, which store through a page pointer taken before or after (`LinkPointer`); `Stored` drops a store through a mapping that is gone. `dpref__geti` is one step per turn of its loop. |
| `Mds` | mds and bitpack | `index` is the clump in memory, `blocks` the packed index, `dataCut` and `fileBlocks` what teardown truncates, in two steps. `Encode`, `NumDecoded` and `Decoded` are bitpack by what it keeps: an offset modulo 2^40, sizes modulo 2^20, and an end at the first size of 0. |
| `MessageLog` | the promise of mds | A log with append and read, that may lose its last part clump if it is not closed. |
| `Cpref` | one cpref stream | The cursor `current_i`, the (min, max) table, the buffered block, `search` for a search in progress: one step per probe of the binary search of the table, one for the scan of the neighbouring blocks, one per turn inside a block. |
| `RefStream` | the promise of cpref | A sequence, a cursor with a place on either side of it, searches by definition. |
| `Rtrie` | rtrie | A node is named for the letters that lead to it and has the arrays of the code, `keys` and `children`, apart from each other. One step per turn of the loop of `rtrie__add`, and per call of `walk_nodes` in `rtrie__next` and `rtrie__close`; `rtrie__get`, which changes nothing, is one. The end of `rtrie__add` is joined with `kds__append`, which stores the number of a buffer with a new key. |
| `Ttrie` | ttrie, and the key table around both tries | Extends `Rtrie` by `state` (RAW, DIRTY, CONVERTED, then closed and read) and `tt`, the five kinds of tables as sequences of rows. One step per call of `convert_subtrie`, in the order of the code (children before their row), per key whose value `kds__optimize_write` exchanges, per call of `ttrie__walk_nodes` in `kds__get_key_i`; `ttrie__get` is one. `kds__get_key_i` has both its loops: of a table still written it walks the radix trie (`StartCount`, `CountNext`, the steps of `rtrie__next`, `FinishCount`), which nothing else iterates over, of an optimised one the tables (`StartKeyAt`, `LookNext`, `WalkUp`, `NoKeyThere`). `Serialised` is the file as the numbers written, `Deserialised` what `ttrie__read` makes of them. |
| `KeyMap` | the promise of both tries | A map from keys to what is stored with them, an exchange of the stored values, and an iteration in the order of the bytes. |
| `PulpDb` | pulp_db with its tables | The master by how many messages are in its index, a `KeyTable` by its buffers, the disk by the files of each field. An append is `Append1`, then per field a `StartField`, one `FileValue` for each of its values and a `FinishField` (the process may be killed between two values), closing one step per table and stage of `kds__optimize_write` (one per chunk that `convert_dpref_to_cpref` hands over), then the two of `mds__teardown`. `Kill` ends the process anywhere; a reader then opens what is there, looks up and fetches. |
| `Operand` | what a merge joins | `[0]`, `next()` and `ge()` of a key, a slice, a filter and another merge: what each gives, and the cursor (`current_i`, the position underneath, `current_msg`) it leaves. A merge inside another is taken for what `query` shows of one: messages in ascending order, from the first again when it is begun again. |
| `Query` | the four merges of `query.py` over two operands | `at` and `next` per operand, one step per turn of the merge loop. Over keys, `next()` moves the cursor and `ge()` does not, as `RefStream` promises; over slices and filters both do. |
| `DataLemmas` | | Induction and recursion over natural numbers, positions in blocks, and what becomes of sequences (inserted, laid behind one another, listed), that the proofs share. |
| `*_proofs` | | The theorems; those about `Mmbuf` are in `Dpref_proofs`, those about `Rtrie` in `Ttrie_proofs`. |
| `MC_*` | | the instances for TLC. |

How they compose: `Dpref` extends `Mmbuf` and runs on its actions (proved, `StoreUsesFile`), `Mds` implements
`MessageLog`, `Cpref` implements `RefStream`, `Ttrie` extends `Rtrie` and
implements `KeyMap`. `PulpDb` and `Query` take these promises for the parts
and model what holds them together.

An operator called `X_<fault>` is a faulty variant of `X`, never used by the
specification. `PROJECT.json` pairs each property of a run with one of them that
breaks it.

## The runs

| run | shows | bounds, and why they are enough |
|---|---|---|
| `mmbuf` | Sizes, pointers and readers are right over write, read and crashed sessions, and calls return. | A first size of 6, requests of 1, 3 and 9: within one block, over it, and more than one turn of the loop needs. 14 bytes: three growths. |
| `dpref` | Lists intact, references in place, reads exact, calls return. | Two streams of up to three references on pages of two: both link a page while the other is open, in any order, and the file of 8 bytes grows under pages of 3. |
| `dpref_end` | The end of a stream of full pages has no mark (finding 1): two references fill the page, the next position is read as 0 from the page linked behind it. | as above |
| `mds` | Exact answers after any end of the writer and any earlier reads; the length; `MessageLog` implemented as far as the sizes pack. | Clumps of two, five messages: two whole clumps and a part. Sizes 0, 4 and 5 do not pack in `SizeMod` 4 (4 packs to 0, where decoding ends, 5 to a wrong size), 3 does; offsets run past `OffsetMod` 12. |
| `mds_last` | A whole number of clumps is stored without the last block (finding 2). | as `mds` |
| `cpref` | Searches exact and ending, the table right, `RefStream` implemented. | Blocks of four, streams of 3, 8 and 9 references of four values: part of a block, full blocks, a last block of one; repeats over block boundaries; targets below, between and above. Writing is followed to its end; searches start from the two cursors `SearchFrom` names, since no search reads the cursor, and from every block the calls before it may leave buffered. |
| `query` | Order, exact outcomes of `\|`, `-`, `^`, membership of `&`, and that calls return, also on a second iteration. | Four messages. Every pair of: keys of at most three references, the missing key among them; all sixteen filters; nine slices, from either end, with and without a stop, empty, past the ends and over the end; inner merges that give nothing, a message twice, or up to three. |
| `query_and` | `&` gives a message twice (finding 3). | as above |
| `query_or` | `\|` of two keys, one of them missing, gives nothing (finding 4). | as above |
| `ttrie` | The arrays in order, no node that cannot be converted, each row led to once, a second table of a name only when the first is full, every key led to its value, calls return, and `KeyMap` implemented from the first key to the reader, where `KeyMap` has no i-th key of a table still written (finding 6). | Bytes of three bits, choice tables of two rows; ten keys, at most five added, in any order: five first letters (one more than an array whose size is three bits holds: there the program dies), on both sides of the sign, keys that begin one another, two that share two letters (a suffix broken out twice), three nodes that want a row of the same table. |
| `pulp_db` | Lookups exact, references lead to their messages, a closed database opens, and closing ends. | Four messages in clumps of three, two fields, three values, chunks of two: one field or both, one value or several, a value twice, an empty list, a value that raises behind one that does not, an empty message. Three `KeyTable`s: one field has two. |
| `rtrie_get` | A stored key with a high byte is not found (finding 5). | two keys |

The properties of `query` name the operands they hold for. `Plain` leaves out the
slices that `Slicer` does not cut as Python would: one that steps over the end of
the database and wraps round, and one whose start and stop count from different
ends. `Counted` leaves out a second iteration of a filter, which has lost count
(`query.py:791`). Both are in the model, and every other property is checked with
them.

The runs of `Mds`, `Cpref`, `Query`, `Rtrie`, `Ttrie` and `PulpDb` do not check for
deadlock: `Query` does not begin a merge again while an inner one stands past its
first message, which goes on backwards there (`query.py:951`); `Mds` stops where
the process exits, `Rtrie` and `Ttrie` where it is closed or the process dies, `PulpDb` where the reader exits, `Cpref` when all it
may do has been done.

Bounds inside modules: `MaxOffset` and `MaxDisk` (Mmbuf), `MaxRefs` and
`MaxIndex` (Dpref), `MaxMsgs` (Mds, PulpDb), `Totals` (Cpref), `MaxKeys`
(Rtrie), `MaxTables` (PulpDb). `MaxDisk` is never what stops a call: that would
violate `CallReturns`. `MaxDepth` (Ttrie), `Clump` and `Chunk` (PulpDb) are
sizes of the code, made small.

### Fairness

There is one thread: a call of a C function, or of `next()`, once begun runs on
until it returns or the process ends. The specifications state weak fairness of
the steps inside a call (`Grow`, `Return`, the steps of `dpref__geti`, the probes
of a search, the turns of a merge loop, the turns of `rtrie__add`, the turns of `kds__get_key_i`, the nodes
walked and converted, the keys exchanged; the steps of closing a database) and none of the steps that begin a call,
open, close or crash. The liveness properties say that calls return, and
`ClosingEnds` that a writer which leaves its `with` block closes the database or dies.

## What is proved

`Dpref_proofs` first proves of `Mmbuf`, for every first size of at least 5, every
block size, every set of request lengths and every bound: types, `Backed`, `TmpPtrLive`,
`ReaderSeesWritten`, and `GrowthProgresses`, that each turn of the growing loop
makes the counted size larger. The invariant `FileIInv` adds to them what the
loop needs: a writer's counted size is at least 4 (3/2 of less, minus one, is
not more), smaller than the file, and the object knows the kernel's mapping
(`Writing`); a reader's is the file's (`Reading`); the history is what the file
holds between sessions (`Between`); and no call or pointer survives a session
(`Sessions`). Assumed: `InitialAssumption`, `BlockAssumption`,
`LengthAssumption`, `BoundAssumption`; the code's first size is 4096 squared.

Then of `Dpref`, for any number of streams, references per page, page size and
bounds: that every step is one `Mmbuf` allows or leaves the file alone
(`StoreUsesFile`, hence `PagesBacked`); types, `ChainsLinked`, `RefsInPlace`, `PartialPageEnds` and `GetiExact`.
None is inductive.
`IInv` adds where the writers and the reader stand: an open buffer is in the last
page of its stream, `refs_index` slots in, and is full exactly while its next
page is being allocated (`BufInv`); pages lie below the offset of the next one,
so a new page is no stream's (`PagesInv`); a writer between calls goes through
the kernel's mapping (`FileInv`); the reader has followed k links and is in page
k of its stream, as long as there is one (`ReaderInv`). The arithmetic is in
`PlaceUnique`: a position names one page and one slot.

`Mds_proofs`, for any size of a clump, any widths of the packed fields, any
lengths of messages, and as many of them as the index file has room for
(`MsgsAssumption`): types, `GetExact`, `GetExactOrNothing`, `LenExact`, and
`LogSpec`, that every step of `Mds` is a step of `MessageLog` or leaves it alone.
`IInv` says what each place a message may be in has of it: a written block its
sizes and its first offset, modulo the widths, and zeros behind the last message
(`BlocksInv`); the clump in memory of the writer the messages behind the blocks
(`ClumpInv`); a reader's clump what decoding the block it names gives
(`CacheInv`); and how many blocks there are at each stage of teardown, or after
its process died at one (`CountInv`). `GetExact` then is arithmetic: offsets are
sums of sizes (`MsgsInv`), so decoding gives them back modulo the width.

`Cpref_proofs`, for any size of a block from 2 on (a block of one slot
never has its least reference kept), any stream in order
and any target: types, `MetasBound`, `GeExact`, `LeExact`, and `StreamSpec`, that
`Cpref` implements `RefStream`. `IInv` has the range that each binary search has
still to look at: over the table, blocks below it end before the target and those
above begin behind it (`MetasInv`); inside a block, the same of its slots
(`BlockInv`), where the block at the end, of which only a part is filled, is an
exception because the code scans it. `CacheInv` says of the buffered block that it
is the one the cursor names, whatever the calls before did.

`PulpDb_proofs`, for any fields, values, messages, sizes of a clump and a chunk and
any number of messages and tables: types (with the array of buffers, which grows
at the powers of two), `IndexExact`, `RefsLead` and `OpensOnceClosed`. `IInv`
follows a reference through its places: the buffers, counted against what was
asked for up to the value being filed (`Counts`, `InProgress`); the streams that
`kds__optimize_write` has copied and the one it is copying (`Conversion`); the
files of every field, a field without a written trie being no index (`Stored`);
and what a reader has opened (`Reading`, `Answered`). Steps of the writer keep the
writer's part whatever a reader does, since a reader comes after it. `Stack` is
what closing relies on: of the tables of one field only the one registered last
has a buffer.

`Ttrie_proofs` (about `Rtrie`, under the key table that `Ttrie` makes of it), for
any width of a byte, any keys and any number of them: `InOrder` and `Convertible`,
and that `bisect_children` finds where a letter is or belongs (`BisectPlaces`,
by induction along the length of the range). `RInv` has the shape of the tree,
which holds in the middle of `rtrie__add` too (`Tree`), where an add stands in it
(`Adding`), and that the nodes with a value are as many as were counted, all
others having children, but the one an add is about to give a value (`Filled`).

Of the tables it proves `RowsOnce`, `NewTableWhenFull` and `RoundTrip`, that
`Deserialised` undoes `Serialised` for any tables whose rows are as wide as their
names (the parts of the file lie behind one another, `Laid`). `TInv` is about links:
a place is a row of a table, its links are the ids stored there. While
`ConvertSubtrie` goes over the heads, the links lead to every place once, but to
none of the rows that stand for the uppermost heads converted so far (`Partly`);
converting one more head takes the rows of the heads below it, which stop being
uppermost, into its own (`ConvertedPartly`, over the bounded depth of the
nodes). When the root is converted all but its row is led to once (`Whole`). The
exchange of buffers for streams changes what rows hold and no link, and what is
written is `Whole`, so what a reader has is too, by `RoundTrip`. `RInv` is needed
throughout: that the heads below a head are found once is the shape of the tree.
`RowsOnce` then counts: the sequence of all ids lists the places (`Listing`), each once.

Types of the tables (`TTypeOK`) need to know what is in the rows, and so in the nodes
they are made of. `KInv` says of the radix trie that what a node with a value spells
is a key and the value that key's (`Keyed`), where an add stands in its key
(`AddingAt`), that the stack of a walk leads from the root to its top (`Stacked`:
its depth is the length of a key at most), and that what `rtrie__close` has walked
past has no children left (`EmptyBehind`, which is why it ends with an empty root).
`LInv` says the same of the tables: there are labels, one for each place, such that
every link adds its letters (`Onward`) and what a row stores was stored with the key
that is spelled there (`Labelled`). While subtries are converted the labels of the
heads are the letters of their nodes (`LabelledBelow`), afterwards the root's is
empty (`LabelledFrom`), and a frame of the iterator has the label of its row
(`FramesFit`). The exchange gives a row the stream of the key that the frames
spell, so the labels survive it, and `RoundTrip` takes them into a reader.

`Ttrie_map_proofs` proves `ConvertedExact` from these: that no key is lost on the way
and `ttrie__get` finds it. `LInv` has that a row which stores a key's stream spells
that key; the other direction is `MInv`. While subtries are converted, the rows with a
value have the keys of the heads converted so far and no others, every row leads on
as `convert_subtrie` makes it, by one letter at least and in the order of the
letters, and the table counts as many keys as the radix trie (`MKeys`). When the root
is converted these are all the keys, one row each (`Holding`). The exchange then
walks: what it has met is the value rows the frames have passed, and those hold
streams (`Visited`); when the iteration ends that is every row (`EndReached`), as the
links lead to every place. A table that holds streams in all its rows is what is
written and, by `RoundTrip`, what a reader has (`MHeld`). `Entries` and `Found` are
functions by recursion along the links, and the labels are a rank for it (a link adds
letters, and no row spells more than a key): unfolded by `RankedRecursion`, `Entries`
gives one pair per value row (`EntriesAre`), and `Found` the row whose letters
are those asked for, or nothing (`FoundIs`). `FoundIs` rests on the rows of a
choice table parting by a letter, and on the labels.

`Query_proofs`, for any number of messages, any keys, slices, filters and inner
merges as operands: types, `InOrder`, `MergeExact` and `AndMembers`. What [0], `next()` and `ge()` give is
proved of each operand first (`FirstIs`, `NextIs`, `GeIs`): the loops of `Slicer`
and `Filter` end, and leave the cursor on the message they give. `IInv` then says
which cursors there may be (`Cursors`: a slice where its count says, a filter
behind its last message with a count that is too small, after it has run to its end), that an
operand under way stands on what it has next (`UnderWay`), and that what it has
next is not before what was given (`BehindOut`). The last is false of `&`, whose
jumps leave the cursor of a key behind (the cause of finding 3): there it is only
what *both* operands have still ahead that is not before what was given, and that
is enough, since a jump goes to a message of the other operand.

For the other two it counts: how often an operand has a message (`HasIn`), and how
often it has still to come (`ToCome`). `next()` takes the message at the cursor
from what is to come, once, and nothing else (`NextHas`); a jump loses nothing from
its target on (`GeHas`). `HInv` has the tally of both (`Tallied`): what was given,
and what is to come joined as the operator joins it, is what is wanted (`Balanced`);
with `&`, whose count of repeated messages finding 3 spoils, what was given both
have, and what both have and was not given is still to come from both (`Unlost`).
When the iteration ends nothing is to come, and the tally is the property. It holds
under `Counted`, which the properties name: slices that start and stop on one side
of the stream, and filters that are not iterated again.

`DataLemmas` has what these need of numbers: induction over the naturals and over
intervals, stated of sets; that a function defined by recursion over the naturals,
or along a rank that goes down, exists (the lemmas `RecursionExists` and `RankedRecursion`), so
that the loops the modules write as functions can be unfolded; positions in
blocks; and sequences: an element inserted or set in one, parts laid one behind the
other, one that begins another, a listing of a set, and places each of which is led
to once.

All theorems rest on the named assumptions of the modules about their constants,
which TLC evaluates in every run. Where a proof did not go through, the model was
at fault more than once, and was set right after the source: the values of a field
are filed one by one, tables are closed in the reverse order of being opened
whichever field they belong to, `LenExact` speaks of what is closed only, and the
turns of `bisect_children` are those of its loop.

## What is model-checked only

* Liveness (`CallReturns`, `CallsReturn`, `SearchesEnd`, `TCallsReturn`,
  `ClosingEnds`): the prover has no rules for fairness here. `GrowthProgresses` is
  the step argument for the first; the ranks in `Query_proofs` show that the loops
  inside one `next()` or `ge()` of an operand end.
* `TMapSpec` of `Ttrie`. `ConvertedExact` has what the tables hold; that `kds__get_key_i`
  of an optimised table gives the i-th key in the order of the bytes needs a count of the keys before a
  row, in step with the walk.

## Findings

1. `dpref__teardown_buffer` marks the end of the last page only if it holds a
   reference (`dpref.c:176`). A stream whose references fill its pages exactly ends
   in the page of zeros that `flush_buffer` linked, and has no negative end, which
   `dpref.h:93` promises (run `dpref_end`; `EndIsNegative` asks it only of streams
   that have references). The conversion to cpref counts, and never asks.
2. `mds__teardown` flushes only a part clump (`mds.c:101`), and the block of zeros
   goes with it: a database of 48, 96, ... messages ends in a block that
   `mds__len` takes for corruption, and exits (`mds.c:178`, run `mds_last`).
3. `and_func` goes on from cursors its jumps did not move, and gives a message
   again that both operands jumped to (`query.py:1120`, run `query_and`).
4. A merge takes the first message of both operands before it begins, and a key
   that is not in the database has none: `|` of it and a key that is there gives
   nothing (`query.py:898`, run `query_or`; `OrKeepsAll` speaks of keys only).
5. `rtrie__get` keeps a letter in a signed `char`, and does not find a stored key
   with a byte of 128 or more where a node has children (`rtrie.c:484`, run
   `rtrie_get`). `TMapSpec` leaves those keys, and the empty one, which is never
   found either, in doubt (`Doubtful`), and holds every other to the map.
6. `kds__get_key_i` of a table that is still written leaves its loop with `j` one
   more than `i` and then asks whether `j` is `i` (`kds.c:438`): it never gives a
   key, and iterating over such a `KeyTable` (`kds_pyapi.py:139-144`) raises
   `IndexError` at once. The reader's branch asks for `j-1` (`kds.c:461`).
   `CountedKey` models the comparison as it is, and `TMapSpec` of the run `ttrie`
   states the outcome: a table that is still written gives no i-th key, an
   optimised one gives its i-th. No test calls it on a table that is still written
   (`test_kds.py:105-107` does on one read back), so this is a finding of reading
   the code, with no run that fails.

## What is not modelled

* In `Rtrie`: keys as long as an unsigned char counts (their `suffix_len` is cut
  off), and the 256 frames of the stack, which shorter keys do not fill.
* In `Ttrie`: the linear and binary searches for a choice table by its name, which
  pulp_db switches off (`index_table_names` is set); more names of tables with
  different first letters than half a byte counts, where the index, an rtrie, dies
  as a table of keys does; outcomes of reading a key from frames that were reallocated
  (`ttrie.c:1699`) other than the key, which glibc leaves there; cell widths and offsets in the file.
* The calls another thread could make during `kds__optimize_write`, which
  `kds__get_key_i` and `kds__contains` answer by the state (`kds.c:427`): there is one
  thread.
* In `PulpDb`: a kill between the two truncations of `mds__teardown`, one step here
  (`CutMaster`) and two in `Mds`; the removal of a database that was there before, dumpers and
  loaders, field queries over functions of a key, `mds__len` after a crash (which
  `Mds` has), what `ttrie__read` does with a file whose writer was killed in
  `ttrie__write` (any stream of the table may be found), offsets as numbers of a
  width, `kds__close` of a table that was not optimised.
* In `Query`: backwards merges (their sentinels do not match, `query.py:980`);
  and with them a merge begun again while an inner one stands past its first
  message; slices and filters of a key, of a merge or of another
  slice or filter; one query used as both operands;
  and `RuntimeError` in place of `StopIteration`, which Python 3.7 makes of a
  `StopIteration` in a generator.
* Byte contents, printing, argument checks of the Python wrappers.
* A full disk: `write` and `ftruncate` are not checked by the code.
* `mds__get` in a session that writes: pulp_db never does it.
* Two accesses of mds one element outside its arrays: `partial_flush` also sets
  `msg_sizes[48]` (`mds.c:36`), 4 bytes past a clump of 576 bytes, in what malloc gives
  over; and decoding the last size reads the byte behind the block of 128
  (`bitpack.c:92`), which it masks off. Neither changes what `Padded` and `NumDecoded`
  say.
* The growth of the mds index past its first stretch (512 kB blocks of 48): what
  growing does is in `Mmbuf`.
* `dpref`'s `num_msgs` in `Dpref` (`PulpDb` has the total that goes into `.meta`).
* The width of the `unsigned int` lengths of `mmbuf__alloc`; the hazards name it.
* metaparse (another file format), hex dumps, experiments (prototypes and copies
  of other projects' tries, most of the repository's lines), drafts, utilities.

## Plan

What is left, the most important first:

1. Proofs: `TMapSpec`, that the walk of the tables gives the keys in the order of the
   bytes.
2. `Query`: backwards merges, one query used twice.
3. `Mmbuf`: lengths modulo 2^w, and a disk that fills.
