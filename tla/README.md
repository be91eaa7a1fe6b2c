# Verification of LLP3

LLP3 keeps a tree of typed tuples in one binary file, and serves it over TCP to
clients that type XPath-like queries. This directory holds TLA+ modules of it,
the configurations TLC checks them in, and theorems that TLAPS proves.

All paths below are relative to `src/`.

## 1. The system

### Components, their state and their operations

| component | code | state it keeps | operations |
|---|---|---|---|
| layout arithmetic | `db/src/basic_tools/basic_convert.c` | none | sizes of tuples, of the id array, of names; the growth test |
| raw file access | `db/src/basic_tools/basic_file_manager.c` | the `FILE *` position | read, write, open, close |
| header, id array | `db/src/basic_types/tree_header.c`, `db/src/types/tree_header_tools.c` | six header words, the pattern, one entry for each id | append with growth, remove, look up, childs of an id |
| slots and strings | `db/src/basic_types/tuple.c`, `db/src/types/tuple_tools.c` | slots of one size: a tuple, or one piece of a string | insert at the end, move a slot, remove by moving the last slot, insert, change, read and remove strings |
| storage calls | `db/src/crud_tools/crud.c` | nothing between calls; inside one, the offsets read so far and the recursion's stack | `add_tuple`, `update_tuple`, `remove_tuple` (recursive), and the finds |
| request handler | `db/src/console/console_tools.c` | the open file, a result list | `parse_request`: level by level, filters, then the command |
| console commands | `db/src/commands/*.c`, `db/src/console/interactive.c` | none | dialogues around the storage calls |
| query parser | `xpath_parser/src` | a position in a text, a state, the level being read, the view | `parse`, and one handler for each state |
| client | `client.c` | a socket | connect, parse, convert, send, receive, once per turn |
| server | `server.c` | the listening socket; the children it forked | accept and fork; answer one request; reap |
| message definitions | `proto/message.pb.*`, macros of `proto/nanopb/pb.h`, `pb_common.c` | none | the structs, and descriptors of them packed into words |
| message encoder | `proto/nanopb/pb_encode.c` | a position in a buffer | `pb_encode` |
| message decoder | `proto/nanopb/pb_decode.c` | a position in a buffer, streams within streams, the struct being filled | `pb_decode` |

### How they interact

A client parses what its user types into a view, converts the view to a message
of fixed size and sends it. The server's parent forks a child for each
connection; the child decodes the message and calls `parse_request`, which opens
the file, searches it and makes storage calls, each a long run of reads and
writes at offsets it computes or finds in the file. The child answers and exits,
which sends the parent SIGCHLD. All children open the same file and nothing
orders what they do to it.

### What is hard about it

* **Offsets that move.** A slot is removed by moving the last slot of the file
  into it, and the array grows by moving the slot behind it to the end. Each
  move must repair whatever refers to the slot (an entry, a string's link to
  its tuple, the tuple's link to its string, links between pieces), and any
  offset in a local variable is stale from then on. `remove_tuple` is recursive and
  keeps such offsets across calls of itself.
* **Boundaries.** The array must take over a slot exactly when the next entry
  would no longer fit; ids are given back only from the top.
* **Unguarded calls.** No storage call checks that an id or a parent exists.
* **Half-done calls.** The array names a tuple before its fields are written;
  every write between two of a call's steps is a file that a crash may leave.
* **Processes.** Signals merge, forks fail, children die, users type nothing.
* **Messages.** Each side sends its whole buffer, with whatever is in it behind
  the message, receives once, and never looks at what `pb_encode`, `pb_decode` or `recv`
  return: what is cut short, too long or followed by old bytes is acted upon.
  The decoder must keep inside the struct and the buffer for any bytes at all.
* **Text.** The parser moves through its text with few tests for its end, and
  makes every list in reverse.

`PROJECT.json` lists each hazard at its line, with the properties that cover it.

## 2. Modules and plan

| module | models | built on |
|---|---|---|
| `Layout` | layout arithmetic | |
| `TupleFile` | the file as a value, and every operation of the header, the id array, the slots and the strings as an operator on it | `Layout` |
| `TreeFile` | the storage calls as runs of steps on one file, by a process that may make any call | `TupleFile` |
| `TreeStore` | the abstract specification: a map from ids to tuples, each call one step | |
| `Workloads` | clients of `TreeFile` that keep to a discipline; the properties; the refinement mapping to `TreeStore` | `TreeFile`, `TreeStore` |
| `ShallowInvariant` | the inductive invariants of one discipline, for integers | `Workloads` |
| `GrowingInvariant` | the same for another, with strings | `ShallowInvariant` |
| `MCWorkloads` | patterns and values for TLC | `GrowingInvariant` |
| `AnyCalls` | clients that make any calls, and when one of them has gone astray | `Workloads` |
| `MCAnyCalls` | a pattern for TLC | `AnyCalls` |
| `Sessions` | clients, the server's parent, its children and its signal handler | |
| `XPathParser` | the parser's state machine | |
| `XPathQueries` | queries as values, their texts and their views; the parser against them | `XPathParser` |
| `XPathReading` | the inductive invariant behind `Parsed`: how far the parser is in a query's text, and what of its view is made | `XPathQueries` |
| `MCXPathParser` | those queries, and every short command | `XPathQueries` |
| `MessageSchema` | the messages, their structs and descriptors | |
| `MessageDecoder` | `pb_decode` of any buffer by any descriptors | |
| `MCMessageDecoder` | buffers for it, with the descriptors of the protocol | `MessageDecoder`, `MessageSchema` |
| `MessageEncoder` | `pb_encode` as an operator | `MessageSchema` |
| `Exchange` | a request and its answer: conversion, encoding, sending, decoding, on both sides | `MessageDecoder`, `MessageEncoder` |
| `MCExchange` | views and tuples for TLC | `Exchange` |
| `ShallowProofs` | what each operation of the file keeps of the invariant; each call keeps it: safety of additions, updates and removals, and the refinement of `TreeStore` | `ShallowInvariant`, `TreeFileProofs` |
| `GrowingProofs` | what each operation of the file does to tuples with strings; additions and updates keep them together; the refinement | `GrowingInvariant`, `ShallowProofs` |
| `TreeFileProofs`, `SessionsProofs`, `XPathProofs`, `DecoderProofs`, `ExchangeProofs` | theorems, those on `Layout` in `TreeFileProofs` | what they are named after |
| `SequenceLemmas` | lemmas on `FlattenSeq` and induction over a set, for `XPathProofs` and `ExchangeProofs` | |

Storage came first, since everything the system is for rests on it, then the
processes around it, the parser, and the messages that join them. What would come
next, in this order:

1. `Requests`: `parse_request` and its searches over result lists, once
   `do_filter` is written; who frees a tuple, the early return with an open file,
   the order of removals.
2. `ConcurrentStore`: several children of the server on one file, each a process
   with its own locals; which properties of `Workloads` survive which overlaps.
3. `swap_with_last` and the growth of the array write by write, and the file a
   crash leaves between two of them.
4. Theorems: `RemovedOnceUntilAstray` and `OthersReadableUntilAstray`; removals of
   tuples with one string; what arrives of a request (`Arrives`).

## 3. Modules and code

### Storage: `Layout`, `TupleFile`, `TreeFile`

`Layout` counts words of 8 bytes where the code counts bytes. `HeaderWords` is
2, `MinimalWords` is MINIMAL_TUPLE_SIZE in words; a slot has `SlotWords`.

A file is a record: `sub`, the six words of `struct tree_subheader`; `blk`, what
follows the key pattern, as a sequence of slots; `lost`. The array occupies the
first slots: the entry of id *i* is word `EntryWord(i)` of slot `EntryPos(i)`.
Every operation of `tree_header_tools.c` and `tuple_tools.c` is an operator of
the same name in capitals: `AppendToIdArray`, `RemoveFromIdArray`,
`SwapTupleTo`, `SwapWithLast`, `InsertString`, and so on.

What is abstracted, and why that is sound here:

* An offset counts slots, not bytes: `Off(p)` is `FirstOffset + p - 1`. The code
  stores no offsets but those of slots.
* The pattern's names and types do not change after the file is made, so they are the
  constant `Types`. BOOLEAN, INTEGER and FLOAT fields are one word that storage
  never looks at, and are all "INTEGER".
* A piece of text is one number, larger than every offset; text never looks
  like an offset to the loop that searches one. Ids and integers are smaller
  than offsets; a field that is not is taken for a link by the loop of
  `swap_tuple_to` that searches one, which is a hazard on the list.
* Uninitialised padding of a slot is 0.
* `lost` becomes TRUE where the program goes on with a value it did not read (a
  read behind the end, the entry that `valid_offset_id` compares among them), with
  memory it has freed, or with a write into the middle of a slot. Nothing is claimed of
  what follows. Properties either exclude it (`StaysInside`) or are about states before
  it. An offset that is stale but only written through reads nothing, and is not `lost`;
  `StaysInside` excludes that too, and `AnyCalls` remembers it.

`TreeFile` has the variables `file`; `op`, the call in progress; `new`,
`add_tuple`'s locals; `stack`, the activations of
`remove_recursive_tuple_with_values` with the offset each read at entry, the
childs it has left and the strings it still has to remove; and `before`, a
history variable.

| action | code |
|---|---|
| `AddTuple` | `add_tuple` up to its loop: the slot is inserted, the array names it, and may grow |
| `AddString`, `AddInteger` | one turn of the loop over fields |
| `AddWrite` | the second write of the tuple |
| `Update` | `update_tuple` |
| `RemoveTuple`, `RemoveChild` | entry to the recursion, from outside and from the loop over childs (`Enter`) |
| `RemoveRead` | the read at the offset found at entry, with its cast to `int32_t` (`MaxSeek`) |
| `RemovePiece` | one turn of `remove_string_from_file` |
| `RemoveSlot` | `swap_with_last` and the return |

Between two steps the file is what a crash there would leave, so an invariant of
`file` is also a statement about crashes at these points. Moving a slot and the
growth of the array are one step each.

### `Workloads`: disciplines

The code accepts any call, and outside a discipline its promise fails (section
5). Each specification restricts which calls are *begun*; all of them have every
inner step of `TreeFile`.

* `ShallowSpec`: tuples that exist are updated, and removed when they have at
  most childs without childs, stored behind them.
* `GrowingSpec`: tuples are added and updated.
* `TreeSpec`: a well-formed tree; any tuple that exists is removed.
* `AnySpec` of `AnyCalls`: any call. Three things a call may then do damage other tuples
  though nothing is `lost`, and `astray` remembers that one did: it gives up the slot at an
  offset that has come to lie behind the file (`GivesUpStale`, with integers only, since
  the strings of a tuple are looked for at that offset first); it updates an id that has no
  tuple (`NoTupleOf`); or it removes an id that was never given out, and takes a word of
  some tuple for its entry (`NoEntryOf`). The properties are about the states before:
  that they hold says that these three are all.
* `FairSpec` of `TreeFile`: any call, without that history; `DeadUpdate` uses it.

`KeepsPromise` says the file implements `TreeStore`: under the mapping, the
tuples are those that can be read (`Contents`), or, while a call is in progress,
those that could be when it began. Each call so takes effect at its last step:
an addition gives one new id its parent and values, an update changes one field,
a removal takes a tuple and everything below it and nothing else.

### `Sessions`

One variable for each process: `client` (by turn of `main` and `execute`),
`parent` (by line of its loop), `child` (of each connection, including zombie and
reaped), `handler` and `pending` for SIGCHLD. The handler interrupts the parent,
which does nothing while it runs. The kernel's part is as the calls are
documented: at most `Backlog` connections wait; one signal is pending at most;
a `recv` returns when the other side wrote, or when nobody holds the other end
open any more (`Hung`, `ClientGone`). That is why `newFd`, the parent's own
descriptor, matters: a client whose child died is freed only because the parent
closes its copy. Failures of `fork`, of connecting, and of the child at its work
are alternatives of their actions.

### `XPathParser`

`state` is `current_state`, with "START" before the loop and "FILTER" for
`attribute_do`'s inner loop; each action is a handler together with what
`parse` does with the state it returns (`Leave`). A command is a sequence of
symbols where a run of letters or digits is one symbol; how long it is, and so what
`create_field` copies of a name that has no terminator, is left out. `read_operator` and
`read_filter` are functions of the text and a position and return what they made
and the next position. `beyond` stands for reading behind the terminator and
for a view that does not exist.

`XPathQueries` starts the same parser on the text of a query that is kept in
`query`, and compares the result with the view it should have. `EveryQuery` is all of
them, of any number of levels, filters and comparators; TLC gets some, `Queries`. Its
assumption `SymbolsAssumption` says that a run of letters or of digits is no mark, nor
both a name and a number.

### Messages: `MessageSchema`, `MessageEncoder`, `MessageDecoder`

`FieldList` is the FIELDLISTs of `message.pb.h`. `Layouts` computes the structs by
C's rules from it (a union's members share their place, counts and `which_` members
come before), and `FieldInfo` what `load_descriptor_values` reads back from a
descriptor; the assumption `FieldsFit` is PB_FIELDINFO_ASSERT, that each number
fits the bits its descriptor has for it. Sizes are those of a 64-bit Linux;
`ArraySize` and `StringSize` are 5 and 16 in `message.proto`.

`MessageDecoder` knows nothing of these messages: its constant `Descriptor`
gives each message a struct's size, its fields, and the bytes that
`pb_message_set_to_defaults` clears. `DescriptorAssumption` is what PB_BIND and
the structs make true of them: numbers of 16 bits, fields inside the struct and
apart from each other, but for the members of a union, which share a `which_`;
`NestingAssumption` is C's rule that no struct is in itself. TLC checks both for the
protocol's own. Memory is
bytes: `dest` is a function on those that were written, so that a write outside
the struct, or a byte nobody wrote, can be seen.

| in the module | in `pb_decode.c` |
|---|---|
| `stack` | the activations of `pb_decode_inner`, each with its stream (`left` is `bytes_left`) and `fields_seen`; `end` is for the invariant |
| `BadTag` | `pb_decode_tag` fails or finds 0 |
| `SkipField` | `pb_skip_field`, for a tag the message does not have |
| `RefuseField` | `decode_static_field` and `decode_basic_field` when the array is full or the wire type is another |
| `DecodeVarint`, `DecodeFixed32`, `DecodeString` | `pb_dec_varint`, `pb_decode_fixed32`, `pb_dec_string`, with what each has written when it fails |
| `DecodeSubmessage` | `pb_make_string_substream`, and the entry of an array cleared (`Entered`) |
| `EndMessage` | the end of `pb_decode_inner`: required fields, and back to the stream around |

A step is one field with its tag. A varint of a length is capped at 2^30, as no
buffer is as long. `pb_encode` is a function of the memory it is given
(`Encoded`), as nothing else can happen while it runs; it returns what is in the
buffer, and whether that is all.

The decoder and the encoder have been compared with nanopb, compiled from this
repository with the sizes of the runs, on some 9400 messages: status, position
and every byte of the struct agree.

### `Exchange`

`view` is what the client's `parse` returned; `Ask` is `execute` up to `send`:
`TreeMemory` lays the view out as `convert_to_message` does and `Encoded` fills the
buffer. `fill` stands for every byte of a buffer that was not written. A `recv`
gets the first `n` bytes of the buffer (`Received`); the decoder's own
steps run on them (`Decoding`), and the server acts on `dest` whatever `status`
is, as the code does. What `parse_request` finds or returns is any of `Founds`
and `Codes`. `AskFaults` is a view whose conversion follows NULL or leaves an array;
`ServerFaults` is `get_collection` with more tuples than its array holds. `shown` is
what `execute` returns: what was decoded, or 0 if the client asked for tuples, whatever
the server answered (`client.c:187`).

`QueryOf` and `QueryAt` list the fields of a query, the client's and the one decoded, in
the order of the wire. `PartIsOfTheQuery` compares the two lists up to where the request
is cut. It does not say that the server understands what it has: of a level cut before
its parent it reads 0, which is a level from the root.
The union of an Attribute is left out of the conversion: the code never sets
`which_values`, so nothing of it is sent.

## 4. What the runs check

| run | module, specification | bounds | states | shows |
|---|---|---|---|---|
| `Shallow` | `MCWorkloads`, `ShallowSpec` | 4 ids, an integer and a string field, two texts, 4 parents | 82 072 | the refinement `KeepsPromise`; every offset used is in the file; entries, strings and slots stay together; other tuples stay readable at each step of a call; no slot is lost |
| `Integers` | `ShallowSpec` | 4 ids, slots of 3 words, so that the array grows at the third id, gives ids back, and grows again; two values | 511 462 | the same refinement for integers, and the inductive invariants `ShallowInv` and `CallTraced` |
| `Growing` | `GrowingSpec` | 11 ids with strings, two texts, slots of 4 words: two growths, over a tuple and over a string, and enough ids after each to write over what was there | 23 291 | growth moves tuples, then strings, and keeps them together: the inductive invariants `GrowingInv` and `GrowingTraced`, and the refinement |
| `Anything` | `MCAnyCalls`, `AnySpec` | 4 ids, an integer field of one value, slots of 3 words, parents that exist or not, cycles; the array grows and is given back | 142 077 | words keep their type; before a call goes astray nothing else is damaged and no slot is given up twice; each call ends |
| `Sessions` | `Sessions`, `FairSpec` | 2 clients, 3 connections, backlog 1 | 294 019 | no zombie is forgotten; whoever has sent a request is freed; every child is reaped |
| `Commands` | `MCXPathParser`, `AnySpec` | queries of up to 3 levels, 2 filters a level, 2 comparators a filter; all texts of up to 4 of 12 symbols, and all such texts inside a filter | 632 457 | the parser makes the view of each query; every command ends; views are complete; texts without a bracket are never left |
| `Decoding` | `MCMessageDecoder`, `FairSpec` | arrays of 2 entries, strings of 3 bytes; up to two of 12 fields, good and bad, alone, after a whole attribute, and inside each message that holds attributes | 48 064 | nothing is written outside the struct or read outside the buffer; what is accepted can be read, whatever was in memory (with the inductive invariants `DecoderInv` and `ReadableInv`); decoding ends |
| `Exchange` | `MCExchange`, `ExchangeSpec` | the same sizes, buffers of 64 bytes, clear or filled with 8; every part of a request from 0 to 64 bytes, answers of 0, 1, 2 and 64; up to 3 tuples for an array of 2 | 380 400 | a request that arrives is the client's; of one that does not, the server acts on its beginning; an answer that is lost is taken for success, as is any answer to a find, and no other code is ever shown |

The bounds are chosen so that each thing happens that the properties are about:
a removal that moves its own parent's slot, a string or an unrelated tuple; an
array that takes over a slot that holds a tuple with a string; a slot of the
array that is given back and taken again; signals that merge; a full backlog. A
fourth id is needed for a parent, two childs and a bystander, and under any calls for
two cycles at once; with strings most calls outside a discipline leave the file
(`lost`) before they damage anything, so `Anything` has integers; two clients for
one that is idle while the other must be served, three connections for a
client to come back. In the parser a third level adds nothing but its place.
Strings of two pieces are in `LongText` only: no call with them keeps a promise,
and that the words keep their type under any call is proved. In
the messages an array of two entries can be full and overflow by one, a string
of three bytes can be one too long, and a Collection is four messages deep.
A buffer of 64 bytes is filled by a query of two levels with filters, so
that some queries fit and some do not; 8 as a filling is a tag that every message
has, the first of its fields.

### Fairness

* `WF_vars(Inner)` in the storage specifications: a call that has begun goes on.
  It runs in a process that does nothing else. No call is ever obliged to begin.
* In `Sessions` each process of the server, the handler, and a client's
  `recv` take a step when they can: the kernel's scheduler. `Ask` has no
  fairness, since nothing obliges a user to type, and a child may wait for ever
  in `recv`; that others are served meanwhile is part of `ClientsServed`. That
  `ChildWork` ends is `CallsEnd` of the storage.
* `WF_vars(Step)` in the parser, `WF_decoder(Next)` in the decoder: a sequential
  loop runs.
* `Exchange` states none: a recv may wait for ever. Its properties are safety.

## 5. Where code and promise part

Three runs expect a violation of `KeepsPromise`, one of
`FoundIsShown`; `PROJECT.json` quotes the lines.

* `DeepRemoval`: removing a tuple whose child lies in another place of the file
  uses an offset read before the child's removal moved slots.
* `LongText`: the pieces of a long string are linked by offsets counted from the
  wrong place.
* `DeadUpdate`: updating an id without a tuple overwrites the header.
* `Found`: the client decodes the tuples it asked for with the description of a
  return code, so it shows none, or as many as the code says.

Four more conflicts are known and kept out by the disciplines and bounds. Removing
a tuple with two strings reads the offsets of both (`crud.c:70`) before it removes
the first, which moves the last slot of the file into its place; when that is the
second string, as it is for the newest tuple, what is read and removed next lies
behind the end of the file (`StaysInside` fails in run `Shallow` with two string
fields), so the runs with removals have at most one. Once the array has
grown over a tuple with a string the tuple lies behind its string, and removing
it uses a stale offset as in `DeepRemoval`, so strings are either added over growths
(`Growing`) or removed without them (`Shallow`). And a field that equals an offset is
overwritten when that slot moves.

When ids are given back the array keeps its slots, but the test for growth is of the
ids alone. So when they are taken again the array "grows" once more: the slot that it took
over the first time, and still has, is copied to the end of the file, where nothing
leads to it. A slot is lost each time. `Integers` meets this, and nothing that is in use is
damaged; `NoSlotWasted` is checked only where removals and growth do not meet.

In the exchange, `pb_decode` fails for every query that does not fill the buffer: it
takes the zeros behind the message for a field of tag 0, before it looks for
required fields. The server answers because it ignores the result. If the bytes
behind the message are not clear, they are decoded too and may change the
query; `Arrives` is about clear buffers, or full ones.

These are why `ShallowSpec` and the other disciplines are what they are.

## 6. What is proved

TLAPS proves the following for every value of the constants that satisfies the
named ASSUMEs; no other assumption is made.

**Layout** (`TreeFileProofs`). `RealIdArraySizeFits`: the array as sized has an
entry for every id given out and ends at the end of a slot. `GrowthAtSlotEnds`:
the test `append_to_id_array` makes, of one more than the ids against the size of
the array, is a test against the size of a slot. `RealStringSizeFits`: padding.

**Types** (`TreeFileProofs!TypeCorrect`): `Spec => []TypeOK`, for any calls.

**Storage of integers** (`ShallowProofs`). For patterns
without string fields (`OnlyIntegers`), any number of fields, ids and slots, any
number of growths, and removals of tuples with any number of childs
(`ShallowSpec`): `ShallowCorrect` (`[]ShallowInv`), and from it
`ShallowStaysInside`, `ShallowArrayApart`, `ShallowEntriesReachTuples` and
`ShallowRemovedOnce`; `ShallowCallTraced` (`[]CallTraced`), and from it
`ShallowOthersReadable` and the refinement, `ShallowKeepsPromise`.

None of these is inductive. A slot is repaired when it is moved because
the entry found through its id equals its offset; for that, the word must not be
mistaken for anything else, hence `OffsetsAreEntries`: nothing but an entry is as
large as an offset. `EntriesLead` gives each live id a slot of its own behind the
array. `AddSound` says that the tuple being added keeps its slot until its call
ends, `RemoveSound` that a removal has at most two activations, the tuple's and
that of one child, whose ids are dead and whose slots are their own, and that the
childs still to be removed are live, have no childs and lie behind the tuple. That
they lie behind is what the discipline is for: a slot given up is filled
with the last one, and so the tuple's own is never the one that moves.
The growth of the array takes the slot behind it *after* the new
tuple has been inserted, so it could take the new tuple's own slot;
`GrowthSound` rules that out: when growth is due, the last id given out is
live, so its slot lies there, or a spare slot does that an earlier, longer array
left behind.
To tell whether a slot is a tuple `swap_tuple_to` looks up the entry of the id in its
second word, and for a slot of the array or a spare one that word is no id but whatever
was left there; a lookup behind the end would be a read of nothing. `NamesSound` says
that there is a slot, behind the array and before every slot in use, which no such word
leads beyond, so the entry that is compared is always in the file.

`CallTraced` relates the file to `before`, what could be read when the call
began: during an addition the tuples are the same, but for the new one; during an
update there is no state between; during a removal, each tuple still live reads
as it did, and those that are not are the tuple and childs of it (so the childs
found through the file are the childs in the abstract tree). The refinement then has one
step for each action (`StepPromised`): the last step of a call is the step of
`TreeStore`, all others stutter.

`ShallowProofs` has a lemma for each file operation (moving a slot, cutting the
last, refilling a hole, appending, naming, forgetting), then
one for each action. TLC checks both invariants in run `Integers`.

**Storage of strings under growth** (`GrowingProofs`). For patterns with any
number of string fields beside integers, strings of one piece and integers smaller
than an offset (`OnePieceTexts`), any number of ids, slots and growths, additions
and updates (`GrowingSpec`): `GrowingCorrect` (`[]GrowingInv`), and from it
`GrowingStringsBelong`, `GrowingNoSlotWasted`, `GrowingArrayApart`,
`GrowingEntriesReachTuples` and `GrowingStaysInside`; `GrowingCallTraced`
(`[]GrowingTraced`), and with it `GrowingOthersReadable` and the refinement,
`GrowingKeepsPromise`. `OnePieceTexts` is where the code can keep a promise at all:
longer strings fail in `LongText`.

What is hard is `append_to_id_array`. When the array is full it takes over the slot
behind it, and whatever is in that slot, the tuple being added included, goes to the
end of the file; the one reference to it must be found and changed. A tuple is
recognised because its id leads to it; then its entry and the links back from all its
strings change. Anything else is taken for a piece of a string: the slot that its first
word names must hold its offset, and the word that does is changed (`RelinkHolder`).
`GrowingInv` is what makes this right. Every id has a tuple
in a slot of its own (`Grown`). Every string field of a tuple holds the offset of a
slot that is no tuple's and no other string's, is one piece and leads back to the tuple, and
no other word is as large as an offset (`HasStrings`). Every slot is one of these
(`UsedBy`), so the array grows over nothing else. While a tuple is added, its words are in
`add_tuple`'s locals, and its strings lead back to a slot that does not yet hold their
offsets (`TupleWords`, `FieldsWritten`). The array grows when the slot is reserved, before
the first string is inserted, so no string moves while its offset is only in the locals;
this is the order of the calls, and the invariant shows that it suffices.

`GrowingProofs` has a lemma for each file operation. `MoveTupleSlot` and
`MoveStringSlot` say what moving does to references; `ReserveInPlace` and `ReserveByMoving`
add a tuple without and with growth; `CarriedStrings`, `CarriedCovered`
and `CarriedContents` say that what holds before a move holds after it, along the map from
old places to new; `WriteSlot` and `WriteText` change a tuple and a string. `OnePiece` is the
proof that following a string ends after one piece: `Pieces` recurses on the number of slots
in the file, and that such a function exists at all needs induction over the numbers
(`SetInduction`, `Iteration`), from the library's `WFMin`. Then there is a lemma for each action. TLC checks both invariants in run `Growing`.

**Sessions** (`SessionsProofs!NoZombieForgotten`): `Spec => []ZombiesNoticed`,
for any number of clients and connections. It is inductive as it stands, and so
is `TypeOK` (`SessionsProofs!TypeCorrect`), with the bound of the backlog in it.

**The parser** (`XPathProofs`): `Spec(commands) => []Complete`
(`ViewIsComplete`) and `Spec(commands) => []StaysInText` (`NeverBehindTheText`),
for commands with texts of any length over any set of symbols, from
`NumbersAssumption` alone: a run of digits is no mark. Neither is inductive. That a level
put away has an id needs to know what each handler may rely on (`Ready`): a level
is fresh where `name_do` begins, whole where a filter may follow, and between
levels either fresh again or the last one, with the text at its end. That its filters
have comparators needs the symbol at the place of reading: only the filter just
opened is still without, and while it is, the text is at its bracket, which
`attribute_do`'s loop does not take for an end (`Opened`). That one level alone
is not relative needs the tree to be empty exactly while the level being read is
the first. `StaysInText` rests on the types: with no bracket, only the states
that stop at the terminator are reached. `LeaveInv` is the lemma for what `parse`
does after any handler; `StepInv` has one step for each handler.

`QuerySpec(queries) => []Parsed` (`QueriesAreParsed`) holds for any set of `EveryQuery`:
every query becomes its view. Besides `NumbersAssumption` it needs
`SymbolsAssumption`. The inductive invariant is `ReadSoFar` of `XPathReading`: at each
state of the table there are a level, a filter and a comparator such that what is left of the
text is exactly the text of the parts still to come, and the level being read and the
tree are the views of the parts before, last one first. A handler then finds at
`for_parse` what the query says comes next: an end of the text only where no level is
left, a bracket only where a filter is. Each handler has a lemma
(`StartRead`, `NextRead`, `NameRead`, `AttributeRead`, `FilterEndRead`,
`ComparatorStep`; `ReadingGoesOn` puts them together), and `ReadOn` is how a symbol that was read is taken off
the text. Texts are `FlattenSeq` of the texts of parts; its first
part is split off by induction over the length (`SequenceLemmas`). TLC checked `ReadSoFar`
on the queries of `Commands`, with one filter a level, before it was proved, and
`QueriesAreQueries` is the lemma that those are some of `EveryQuery`.

**The decoder** (`DecoderProofs!DecoderCorrect`): `Spec => []DecoderInv` for any
messages with the properties of `DescriptorAssumption` and any buffer; from it
`DecoderTypeOK`, `DecoderWritesInside` and `DecoderStreamsNest`. `WritesInside`
is not inductive: a write is inside the outermost struct only if the struct being
filled is (`MessagesFit`), and a count that is counted up must have been
written before (`CountsThere`), which for the entries of arrays holds because
they are cleared when they are entered, and for other embedded messages because
clearing the outer struct clears them. `StreamsNest` gives every stream the
place where it ends; that the sum is right is what lets `DecodeSubmessage` take the
bytes of a substream off its parent before it has read any. The proof has a lemma for
each action.

`OkIsReadable` needs more (`DecoderReadable`: `Spec => []ReadableInv`, then
`DecoderOkIsReadable`). While a message is read, each of its values can be read but
those of required fields not seen yet (`FrameReadable`); a message among these still
has its defaults (`Fresh`), so that it is as good as new when it is entered. A
message may come twice on the wire, and the second time goes over the first; that is
sound because what can be read already meets `FrameReadable` with nothing seen
(`ReadableFrame`). Of each message around, the same holds but for the one
value that is being read in it (`AroundReadable`): a union's `which_` and
an array's count are written before the value they tell of. When a message ends with
all of its required fields it can be read (`FrameDone`), and so fills the place in
the one around (`FrameFilled`).

That a write disturbs nothing else is locality: what can be read of a struct depends on
its own bytes (`ReadableKept`), and the place of a field is apart from all others but
the members of its union, which are gone once `which_` names another. `Readable` is
a recursive function over the messages; that there is one follows from
`NestingAssumption`, by induction on the set of messages for which it is not yet known
(`MessageInduction`, `ReadsExist`).

**The answer** (`ExchangeProofs!AnswerIsShown`): `ExchangeSpec => []AnswerArrives`. The
client shows the code that the server answered, or 0 if the answer did not all arrive or
the client had asked for tuples;
whatever part of the query or of the answer arrives, for any views, fillings and tuples.
Its assumptions are `CodecAssumption`, that the decoder has the messages and
descriptors of `MessageSchema`, which the decoder alone does not need, and
`AnswersAssumption`: a buffer of two bytes or more (BUFFER_SIZE is 1024) and codes below 128
(`parse_request` returns 0, 1, 13, 42 or a status of the `crud_` functions, 0 to 2); larger
ones take more than a byte on the wire. It says nothing when the buffers are not clear, nor
does the property.

This is about the whole codec, so the proof begins with what the descriptors say. `Layouts`
(structs), `Zeroed` (defaults) and `Writes` (encoding) are each a recursive function over
the order of declaration, which is ten messages; that there is one is shown by writing it
down (`LayoutsEquation`, `ZeroedEquation`, `WritesEquation`), and messages declared after
the answer's do not change what is known of it (`Behind`). So the answer has one field, a
varint at offset 0 (`AnswersDescriptor`), and is encoded as the bytes `<<8, code>>`
(`EncodedAnswer`); the rest of the buffer is 0, and so is the part of these two bytes that does
not arrive (`BufferHas`). The inductive invariant, `AnswerInv`, relates three things: what was
sent is `reply` encoded (`CodeSent`); what the client's decoder has of what it got is either
nothing, with the struct cleared, or the code that the buffer holds (`AnswerRead`);
and once something is shown, decoding is over (`Decoded`) and what is shown is what
`execute` makes of it (`CodeReturned`). A tag of 0 ends the decoder, with a status the client
ignores, right where a complete answer ends (`ZeroStops`); so the rest
of the buffer, which is sent and received too, cannot change the code (`CodeStays`), and an answer of which
nothing arrived leaves the default. TLC checked `AnswerInv` on run `Exchange` first.

### Only model-checked

`StringsBelong`, `NoSlotWasted` and the refinement where tuples with strings are
removed; the properties of `AnyCalls`; of the exchange, what
becomes of a query: `Arrives` and `PartIsOfTheQuery`. They need that decoding undoes
encoding for nested messages, arrays and unions, and that the members of every struct lie
apart; for the answer's one field neither is a question.
Liveness (`CallsEnd`, `ClientsServed`, `ChildrenReaped`, `Ends`,
`DecodingEnds`) is out of the prover's reach and stays with TLC. The
library's theorems for induction take an operator as a parameter, which
none of the provers can instantiate. Where a proof needs it, induction is over a set
(`SetInduction` in `GrowingProofs` and `SequenceLemmas`, from `WFMin`; `MessageInduction` in
`DecoderProofs`). What the encoder computes by recursive functions is proved of the answer, and
left to TLC for the other messages. There are no RECURSIVE operators.

## 7. What is not modelled

* `parse_request` and the searches over result lists: `console_tools.c` does not
  compile as it stands, since `do_filter` is unfinished (it ends in the token `find_`), so
  the code does not say what a request selects. `Exchange` lets the handler find any
  tuples and return any code.
* Of nanopb: callbacks, extensions, pointers and allocation, optional and packed
  fields, and field types that no message of the program has; streams other than
  buffers.
* The dialogues of the console, the printers: output. The interactive loop is
  commented out in the program.
* `open_file_anyway` on a file without a header; I/O errors, whose status no
  caller looks at; memory that is never freed.
* Concurrent children on one file: the storage modules have one process.
* The build files and the compiler probes under `proto/nanopb/CMakeFiles`.
