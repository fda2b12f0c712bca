# car-writer in TLA+

This directory is a formal model of ios-car-writer, from the command line down
to the bits of its compressor: `libbom`, which keeps a BOM container (a header,
an index of blocks, named variables, trees) in one growing piece of memory;
`libcar`, which writes an asset catalog into a container, reads it back, and
codes the pixels of its renditions; the tool that copies and patches catalogs;
and the LZFSE and LZVN codec the pixels go through. TLC checks the models on
small instances; TLAPS proves the central invariants for every size.

The program is sequential. What makes the container hard is that every insertion
moves every byte behind it: an operation must shift the header, the index, the
variables, the free list and all blocks consistently, with pointers fetched
again at the right moments, and an operation that gets one of them wrong leaves
a file that this library may still read and other readers reject. The comments
of the source tell of several such bugs (`bom.c:340`, `bom_tree.c:294`,
`Writer.cpp:94`), none of which a test had found. What makes the codec hard
is what its encoders hold back: a match that may still be dropped for a better
one, triples and literals that wait for a block, positions in a table that are
moved when a chunk of the source is done. A slip there loses or doubles bytes
of some sources only.

## The system

| component | state | operations | what makes it correct |
|---|---|---|---|
| BOM container, `libbom/Sources/bom.c` | one memory: `bom_header`, index with `<address, length>` entries and a free list, variables, blocks | `bom_alloc_empty`, `bom_alloc_load`, `bom_index_reserve/add/append/get`, `bom_free_indices_add`, `bom_variable_add/get`, `bom_relocate_trailer` | no two sections or blocks share a byte; contents and numbers of blocks survive every other operation; the free list stays intact; a relocation leaves the form that real readers expect |
| BOM tree, `bom_tree.c` | a `bom_tree` block, a leaf block, a block per key and value | `alloc_empty`, `alloc_load`, `reserve`, `add`, `iterate` | sorted leaf; nothing lost; entries inside the leaf's block; the search ends |
| backing memory, `bom_memory.c` | heap block or mapped file | `resize`, `free` | old bytes kept |
| writer, `libcar/Sources/Writer.cpp` | facets, renditions, raw renditions, optional key format and header | `addFacet`, `addRendition` (two), `write` | block numbers in variables and trees are right throughout; what was added can be read back; the reserved index space lasts as long as it should |
| reader, `Reader.cpp` | facets by name, renditions by identifier, pointers into the memory | `Load`, `lookupFacet`, `lookupRenditions`, iterations | finds exactly what is in the file |
| attribute lists and facets, `AttributeList.cpp`, `Facet.cpp` | map from identifiers to 16-bit values | `Load`, `write`, `get`, `set` | writing and loading are inverse |
| variable passthrough, `VariablePassthrough.cpp` | map from source to destination block numbers | clones variables the writer does not manage | the clone is isomorphic to the source |
| renditions, `Rendition.cpp` | pixels or raw data, the value in the file, the place of a walk or a decoder in it | `Encode`, `write`, `Load`, `data`, `Decode` | `Load` and `data()` give back what was written; blocks fill the value and the image |
| compression, `lzfse/src` | the encoder's table, held-back match and waiting triples; the decoder's place in a block | `lzfse_encode_buffer`, `lzfse_decode_buffer` and what they call | decoding gives the source; no buffer or accumulator is too small; every call ends |
| command line, `car_roundtrip.cpp` | the files of its paths, what it has mapped | `roundtrip`, `verify`, `patch` | output equals input except what is patched |

A rendition's pixels are compressed by zlib, which is external, or in blocks by
`lzfse_encode_buffer`, which chooses between raw bytes, LZVN and LZFSE by the
size of the source and falls back from one to the other.

The tool opens a source catalog through the reader, hands its renditions and
facets to a writer on an empty container, calls `write()`, passes the other
variables through, and relocates the trailer last. Reader and writer call the
tree and the container; the tree finds itself again by the name of its
variable on every call and refers to blocks by number; the container calls the
backing memory, which may move everything.

`PROJECT.json` lists the hazards of this code line by line, with the
properties that cover each, and, where none does yet, why.

## The modules

Each layer is specified by itself and used by the next one.

    BomLayout ── BomLayout_proofs
        │  └──────── BomStore ──────── BomStore_proofs
        │            ▲
        │            │ implements (geometry)
        ├─────── BomBytes ──implements (contents)──▶ BlockStore
        │            └──── BomBytes_proofs (DataLemmas)
        │
        ├─────── BomFile ── CarReader ── CarWriter
        │          ▲            ▲
     BomLeaf ──────┤        CarFormat
        │       KeyOrder
        └── BomTree ── BomTree_proofs

     VariablePassthrough ── VariablePassthrough_proofs ─┐
     CarFormat ── CarTool ── CarTool_proofs ────────────┼── DataLemmas
     BomLayout_proofs, CarWriter ── CarWriter_proofs ───┘

     Fse ── LzfseBlock ── LzfseEncoder ─┐
     LzvnOpcodes ── Lzvn ───────────────┴─ LzfseDecoder ── Compression
          └── DataLemmas

     Rendition

**BomLayout** has the geometry of a container as a record and every operation
of `bom.c` as an operator from records to records. The fields are those of
`struct bom_header`, the size of the memory and the entries of the index. Two
more fields are not stored in the file: `variable_bytes`, the walk that
`bom_variable_add` repeats, and `freelist_offset`, the place of the free list
that no code keeps track of. `Resize` is `_bom_address_resize` with
`_bom_address_update_all`; the growth tests, the point of insertion and the
addresses read before a resize are those of the code. `SoundLayout` says what a
sound layout is.

**BomStore** is the container driven by its callers. `Spec` allows any
sequence of operations. `CarefulSpec` adds what a caller has to respect for
the layout to stay sound: several vacant entries at a time only where the
index has room for them, and nothing appended to a block without bytes. The
violated runs use `Spec`, the passing one and the theorems `CarefulSpec`.

**BlockStore** is the abstract container: a sequence of blocks and a sequence
of named references, and no geometry. Each operation touches one of them.

**BomBytes** is the container as bytes. Each C function is the sequence of its
loads, stores and moves on `mem`; a load finds what an earlier store or move
left there; bytes that `realloc` adds are junk. It is checked, and proved, to
implement both `BlockStore` (the operators `BlocksOf`, `VariablesOf` read the bytes
as `bom_index_get` and `bom_variable_iterate` do) and `BomStore` (`LayoutOf`
reads the offsets). This is what ties `BomLayout` to the code. The loops over the
entries of the index are functions of the number of turns (`EntriesShifted`,
`EntriesFollowed`), each turn loading what the one before stored.

**BomLeaf**, **KeyOrder** and **BomTree** are the tree. `BomTree` takes
`bom_tree_add` apart into the test for room (`BeginAdd`), one turn of the
search per step (`CompareOne`), its end (`EndSearch`) and the insertion
(`Place`). Keys and their order are parameters; `KeyOrder` has the order of the
code. `CarefulSpec` adds no more than was reserved plus what an empty leaf has
room for.

**BomFile** joins a layout with the contents of blocks and the variables, so
that code which calls `libbom` can be modelled as a sequence of calls. A search
ends anywhere the key fits (`Places`), which is what `BomTree` shows of it;
among equal keys that is nondeterministic.

**CarFormat**, **CarReader** and **CarWriter** are the catalog. `CarWriter` is
a writer from its creation to the end of the tool's use of it: the caller adds
facets and renditions, `write()` runs call by call with the iteration order of
its unordered maps open, then the caller passes variables through and moves the
trailer. `pc` is the place in `write()`, `todo` what its loop has left.
`CarReader` says what `Reader::Load` and the lookups make of a file. A lookup is
a function from the places of the hits in the leaf, since the multimap that the
code fills promises no order among equal identifiers.

**VariablePassthrough** is `passthroughUnmanagedVariables` with its
`TreeGraphCloner`. The recursion of `cloneEntry` is a stack with a frame for
each call that has not returned; a frame has the buffer that the call works on,
the reserved number and the place to go on from. `map` is `_indexMap`. Both
files are what `BlockStore` promises, blocks and variables; the geometry of the
destination does not matter to the clone, and what the added blocks do to it is
in `CarWriter`. The field `literal` of a key slot says what the author of the
file meant. The code cannot see it; only the properties look at it.

**CarTool** is the command line: commands that run one after the other on files
that outlive the process. `files` says which file a path names, `disk` what each
file holds, the removed ones included, as `unlink` leaves a mapped file to
those who have it mapped. `pc` is the place in a command, `todo` what its loop
has left. A command may fail or be killed between any two calls of the library,
and the next one, which may be given any paths, finds what it left. A file is
the set of its variables with their contents; a tree is the set of its entries,
written in any order. `made` is a history variable: from what and how each file
was made.

`RoundtripVerifies` is an equivalence. verify accepts the output of a whole
roundtrip only if the source has the versions that are built into verify, and
facets that `Facet::write` reproduces: its hot spot is zero and its pairs
ascend. `VerifiedIsCopy` is the reason why comparing the names of unmanaged
variables suffices after a command that was killed: a variable is either there
as a whole or not at all.

**Fse**, **LzfseBlock**, **LzfseEncoder**, **LzvnOpcodes**, **Lzvn**,
**LzfseDecoder** and **Compression** are the codec. `Fse` has the entropy
coder: how counted symbols become frequencies that fill the states, the tables
of encoder and decoder, one step of each, and the accumulator through which
bits go to a stream and back. `LzfseBlock` makes a block of literals and
triples (`L` literals, then `M` bytes from a distance `D`): the base and extra
bits of values, the literals in four interleaved states, the header with
its frequencies. `LzfseEncoder` and `Lzvn` are the searches, records with
everything that the encoder structures remember; an operator is one turn
of a loop of the code. `LzvnOpcodes` has the instructions of LZVN as
sums of their fields, as `emit` builds them and as the decoder's table tells
them apart. `LzfseDecoder` runs block by block, and in a block one raw run, one
instruction or one triple at a time. `Compression` makes the actions of these
operators: a call of `lzfse_encode_buffer`, then one of `lzfse_decode_buffer`
on the stream or on its beginning. Streams of bits are sequences of bits, so
that a value is read from the bits that were written; a block is a record
instead of its bytes, with its length, since where blocks begin is all that the
properties ask of it. `reach`, `filled` and `read` record how far the wide copies
of the code go, which is past the byte they are for: in both encoders, in the
decoder of LZVN, whose instructions choose between words and bytes by what is
left of source and destination (`LiteralStores`, `MatchStores`), and in that of
LZFSE.

The sizes of the code (14-bit hashes, 40-byte matches, 10000 triples in a block,
4096 bytes for LZVN) are constants, so that TLC meets full tables, full blocks,
cut matches and moved chunks on sources of sixty bytes.

**Rendition** is a rendition and its value. The bytes after a value's header
are items at addresses: segments of the info section, headers and blocks of
compressed bytes. What finds an item at an address that has none finds
`Nothing`, so `Load`'s walk over segments and the decoder's over
blocks are checked for where they land. The lengths of compressed streams are
any that the compressors may give. A value is written, loaded, decoded and
written anew, or it comes from another program and only some of it can be
decoded. A scale is in hundredths: `ScaleFactor` is `static_cast<uint32_t>(_scale
* 100)`, which is one less for the numbers of `ShortScales`, those whose hundredth
is a double that times 100 falls short. `clock` moves with every step, so that an
`inflate` that gives nothing and is called again is a loop and no standstill.

**DataLemmas** has the facts about sequences, sets and bytes that the proofs need,
stated of sequences with elements of any kind.

Definitions under a comment "mutant" are not part of a model. Each is a slip
that the operator after it could have had, and the property named with it in
`PROJECT.json` is violated when the operator is replaced by it.

## The runs

| run | question | states |
|---|---|---|
| `store_layout` | Do careful operations in any order keep the layout sound (`Sound`), keep the order of blocks and every length but that of an append (`OrderKept`), and relocate into the form that readers expect (`RelocatedForm`)? | 175 014 |
| `store_bytes` | Do the bytes keep contents and variables (`BytesImplementBlocks`), follow the geometry (`BytesImplementGeometry`) and load again (`WellFormed`)? | 3 736 |
| `tree_insertion` | Does `bom_tree_add` keep a leaf sorted, complete and inside its block, and does it end? | 19 376 |
| `catalog_written` | Does a catalog load as what was added (`ReadBack`), do its block numbers hold at every moment (`ReferencesHold`), are its leaves fit for a search (`LeavesSearchable`), and do its layout and what is reserved for it last as far as they do (`LayoutHolds`)? | 162 056 |
| `passthrough` | Is the clone of a tree equal to its source up to numbers (`ClonedFaithfully`), does it read the same (`ReadsTheSame`), and does the recursion end? | 1 114 |
| `command_line` | Do roundtrip, patch and verify keep what they must, whatever fails or is killed? | 453 440 |
| `compression` | Does what was compressed decode to the source (`DecodesBack`), is what the encoders remember and hold back true (`SearchHolds`), do wide copies, accumulators and tables stay inside (`NothingOverruns`), is nothing refused that fits (`NeverRefused`), and does every call end? | 37 266 |
| `rendition` | Does a value load and decode to the rendition that was written (`ReadBack`), do walks stay on headers (`WalksOnHeaders`), do lengths and pages add up to the value and the image (`BlocksFillValue`), and does reading end, but where a foreign stream gives nothing (`ReadingEnds`)? | 24 912 |
| `free_indices_gap` | violated: "variables_offset == index_offset + index_length" (`bom.c:166`) | |
| `leaf_overrun` | violated: "extending the size as necessary" (`bom_tree.c:247`) | |
| `nonleaf_references` | violated: "every reference to it rewritten" (`VariablePassthrough.cpp:62`) | |
| `unclean_failure` | violated: malformed input "fails cleanly" (`car_roundtrip.cpp:84`) | |

In `free_indices_gap`, `bom_free_indices_add` makes room for one entry and
accounts for `count`. `Writer::write` ends with `bom_free_indices_add(2)`. It reserves
8 entries and two for each facet and rendition (`IndexCount`); its calls take one
more, as the count of `Writer.cpp:84-90` leaves out the placeholder at index 0, so
that the last call always has to grow the index. `ReservationLasts`, a part of
`LayoutHolds`, states both halves: no call before the last one grows the index,
and all reserved entries but one are used when the last one begins. The
file it leaves has an index section that is said to reach 8 bytes into the
variables. `catalog_written` shows what still holds of such a file: the used
entries do not reach the variables or a block (`IndexReadable`), so
this library reads it. A block added after that, by the passthrough, uses the
slots that the free list is in.

Disagreements between the code and what is said of it that came up in the
reading, and that no run shows:

* `block_count` counts the vacant entries that `bom_free_indices_add` makes as
  well; the comment says it counts useful indices (`bom.c:451-452`).
* A literal in a key slot that happens to be the number of a block is rewritten
  (`VariablePassthrough.cpp:189`), where the comments promise that literals are
  passed through (`:44`, `:72-73`). The files of `passthrough` have no such
  literal.
* `write()` stores the length of the data in `payload_size`; `car_format.h:283`
  says that it is the length of the info section and the data.
* A stream that ends inside a block of LZVN is answered as if the destination
  were full (`lzfse_decode_base.c:619-620`), so the caller is told that all of
  it was written, which `lzfse.h:123-125` says of a destination that is too small.
  `DecodesBack` states what happens.
* patch says that it preserves every other fact of a rendition
  (`car_roundtrip.cpp:817`); slices and the type identifier are not carried over.
* `emit` copies literals by words of eight bytes, so it may read up to `L+7`; its
  comment says `L+4` (`lzvn_encode_base.c:90`).
* A scale is stored as a truncated hundredth, so that some values (1.14) lose one
  with each writing. `ReadBack` says so: whole scales come back, others lose a
  hundredth at most.
* `data()` inflates a stream that gives nothing for ever (`Rendition.cpp:365-400`):
  an empty one, or one that the length in its header cuts short. `write()` makes
  no such stream. The run has them, and `ReadingEnds` excepts them (`Stalls`).

### Bounds

* `store_layout`: blocks of 0 and 5 bytes, one name of 3 bytes, one slot
  reserved at a time, one or two vacant entries, a file of at most 136 bytes.
  An empty file has 60 bytes; 136 leave room for a block, a growth of the index
  and two relocations with an operation in between, and for as many as nine
  operations without. Blocks of 0 bytes share their address with the next one,
  which is the boundary case of every shift.
* `store_bytes`: 100 bytes, blocks of 0 and 5 bytes that may be lengthened by
  7, one junk value. It has every operation, before and after one relocation.
  A second relocation does not fit; it is checked on the geometry alone, and
  proved there.
* `tree_insertion`: a node of 32 bytes, room for two entries, so that the
  reservation and the growth test both matter; five additions give searches of
  up to three turns; the keys are the empty one, a prefix, an extension and a
  greater one, and equal ones occur by repetition. The 16-bit limit of the
  count is not reached.
* `catalog_written`: a node of 16 bytes, so that the leaves depend on the
  reservation (with 4096 nothing would, below 511 entries); two facets with
  names that are prefixes of one another, two renditions of either kind,
  attribute lists with and without the identifier, values that take one and two
  bytes, and a given key format that lacks one attribute and has another. Two
  renditions suffice for equal keys, equal identifiers and both orders; two
  blocks are passed through.

* `passthrough`: forty files. Three leaves are the fewest with one that has two
  neighbours; they are numbered with and against their order, so that forward
  and backward links point to higher and to lower numbers, and a ring makes
  calls meet nodes whose own call is open. The root is absent, empty, or has one
  or two slots. Leaves share keys and values with each other and with the second
  tree. Literals lie above the number of blocks. A tree without leaves refers to the vacant block 0, which
  the cloner finds too short for a node. The model is deterministic after the
  choice of the file, so its states are few.

* `command_line`: two paths, of which one names a catalog in the beginning, and
  three files, so that two commands create an output and the second may read, or
  replace, what a killed first one left; any number of verifications. Paths are
  symmetric. One catalog has the versions verify wants, branded facets, images
  and a colour, and an identifier that is not the first attribute of a key; one
  has other versions and pairs out of order; one has a hot spot. A kill falls
  between two calls of the library, not inside one.

* `compression`: sources of 3 to 64 symbols made of words that repeat at once,
  after a change, or never, and of single repeated bytes; they fall below the
  threshold of LZVN (40), between it and that of a huge source (56), and above,
  where chunks of 20 are moved through the window. A hash has two positions and
  three values, so that buckets collide and shed; a block takes 16 triples and
  runs of 17, so that one source fills several blocks and matches are cut.
  Destinations run from too small for anything (20) to ample (300), with the
  sizes between at which LZVN, LZFSE and the raw fallback fail in turn. Decoders
  get rooms of 0, 5, 33, 50 and 100 bytes, and streams cut by 0, 1, 11, 12, 19 and 40
  bytes: behind the marker, in it, after the last literal, and in the middle of a
  copy, where the guards of the wide loads are all that keeps them inside.
  The assumptions of `MCCompression` check the entropy coder over all tables of
  three symbols, and the code of frequencies over all 1048 of its values.
* `rendition`: pages of 3 bytes and blocks of two, so that 16 bytes of pixels take
  three blocks with a last one that is cut; frames are smaller or larger than
  what they hold; data is missing, short, exact or long; names are shorter and
  longer than their field of three; foreign values have each kind of segment,
  unknown codecs, a block of no known header, too few blocks, empty streams, and
  lengths that are zero or too short; scales are whole, fractions that survive
  and fractions that lose a hundredth. Up to two writings, so that what was read
  is written again.

`MaxSize`, `MaxPaths`, `MaxRenditions`, `MaxPassed`, `MaxFiles` and `MaxWrites` are the only
bounds in guards. The addresses of the code are 32 bits wide; the models do not wrap, as
an operation that would take the file past `MaxSize` is not taken (`Fits`). Where words
have bytes, in `BomBytes`, `BytesAssumption` says that `MaxSize` is less than 2^32.

Deadlock is checked in `compression`, where the call that has returned is an
action of its own (`Returned`). Elsewhere it is not: a container that has reached
its size, a writer that is done and a rendition that was decoded stop.

### Fairness

`AddEnds`, `Ends` and `ReadingEnds` need it. `FairSpec` of `BomTree` asks for weak fairness of
the steps of `bom_tree_add`, `Spec` of `VariablePassthrough` for that of all its
steps: once called, each function runs in its thread without waiting for anyone.
`Compression` has a `clock` that every step moves, and weak fairness of its
tick: the thread that runs a call goes on, and a loop of the code that came
back to the state it left would be a behaviour that never ends, not one that
stands still. `Rendition` is fair to the steps of `Load` and `data()` (`Reading`),
which move a clock of the same kind.
Callers are not assumed to call anything.

## The proofs

All of them are for every value of the constants that the named assumptions
allow, and TLC evaluates those assumptions in the runs.

**BomLayout_proofs** has two lemmas for each operation of the container: it maps
sound layouts to sound layouts (`ReserveSound`, `AddSound`, ...), and it keeps the
order of the used blocks and their lengths (`ReserveInOrder`, `AddInOrder`,
`LengthsKept`, ...). The modules
below use them for their steps.

**BomStore_proofs**: `CarefulSpec => []Sound` for all lengths, names, counts
and sizes, under `InputsAssumption` (they are natural numbers, and vacant
entries are added in positive numbers, as `bom.c:424` asserts). `Sound` is the
inductive invariant. The three safety properties alone are not inductive: an
insertion keeps sections apart only if its point does not lie inside one, and
where the point lies depends on the form of the file. `Fresh` and `Moved`
describe the two forms, before and after a relocation; `FreelistLast` says that
the free list ends the index section, and `IndexInWholeEntries` that the growth
test, which leaves out the four bytes of the free list's count, is right.
`LayoutStaysSound` combines the lemmas, and `TypeCorrect`, `SectionsStayApart`,
`BlocksStayApart` and `FreelistStaysIntact` follow from it. The same invariant
gives the action properties: `RelocationForm`, and `BlocksKeepOrder`, of which
only the relocation needs soundness, as it alone moves blocks past other things.
`BlocksKeepOrder` is also that no operation but the append to a block changes its
length.

**BomBytes_proofs**: the container as bytes, for every set of contents, names, counts
and lengths, any junk that `realloc` leaves, and every bound on the size below
2^32 (`BytesAssumption`). `BytesWellFormed` is `Spec => []WellFormed`: whatever
careful operations have written it, the file loads again, its blocks lie in the
buffer and its unused slots and free list are zero. `BytesAreGeometry` and
`BytesAreBlocks` are the two refinements: every operation on bytes is, step by
step, that of `BomStore` on the offsets and that of `BlockStore` on
contents. The second has the hypothesis `ShortNames`: the length of a name is
stored in one byte, so a name of 256 bytes or more is read back as another one;
the other two theorems hold of such names as well.

`WellFormed` is not inductive: it does not say where in the file anything
lies. The inductive invariant is `BytesInv`: the memory is a file, that is, there is
a layout `s` such that the header and the index encode `s` (`Encodes`), `s` is sound
by `BomLayout_proofs` and of 32 bits, what the index and the free list do not use
is zero (`Spare`), and a walk over the variables in steps of their lengths ends
where the trailer ends (`Walks`). A sound layout alone would not do: bytes that a
resize uncovers are junk until a store reaches them, and the next
`bom_variable_add` walks over the stored lengths.

For each operation one lemma follows the code through its loads, stores and moves
(`ReserveFile`, `AddFile`, `FreeFile`, `AppendFile`, `StoreFile`, `VariableFile`,
`RelocateFile`): from a file laid out as `s` it makes one laid out as the operation of
`BomLayout` says, with each block and variable of the old one at its new place,
byte by byte (`Carried`). They rest on a theory of
memory in four parts: words (a word that is stored is loaded again, `Big`); runs
(what a store, a resize or a move leaves of a run beside it); the loops over the
index, by induction over their turns (`ShiftedUpTo`, `FollowedUpTo`: the loop stores into
the index it reads from, and no turn disturbs an entry to come); and places (a point of
insertion divides no section and no block but the one that is meant to grow, which is
where `SoundLayout` comes in). The relocation is done last, since it alone moves in both
directions: its copies of the trailer and the index are taken before the memory
moves, and written after the data has overwritten the originals. The refinements then compare what `File` says before and after, and
leave of each operation one step of the abstract container.

**BomTree_proofs**: for every set of keys with a total preorder
(`OrderAssumption`) and every node size that holds a header
(`SizeAssumption`), `CarefulSpec` keeps the leaf sorted (`LeafStaysSorted`),
the search bracketed around the place of the key (`SearchIsSound`), all entries
in the block (`EntriesStayInside`) and in order (`AdditionKeepsOrder`,
`EveryEntryStays`), and every comparison narrows the range (`SearchNarrows`).
The inductive invariant `Inv` adds to sortedness that the range brackets the
key during the search and that the place fits after it, and `Room`, which ties
the length of the leaf to what was reserved.

**CarWriter_proofs**: `LayoutOfCatalogs`, which is `LayoutHolds` of every
catalog, at every moment of `write()`, with any number of blocks passed through
behind it and with the trailer moved. It rests on `SizesAssumption` and
`CatalogAssumption`: names, attribute lists and payloads have lengths, and a
node holds its header. `LayoutHolds` is far from inductive. `WriterInv`
has three stages of the file. Up to the last call of `write()` its layout is
sound, by the lemmas of `BomLayout_proofs`. That call, `bom_free_indices_add(2)`
on a full index, breaks soundness; what is left is `Fits`: the index section may
reach one entry too far, the used entries end before the variables, and the
blocks begin behind those. It is kept by what a caller
may do then (`AddFits`, `VariableFits`), and is enough for the relocation
to leave a readable file (`RelocatedIsReadable`), which is all that is claimed of
it from there. That the reservation lasts is `RoomInv`: what is used, what the calls before
the last have yet to take (`Left`) and one more are together what was reserved;
and a call that finds a free entry leaves `index_length` as it is
(`BlockTakesIndex`, `VacantTakesIndex`, `EntryTakesIndexes`). Beside the layout, `WriterInv` says what `write()` needs of the
contents: a variable is new when its tree is made (`Absent`), and
when an entry is added, the variable of its tree leads to the block of a tree and that to
a leaf (`TreeReady`), so that the block which is lengthened is one with bytes.

The contents have two more invariants. `TreesInv` is about the trees: which of
the two are in the file at each place of `write()`, in ranges of blocks
that follow one another (`BothTrees`), and with room for what is in `todo`.
`Held` says what a tree is: its entries are one to one with the facets
or renditions put in so far, each entry refers to a block with the key and one
with the value of its own, no two entries share a block or have one of a node, and no key precedes the one before it.
`FormatInv` is about the key format: it is in the file from the
place on where it is written, and stays there when the trailer has moved; every rendition has an
identifier; raw ones come with a format; and there is no header before `write()` gets
to it or when it gave up. `CatalogInv` joins them with `WriterInv`;
`CatalogInvStep` has the actions one by one. From it follow
`CatalogsAreTyped` (`TypeOK`), `ReferencesOfCatalogs` (`ReferencesHold`),
`LeavesOfCatalogs` (`LeavesSearchable`) and `CatalogsReadBack` (`ReadBack`: a file
that loads has exactly the facets and renditions that were added, whichever way a
reader takes to them, for all sets of names, attributes and key formats and
in every order of the maps). `ValuesAssumption` bounds attributes to the 16 bits that
the file has for them, `HeadersAssumption` says what a header holds, and
`FormatAssumption` that a key format has the identifier. `PairsReadBack`, `ValuesFound`
and `KeyReadBack`, which say that conversions to the file and back cancel, rest
on these.

**VariablePassthrough_proofs**: for all files, leaves in any number and order, and
any depth of recursion. Three invariants build on one another. `Inv` gives
`TypeCorrect` and `FinishedBlocksAreKept`: a number in the map is that of a
block, and a block of the written file changes only under the call that reserved
it; `StackOK` adds that every open call has its node in the map, which is why a
ring of leaves does not reserve a second block.

`CloneInv` gives `ClonesAreFaithful` (`ClonedFaithfully`). It says how far the
buffer of each open call has come (`FrameOK`: which slots and links are rewritten),
that a call waits for that of the node which follows its own (`FramesOK`), what is
passed between calls (`CallsOK`), and that what has been met is closed under what
follows it, with the exception of the innermost call (`MetOK`). That is what the
backward link needs, which is looked up and not cloned: in the phase "backward"
every node of the tree that the link can lead to is in the map, since the set of
the nodes met contains the child and is closed (`ReachedIsLeast`, `AllMet`).

`CopyInv` gives `VariablesAreKept` (`VariablesKept`) and `CopiesReadTheSame`
(`ReadsTheSame`). `VariablesOK` keeps for each registered variable the map that its
cloner had, which the code forgets, and the blocks below `Fixed`, which no
later clone touches. An iteration of the copy is then shown to correspond to
that of the source, step by step: it is at a leaf and its clone, or at no node
in either file (`Corresponding`).

The theorems rest on assumptions about the files, each of which TLC evaluates for
those of the run. `FilesAssumption`: blocks have the fields of their kind, and the
written file has the writer's variables only. `NamesAssumption`: a variable is found by
its name, so that two of one name are one. `TreesAssumption`: a tree of a source is
whole, that is, its links lead to nodes of the tree and its slots to blocks that are no
nodes, and no literal is the number of a block (for such a literal, see the hazard at
`VariablePassthrough.cpp:189`). `IterationAssumption` is about
`bom_tree_iterate`: block 0 is vacant, as 0 stands for no link, and what follows a root
is a leaf, since the iteration descends one level only. `TypeCorrect` and
`FinishedBlocksAreKept` need only the first.

**CarTool_proofs**: for all paths and catalogs and any number of files,
`TypeCorrect` and `FilesAreKept`. The invariant behind it is `OutIsNew`: between
the removal of the output's path and the end of the command the output is a file of
its own, also when source and output are one path. `RoomForOut` is about the bound
`MaxFiles` alone. Over it, `Contents` follows what the command does to the bytes:
`FilesAreRight` has the history of each file: which command wrote it from
what, that its unmanaged variables are those of the source, and that it is whole
if the command came to its end. `OutputIsRight` says how far the output has come at each place of a
command (`Progress`), and `VerdictIsRight` what verify has before it. From it follow
`RoundtripIsVerified` (`RoundtripVerifies`), `VerifiedFilesAreCopies`
(`VerifiedIsCopy`) and `PatchIsConfined` (`PatchKeepsTheRest`).

**DataLemmas** has what these proofs need of data and the library states with
an operator as a parameter or for `Seq(S)` only: sequences with elements of
any kind, sizes of finite sets and ranges, the least element of a set of numbers,
an induction over natural numbers for claims that can be said of a set of them,
and the enumeration of a finite set of numbers in order. Its last section is about
the bytes of LZVN: `PackedIsReadBack`, for every match length and all 65535
distances, of which the runs meet a few. Literals and match share the first
byte with the codes of other instructions, so each form of `emit` is shown to stay
clear of those, and its fields are found again by division.

`SectionsApart`, `BlocksApart`, `FreelistIntact`, `NothingLost` and `RangeShrinks`
are proved and not listed by a run: the first three are parts of `Sound`, which
is, and the proofs say more of the other two than a run could.

Only model-checked: the properties of `Compression` and `Rendition`; that the order of the code is the dictionary
order, and that it satisfies `OrderAssumption`, which TLC evaluates for the keys of
the run. That additions, clones, calls of the codec and readings end stays
with TLC as well, since the prover has no support for liveness under fairness or
`ENABLED`. What a recursive function computes for all inputs is not proved
either: the induction theorems take an operator as a parameter, and `DataLemmas`
replaces them only where the claim is membership in a set that can be named; the
codec's functions, which recurse over streams and states, are out of that.

## Not modelled

* In `BomTree` and `BomFile`, trees of several leaves, which the library never
  makes; `VariablePassthrough` has them as sources, with `bom_tree_iterate` as
  the operator `Met`.
* The size of the stack that `cloneEntry`, one frame per leaf, may exhaust.
* The assertions that forbid changes during an iteration.
* In `CarReader`, files without a header, on which `Reader::Load` reads an
  uninitialised length (`Reader.cpp:175-177`); `CarTool` has them. `dump`.
* In `CarTool`, a kill in the middle of a call of the library, and the geometry
  of a file that was not relocated.
* A second call of `write()` on a writer. No caller makes one, and nothing says
  what it should do.
* A decoder of LZFSE that is called again with more room, which
  `lzfse_decode_buffer` never does; the streams for words of 32 bits, which
  differ in how many bits they hold between two loads (`AccumBits`); the
  allocation of scratch memory; `lzfse_main.c`.
* In `Rendition`, zlib and the run-length and other codecs of foreign files
  beyond whether they decode; PNG input and the resampling of images; widths and heights whose product leaves 32 bits; a rendition without
  data in `write()`, which reads through an empty optional.
* `ext::optional`, which is third-party code, and the SHA-256 of `sha256.h`, a
  function without state that is used to compare.
* Allocation failure, except for the one `write()` tests and survives.

## Plan

In this order, most important first:

1. *(done)* container: geometry, bytes, refinement; proofs of the geometry, of the
   bytes and of both refinements.
2. *(done)* tree: insertion, proofs.
3. *(done)* writer and reader of catalogs; proofs of their layout, types, numbers
   and leaves, and that a catalog reads back.
4. *(done)* variable passthrough; proofs of types and finished blocks, that clones are
   faithful, that variables are kept and that copies read as their sources do.
5. *(done)* command line: roundtrip, verify and patch over files that are
   removed, mapped and written in place, with failures and kills; proofs of
   types, kept files and of what roundtrip, verify and patch do to contents.
6. *(done)* compression: both encoders, the entropy coder, both decoders; proof
   of the instructions of LZVN.
7. *(done)* rendition codec.
8. Reader on foreign files: trees with several leaves, files without a header
   in `CarReader`; an abstract specification of a copy that roundtrip implements.
9. Resizing of the mapped file.
10. Proofs: that `CompareKeys` is a total preorder; that blocks fill value and
    image in `Rendition`; the searches of the encoders.
