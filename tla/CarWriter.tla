------------------------------ MODULE CarWriter ------------------------------
(***************************************************************************)
(* A car::Writer from its creation on: the caller adds facets and          *)
(* renditions, Writer::write turns them into a BOM file call by call, and  *)
(* then the caller adds what the writer does not manage and moves the      *)
(* trailer to the end, as car_roundtrip.cpp does.  What a car::Reader      *)
(* makes of the file is in CarReader.                                      *)
(***************************************************************************)
EXTENDS CarReader

CONSTANTS
  Names,             \* the facets' names, as byte strings
  AttributeLists,    \* the attributes of facets and renditions
  Payloads,          \* the values of renditions, already encoded
  KeyFormats,        \* the key formats that callers set
  Headers,           \* the headers that callers set
  RawValues,         \* the values from which the keys of raw renditions are made
  PayloadLength,     \* bytes of a rendition's value
  MaxRenditions,     \* bound on the renditions of either kind
  MaxPassed          \* bound on the blocks that are added behind the writer's

(* A key format that is set has the identifier: without it a rendition     *)
(* could not be found (car_format.h:68-71).                                *)
ASSUME FormatAssumption ==
  \A f \in KeyFormats : \E i \in DOMAIN f : f[i] = IdentifierAttribute

ASSUME SizesAssumption ==
  /\ NodeSize \in Nat /\ NodeSize >= LeafHeaderSize /\ PayloadLength \in Nat
  /\ MaxRenditions \in Nat /\ MaxPassed \in Nat

(* Names are bytes, and the attributes those of an enumeration.            *)
ASSUME CatalogAssumption ==
  /\ Names \subseteq Seq(0..255) /\ KeyFormats \subseteq Seq(Nat)
  /\ IsFiniteSet(UNION {DOMAIN a : a \in AttributeLists})
  /\ \A name \in {"CARHEADER", "KEYFORMAT", "FACETKEYS", "RENDITIONS", "OTHER"} :
       NameLength(name) \in Nat

(* The values of attributes and those in keys have 16 bits                 *)
(* (car_format.h:91-94, 243-244).                                          *)
ASSUME ValuesAssumption ==
  /\ \A a \in AttributeLists : DOMAIN a \subseteq Nat /\ a \in [DOMAIN a -> 0 .. 256 * 256 - 1]
  /\ RawValues \subseteq 0 .. 256 * 256 - 1

ASSUME HeadersAssumption == Headers \subseteq [storage_version : Nat, rendition_count : Nat]

VARIABLES
  bom,             \* the file
  facets,          \* _facets, from names to attributes
  renditions,      \* _renditions, as [attributes, payload]
  rawRenditions,   \* _rawRenditions, as [key, payload]
  keyfmt,          \* _keyfmt, or NoFormat
  header,          \* _header, or NoHeader
  pc,              \* where write() is
  todo             \* what the loop that write() is in has left to do

vars == << bom, facets, renditions, rawRenditions, keyfmt, header, pc, todo >>

input == << facets, renditions, rawRenditions, keyfmt, header >>

NoHeader == [storage_version |-> 0]

(* Callers set the key format and the header, if at all, before they add   *)
(* anything.                                                               *)
Init ==
  /\ bom = EmptyFile
  /\ facets = << >> /\ renditions = << >> /\ rawRenditions = << >>
  /\ keyfmt \in KeyFormats \cup {NoFormat} /\ header \in Headers \cup {NoHeader}
  /\ pc = "collect" /\ todo = {}

-----------------------------------------------------------------------------
(* Before write(). *)

FacetCount == Cardinality(DOMAIN facets)

RenditionCount == Len(renditions) + Len(rawRenditions)

(* A second facet of the same name is dropped. *)
AddFacet(name, attributes) ==
  /\ pc = "collect"
  /\ facets' = [n \in DOMAIN facets \cup {name} |->
                  IF n \in DOMAIN facets THEN facets[n] ELSE attributes]
  /\ UNCHANGED << bom, renditions, rawRenditions, keyfmt, header, pc, todo >>

(* A rendition without an identifier is dropped. *)
AddRendition(attributes, payload) ==
  /\ pc = "collect" /\ Len(renditions) + Len(rawRenditions) < MaxRenditions
  /\ renditions' =
       IF IdentifierAttribute \in DOMAIN attributes
       THEN Append(renditions, [attributes |-> attributes, payload |-> payload])
       ELSE renditions
  /\ UNCHANGED << bom, facets, rawRenditions, keyfmt, header, pc, todo >>

(* The key of a raw rendition comes from another catalog together with     *)
(* that catalog's key format, which the caller has set.                    *)
AddRawRendition(values, payload) ==
  /\ pc = "collect" /\ Len(renditions) + Len(rawRenditions) < MaxRenditions
  /\ keyfmt # NoFormat /\ DOMAIN values = DOMAIN keyfmt
  /\ rawRenditions' = Append(rawRenditions, [key |-> KeyBytes(values), payload |-> payload])
  /\ UNCHANGED << bom, facets, renditions, keyfmt, header, pc, todo >>

-----------------------------------------------------------------------------
(* write(), call by call. *)

(* mutant: one index for a facet or a rendition *)
IndexCountOfKeys == 8 + FacetCount + RenditionCount

(* The indexes that are thought to be needed. *)
IndexCount == 8 + FacetCount * 2 + RenditionCount * 2

(* The index gets its room, and block 0 stays vacant. *)
PreAllocate ==
  /\ pc = "collect"
  /\ bom' = WithVacant(WithRoom(bom, IndexCount), 1)
  /\ pc' = "header"
  /\ UNCHANGED << input, todo >>

(* No memory for the header: write() returns, and nothing tells the caller. *)
GiveUp ==
  /\ pc = "header"
  /\ pc' = "failed"
  /\ UNCHANGED << bom, input, todo >>

HeaderToWrite ==
  IF header # NoHeader THEN header
  ELSE [storage_version |-> 12, rendition_count |-> RenditionCount]

WriteHeader ==
  /\ pc = "header"
  /\ bom' = WithVariable(WithBlock(bom, HeaderToWrite, 436), "CARHEADER", Count(bom))
  /\ pc' = "keyfmt"
  /\ UNCHANGED << input, todo >>

FormatToWrite ==
  IF keyfmt # NoFormat THEN keyfmt
  ELSE DetermineKeyFormat({facets[n] : n \in DOMAIN facets},
                          {renditions[k].attributes : k \in DOMAIN renditions})

WriteKeyFormat ==
  LET f == FormatToWrite
  IN /\ pc = "keyfmt"
     /\ bom' = WithVariable(WithBlock(bom, [identifiers |-> f], 12 + 4 * Len(f)),
                            "KEYFORMAT", Count(bom))
     /\ pc' = "facet tree"
     /\ UNCHANGED << input, todo >>

BeginFacets ==
  /\ pc = "facet tree"
  /\ bom' = TreeReserve(TreeAllocEmpty(bom, "FACETKEYS"), "FACETKEYS", FacetCount)
  /\ todo' = DOMAIN facets
  /\ pc' = "facets"
  /\ UNCHANGED input

(* The map of the facets is iterated in an order of its own. *)
WriteFacet(name) ==
  LET pairs == PairsOf(facets[name])
  IN /\ pc = "facets" /\ name \in todo
     /\ \E place \in Places(bom, "FACETKEYS", name) :
          bom' = TreeAdd(bom, "FACETKEYS", name, [pairs |-> pairs], 6 + 4 * Len(pairs), place)
     /\ todo' = todo \ {name}
     /\ UNCHANGED << input, pc >>

BeginRenditions ==
  /\ pc = "facets" /\ todo = {}
  /\ bom' = TreeReserve(TreeAllocEmpty(bom, "RENDITIONS"), "RENDITIONS", RenditionCount)
  /\ todo' = DOMAIN renditions
  /\ pc' = "renditions"
  /\ UNCHANGED input

(* So is the multimap of the renditions. *)
WriteRendition(k) ==
  LET key == KeyBytes(ValuesOf(renditions[k].attributes, FormatToWrite))
  IN /\ pc = "renditions" /\ k \in todo
     /\ \E place \in Places(bom, "RENDITIONS", key) :
          bom' = TreeAdd(bom, "RENDITIONS", key, [payload |-> renditions[k].payload],
                         PayloadLength, place)
     /\ todo' = todo \ {k}
     /\ UNCHANGED << input, pc >>

BeginRawRenditions ==
  /\ pc = "renditions" /\ todo = {}
  /\ todo' = DOMAIN rawRenditions
  /\ pc' = "raw"
  /\ UNCHANGED << bom, input >>

(* The raw ones are a vector and come in order. *)
WriteRawRendition(k) ==
  LET raw == rawRenditions[k]
  IN /\ pc = "raw" /\ k \in todo /\ \A i \in todo : k <= i
     /\ \E place \in Places(bom, "RENDITIONS", raw.key) :
          bom' = TreeAdd(bom, "RENDITIONS", raw.key, [payload |-> raw.payload],
                         PayloadLength, place)
     /\ todo' = todo \ {k}
     /\ UNCHANGED << input, pc >>

(* Two vacant entries, and write() is done. *)
Finish ==
  /\ pc = "raw" /\ todo = {}
  /\ bom' = WithVacant(bom, 2)
  /\ pc' = "written"
  /\ UNCHANGED << input, todo >>

-----------------------------------------------------------------------------
(* After write(), which does not tell whether it gave up. *)

Returned == pc \in {"written", "failed"}

PassedThrough == {k \in DOMAIN bom.variables : bom.variables[k].name = "OTHER"}

(* A variable that the writer does not manage, with its block. *)
PassThrough ==
  /\ Returned /\ Cardinality(PassedThrough) < MaxPassed
  /\ bom' = WithVariable(WithBlock(bom, NoContent, 1), "OTHER", Count(bom))
  /\ UNCHANGED << input, pc, todo >>

Relocate ==
  /\ Returned
  /\ bom' = WithTrailerMoved(bom)
  /\ pc' = "relocated"
  /\ UNCHANGED << input, todo >>

Collect ==
  \/ \E name \in Names, a \in AttributeLists : AddFacet(name, a)
  \/ \E a \in AttributeLists, p \in Payloads : AddRendition(a, p)
  \/ \E p \in Payloads, values \in [DOMAIN keyfmt -> RawValues] : AddRawRendition(values, p)

Write ==
  \/ PreAllocate \/ GiveUp \/ WriteHeader \/ WriteKeyFormat
  \/ BeginFacets
  \/ \E name \in todo : WriteFacet(name)
  \/ BeginRenditions
  \/ \E k \in todo : WriteRendition(k)
  \/ BeginRawRenditions
  \/ \E k \in todo : WriteRawRendition(k)
  \/ Finish

Next == Collect \/ Write \/ PassThrough \/ Relocate

Spec == Init /\ [][Next]_vars

-----------------------------------------------------------------------------
Contents ==
  [bytes : Seq(0..255)] \cup [payload : Payloads] \cup [identifiers : Seq(Nat)]
    \cup [pairs : Seq([identifier : Nat, value : Nat])]
    \cup [storage_version : Nat, rendition_count : Nat]
    \cup [child : Nat, path_count : Nat]
    \cup [is_leaf : BOOLEAN, entries : Seq([value : Nat, key : Nat]), forward : Nat,
          backward : Nat]

TypeOK ==
  /\ bom.layout \in Layouts
  /\ \A k \in DOMAIN bom.blocks : bom.blocks[k] \in Contents
  /\ DOMAIN bom.layout.entries = DOMAIN bom.blocks
  /\ DOMAIN facets \subseteq Names /\ \A n \in DOMAIN facets : facets[n] \in AttributeLists
  /\ \A k \in DOMAIN renditions :
       /\ renditions[k].attributes \in AttributeLists
       /\ renditions[k].payload \in Payloads
  /\ pc \in {"collect", "header", "keyfmt", "facet tree", "facets", "renditions", "raw",
             "written", "failed", "relocated"}

(* A file that write() has finished. *)
Written == pc \in {"written", "relocated"} /\ VariableGet(bom, "CARHEADER") # -1

(* The entries of the trees that are there already. *)
Trees == {name \in {"FACETKEYS", "RENDITIONS"} : HasTree(bom, name)}

(* At every moment of write() the block numbers hold: the variables and    *)
(* the trees refer to blocks of the right kind, no block belongs to two    *)
(* entries, and none is the vacant block 0 (Writer.cpp:94-105).            *)
ReferencesHold ==
  LET entries == [t \in Trees |-> EntriesOfTree(bom, t)]
      slots   == {p \in Trees \X (1 .. Count(bom)) : p[2] <= Len(entries[p[1]])}
      keys    == {<< entries[p[1]][p[2]].key, "bytes", p >> : p \in slots}
      values  == {<< entries[p[1]][p[2]].value,
                     IF p[1] = "FACETKEYS" THEN "pairs" ELSE "payload", p >> : p \in slots}
      targets == keys \cup values
  IN /\ \A k \in DOMAIN bom.variables : bom.variables[k].index \in 1 .. Count(bom) - 1
     /\ \A t \in Trees :
          /\ ChildIndex(bom, t) > 0 /\ "entries" \in DOMAIN Block(bom, ChildIndex(bom, t))
          /\ Block(bom, ChildIndex(bom, t)).is_leaf /\ Block(bom, ChildIndex(bom, t)).forward = 0
     /\ \A r \in targets : r[1] \in 1 .. Count(bom) - 1 /\ r[2] \in DOMAIN Block(bom, r[1])
     /\ \A r, q \in targets : r[1] = q[1] => r = q

(* Readers that search the trees find them sorted (bom_tree.c:294-310).    *)
TreesSorted ==
  \A t \in Trees :
    LET entries == EntriesOfTree(bom, t)
    IN \A i, j \in DOMAIN entries : i < j =>
         ~Precedes(KeyOf(bom, entries[j]), KeyOf(bom, entries[i]))

(* Both leaves hold what is put into them: the reservation makes up for    *)
(* the header that bom_tree_add's own test leaves out (bom_tree.c:246).    *)
LeavesHoldEntries ==
  \A t \in Trees :
    LeafHeaderSize + SlotSize * Len(Block(bom, ChildIndex(bom, t)).entries)
      <= LengthOf(bom, ChildIndex(bom, t))

(* The used part of the index never reaches into the variables or a block, *)
(* although Finish leaves an index section that does (bom.c:421-456).      *)
IndexReadable ==
  LET s == bom.layout
  IN /\ IndexPoint(s) <= s.size
     /\ Apart(s.index_offset, IndexPoint(s), s.variables_offset, VariablesEnd(s))
     /\ \A k \in DOMAIN s.entries : IsBlock(s.entries[k]) =>
          /\ Apart(s.index_offset, IndexPoint(s), s.entries[k].address, BlockEnd(s.entries[k]))
          /\ Apart(s.variables_offset, VariablesEnd(s), s.entries[k].address, BlockEnd(s.entries[k]))
          /\ BlockEnd(s.entries[k]) <= s.size

(* Up to its last call write() keeps the layout sound. *)
SoundUntilFinish == ~Returned /\ pc # "relocated" => SoundLayout(bom.layout)

(* What was added for a facet's identifier is what its lookup returns, the *)
(* payload with the attributes that the key format lets through, as often  *)
(* as it was added (Reader.h:105-108).                                     *)
AsLoaded(attributes) == FromValues(FormatToWrite, ValuesOf(attributes, FormatToWrite))

Added(identifier) ==
  {<< "structured", k >> : k \in {k \in DOMAIN renditions :
      renditions[k].attributes[IdentifierAttribute] = identifier}}
  \cup {<< "raw", k >> : k \in {k \in DOMAIN rawRenditions :
      KeyValues(rawRenditions[k].key)[IdentifierIndex(keyfmt)] = identifier}}

Stored(r) ==
  IF r[1] = "structured"
  THEN [attributes |-> AsLoaded(renditions[r[2]].attributes), payload |-> renditions[r[2]].payload]
  ELSE [attributes |-> FromValues(keyfmt, KeyValues(rawRenditions[r[2]].key)),
        payload    |-> rawRenditions[r[2]].payload]

Identifiers ==
  {renditions[k].attributes[IdentifierAttribute] : k \in DOMAIN renditions} \cup RawValues

RenditionsReadBack ==
  Written /\ Loads(bom) =>
    \A id \in Identifiers :
      LET found == LookupRenditions(bom, id)
      IN \A r \in {found[k] : k \in DOMAIN found} \cup {Stored(a) : a \in Added(id)} :
           Cardinality({k \in DOMAIN found : found[k] = r})
             = Cardinality({a \in Added(id) : Stored(a) = r})

(* Every facet that was added is found by its name, with its attributes,   *)
(* and no other is.                                                        *)
FacetsReadBack ==
  Written /\ Loads(bom) =>
    /\ DOMAIN LoadedFacets(bom) = DOMAIN facets
    /\ \A name \in DOMAIN facets : LookupFacet(bom, name) = facets[name]

(* The two ways from a facet to its renditions agree: the lookup by the    *)
(* identifier that Load took out of each key, and the filter over all of   *)
(* them, which reads the whole key (Reader.cpp:203-226, Facet.cpp:41-58).  *)
LookupAgreesWithIterate ==
  Written /\ Loads(bom) =>
    \A facet \in FacetIterate(bom) :
      IdentifierAttribute \in DOMAIN facet.attributes =>
        FacetRenditionIterate(bom, facet.attributes)
          = LookupRenditions(bom, facet.attributes[IdentifierAttribute])

(* Unless the caller sets a key format, the keys carry every attribute.    *)
AttributesKept ==
  Written /\ Loads(bom) /\ keyfmt = NoFormat =>
    \A k \in DOMAIN renditions :
      LET a     == renditions[k].attributes
          found == LookupRenditions(bom, a[IdentifierAttribute])
      IN \E i \in DOMAIN found :
           /\ found[i].payload = renditions[k].payload
           /\ \A id \in DOMAIN a : id \in DOMAIN found[i].attributes
                                   /\ found[i].attributes[id] = a[id]

(* A catalog that loads has what was added: renditions and facets, by each *)
(* of the ways a reader has to them.                                       *)
ReadBack == RenditionsReadBack /\ FacetsReadBack /\ LookupAgreesWithIterate /\ AttributesKept

(* A reader may search the leaves: they are sorted and inside their blocks. *)
LeavesSearchable == TreesSorted /\ LeavesHoldEntries

(* What is reserved at once lasts until the last call, and all but one of  *)
(* it is used by then: before Finish no call makes the index grow.  Finish *)
(* adds two vacant entries and does, by the one that the count in          *)
(* Writer.cpp:84-90 leaves out, the placeholder of Writer.cpp:106.         *)
ReservationLasts ==
  /\ pc \in {"header", "keyfmt", "facet tree", "facets", "renditions", "raw"} =>
       bom.layout.index_length = EmptyLayout.index_length + EntrySize * IndexCount
  /\ pc = "raw" /\ todo = {} => Count(bom) = IndexCount - 1

(* The layout is sound up to the last call, and so far the indexes that    *)
(* write() reserves are as many as its calls use; the last call takes one  *)
(* more than there is, and after it the file still has what a reader needs *)
(* of the layout (Writer.cpp:82-255).                                      *)
LayoutHolds == SoundUntilFinish /\ ReservationLasts /\ IndexReadable
=============================================================================
