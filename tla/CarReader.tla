------------------------------ MODULE CarReader ------------------------------
(***************************************************************************)
(* Reader::Load and the lookups, as operators on a BOM file.  The reader   *)
(* keeps the facets by name and the renditions by the identifier in their  *)
(* key.                                                                    *)
(***************************************************************************)
EXTENDS BomFile, CarFormat

(* bom_tree_alloc_load: the variable refers to the block of a tree. *)
HasTree(b, name) ==
  /\ VariableGet(b, name) # -1
  /\ Resolves(b, VariableGet(b, name))
  /\ "child" \in DOMAIN Block(b, VariableGet(b, name))

(* What the fast iterators hand out: nothing when there is no tree. *)
FastIterate(b, name) ==
  IF ~HasTree(b, name) THEN << >>
  ELSE LET entries == EntriesOfTree(b, name)
       IN [k \in DOMAIN entries |-> [key   |-> KeyOf(b, entries[k]),
                                     value |-> Block(b, entries[k].value)]]

(* mutant: the identifier is taken to come first *)
FirstIndex(format) == 1

(* Where the identifier is in a key; the first place when the format does  *)
(* not have it.                                                            *)
IdentifierIndex(format) ==
  LET places == {i \in DOMAIN format : format[i] = IdentifierAttribute}
  IN IF places = {} THEN 1 ELSE Min(places)

(* Load gives up on a file without a key format or with a header that is   *)
(* too old.  Without a header it reads a length that nothing has set       *)
(* (Reader.cpp:176-178): it is asked of files that have one.               *)
Loads(b) ==
  /\ Block(b, VariableGet(b, "CARHEADER")).storage_version >= 8
  /\ VariableGet(b, "KEYFORMAT") # -1

LoadedFormat(b) == Block(b, VariableGet(b, "KEYFORMAT")).identifiers

(* Of two facets with one name the first is kept. *)
LoadedFacets(b) ==
  LET items == FastIterate(b, "FACETKEYS")
  IN [name \in {items[k].key : k \in DOMAIN items} |->
        items[Min({k \in DOMAIN items : items[k].key = name})].value.pairs]

LoadedRenditions(b) ==
  LET items == FastIterate(b, "RENDITIONS")
  IN [k \in DOMAIN items |->
        [identifier |-> KeyValues(items[k].key)[IdentifierIndex(LoadedFormat(b))],
         key        |-> items[k].key,
         payload    |-> items[k].value.payload]]

LookupFacet(b, name) == FromPairs(LoadedFacets(b)[name])

(* The renditions of the facet with that identifier, each with the         *)
(* attributes that its key tells.  The multimap hands them out in no order *)
(* of its own: they go by their places in the leaf.                        *)
LookupRenditions(b, identifier) ==
  LET all  == LoadedRenditions(b)
      hits == {k \in DOMAIN all : all[k].identifier = identifier}
  IN [k \in hits |->
        [attributes |-> FromValues(LoadedFormat(b), KeyValues(all[k].key)),
         payload    |-> all[k].payload]]

(* facetIterate: every facet, in an order of the map's own. *)
FacetIterate(b) ==
  {[name |-> name, attributes |-> LookupFacet(b, name)] : name \in DOMAIN LoadedFacets(b)}

(* renditionIterate: every rendition with the attributes that its key tells. *)
RenditionIterate(b) ==
  LET all == LoadedRenditions(b)
  IN [k \in DOMAIN all |-> [attributes |-> FromValues(LoadedFormat(b), KeyValues(all[k].key)),
                            payload    |-> all[k].payload]]

(* Facet::renditionIterate: those of all renditions that name the facet. *)
FacetRenditionIterate(b, attributes) ==
  LET all  == RenditionIterate(b)
      hits == {k \in DOMAIN all :
                 /\ IdentifierAttribute \in DOMAIN attributes \cap DOMAIN all[k].attributes
                 /\ all[k].attributes[IdentifierAttribute] = attributes[IdentifierAttribute]}
  IN [k \in hits |-> all[k]]
=============================================================================
