------------------------------ MODULE CarFormat ------------------------------
(***************************************************************************)
(* The structures of an asset catalog: attribute lists, facet values,      *)
(* rendition keys and the key format, and how they are written and loaded. *)
(* An attribute list is a function from identifiers to 16-bit values.      *)
(***************************************************************************)
EXTENDS Integers, Sequences, FiniteSets, FiniteSetsExt, SequencesExt

(* car_attribute_identifier_identifier, the attribute that ties renditions *)
(* to their facet.                                                         *)
IdentifierAttribute == 17

NoFormat == << >>     \* no key format has been given

(* AttributeList::write: the values in the order of the format, and zero   *)
(* for what the list does not have.                                        *)
ValuesOf(attributes, format) ==
  [i \in DOMAIN format |->
     IF format[i] \in DOMAIN attributes THEN attributes[format[i]] ELSE 0]

(* AttributeList::Load: of two values for one identifier the first counts. *)
FromValues(format, values) ==
  [id \in {format[i] : i \in DOMAIN format} |->
     values[Min({i \in DOMAIN format : format[i] = id})]]

(* A rendition's key in bytes: 16 bits for each value, low byte first. *)
KeyBytes(values) ==
  [k \in 1 .. 2 * Len(values) |->
     LET v == values[(k + 1) \div 2] IN IF k % 2 = 1 THEN v % 256 ELSE v \div 256]

KeyValues(bytes) ==
  [i \in 1 .. Len(bytes) \div 2 |-> bytes[2 * i - 1] + 256 * bytes[2 * i]]

(* An ordered set of identifiers, as it is iterated. *)
Ascending(ids) ==
  [i \in 1 .. Cardinality(ids) |-> CHOOSE id \in ids : Cardinality({k \in ids : k < id}) = i - 1]

(* mutant: the last pair is left out *)
PairsButLast(attributes) ==
  LET ids == Ascending(DOMAIN attributes)
  IN [i \in 1 .. Len(ids) - 1 |-> [identifier |-> ids[i], value |-> attributes[ids[i]]]]

(* Facet::write: pairs of identifier and value, by ascending identifier. *)
PairsOf(attributes) ==
  LET ids == Ascending(DOMAIN attributes)
  IN [i \in DOMAIN ids |-> [identifier |-> ids[i], value |-> attributes[ids[i]]]]

(* Facet::Load. *)
FromPairs(pairs) ==
  FromValues([i \in DOMAIN pairs |-> pairs[i].identifier],
             [i \in DOMAIN pairs |-> pairs[i].value])

(* Every attribute that a facet or a rendition has, in ascending order. *)
DetermineKeyFormat(facets, renditions) ==
  Ascending(UNION {DOMAIN a : a \in facets \cup renditions})
=============================================================================
