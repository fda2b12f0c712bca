---------------------------- MODULE CarTool_proofs ----------------------------
(***************************************************************************)
(* The files of the command line tool, for every set of paths, every set   *)
(* of catalogs and any number of files: types, that no command touches a   *)
(* source it reads or a path it does not write to, and what the output of  *)
(* a command is, so that verify is right about it.                         *)
(***************************************************************************)
EXTENDS CarTool, DataLemmas

(* Where the reader has its source, and where the output is open as well. *)
Writing == {"empty", "header", "keyfmt", "facet tree", "facets", "renditions", "pass", "exit"}
HasSource == {"remove", "create"} \cup Writing

(* The output is never the file of the source: its path was taken from any *)
(* file it had before one was created, so also where both paths are one.   *)
OutIsNew ==
  /\ pc \in HasSource => reader # NoFile
  /\ pc = "create" => files[command.out] = NoFile
  /\ pc \in Writing => out # NoFile /\ out # reader

(* There is room for the file that the command may still create. *)
RoomForOut ==
  /\ pc \in {"remove", "create"} => Len(disk) < MaxFiles
  /\ pc = "open" /\ command.verb # "verify" => Len(disk) < MaxFiles

Inv ==
  /\ TypeOK
  /\ IsSeq(disk) /\ IsSeq(made)
  /\ pc # "idle" => command \in Commands
  /\ OutIsNew
  /\ RoomForOut

-----------------------------------------------------------------------------
(* Facets and keys that are written and read. *)

Pairs == [identifier : Nat, value : Nat]

Increasing(pairs) ==
  \A i, j \in DOMAIN pairs : i < j => pairs[i].identifier < pairs[j].identifier

(* What is read from pairs: of every identifier in them, the first value. *)
LEMMA PairsRead ==
  ASSUME NEW pairs \in Seq(Pairs)
  PROVE  LET ids == {pairs[i].identifier : i \in DOMAIN pairs}
             places(id) == {i \in DOMAIN pairs : pairs[i].identifier = id}
         IN /\ DOMAIN FromPairs(pairs) = ids /\ IsFiniteSet(ids) /\ ids \subseteq Nat
            /\ \A id \in ids : /\ Min(places(id)) \in places(id)
                               /\ FromPairs(pairs)[id] = pairs[Min(places(id))].value
<1> DEFINE n == Len(pairs)
           s == [i \in DOMAIN pairs |-> pairs[i].identifier]
           v == [i \in DOMAIN pairs |-> pairs[i].value]
           ids == {pairs[i].identifier : i \in DOMAIN pairs}
           places(id) == {i \in DOMAIN pairs : pairs[i].identifier = id}
<1>1. n \in Nat /\ DOMAIN pairs = 1 .. n /\ \A i \in 1 .. n : pairs[i] \in Pairs
  BY LenProperties, ElementOfSeq
<1>2. ids \subseteq Nat /\ s \in [1 .. n -> ids] /\ DOMAIN s = 1 .. n /\ DOMAIN v = 1 .. n
  BY <1>1 DEF Pairs
<1>3. IsFiniteSet(ids)
  <2>1. s \in Surjection(1 .. n, ids)
    BY <1>1, <1>2 DEF Surjection
  <2>2. IsFiniteSet(1 .. n)
    BY <1>1, FS_Interval
  <2> QED BY <2>1, <2>2, FS_Surjection
<1>4. \A id \in ids : {i \in DOMAIN s : s[i] = id} = places(id)
  OBVIOUS
<1>5. {s[i] : i \in DOMAIN s} = ids
  OBVIOUS
<1>6. FromPairs(pairs) = [id \in ids |-> v[Min({i \in DOMAIN s : s[i] = id})]]
  BY <1>5 DEF FromPairs, FromValues
<1>7. ASSUME NEW id \in ids PROVE Min(places(id)) \in places(id) /\ places(id) \subseteq 1 .. n
  <2>1. places(id) \subseteq Nat /\ places(id) # {}
    BY <1>1
  <2> QED BY <1>1, <2>1, MinOfNaturals
<1>8. ASSUME NEW id \in ids PROVE FromPairs(pairs)[id] = pairs[Min(places(id))].value
  <2> HIDE DEF ids, s, places
  <2>1. FromPairs(pairs)[id] = v[Min(places(id))]
    BY <1>4, <1>6
  <2>2. Min(places(id)) \in DOMAIN pairs
    BY <1>1, <1>7
  <2> QED BY <2>1, <2>2
<1>9. DOMAIN FromPairs(pairs) = ids
  BY <1>6
<1> QED BY <1>2, <1>3, <1>7, <1>8, <1>9

(* Written again, they are in ascending order; they are what they were if  *)
(* and only if that was so.                                                *)
LEMMA PairsWritten ==
  ASSUME NEW pairs \in Seq(Pairs)
  PROVE  LET new == PairsOf(FromPairs(pairs))
         IN /\ new \in Seq(Pairs) /\ Increasing(new)
            /\ Increasing(pairs) <=> new = pairs
<1> DEFINE ids == {pairs[i].identifier : i \in DOMAIN pairs}
           places(id) == {i \in DOMAIN pairs : pairs[i].identifier = id}
           a == FromPairs(pairs)
           r == Ranked(ids)
           new == PairsOf(FromPairs(pairs))
           n == Len(pairs)
<1>1. n \in Nat /\ DOMAIN pairs = 1 .. n /\ \A i \in 1 .. n : pairs[i] \in Pairs
  BY LenProperties, ElementOfSeq
<1>2. /\ DOMAIN a = ids /\ IsFiniteSet(ids) /\ ids \subseteq Nat
      /\ \A id \in ids : Min(places(id)) \in places(id) /\ a[id] = pairs[Min(places(id))].value
  BY PairsRead
<1>3. new = [i \in DOMAIN r |-> [identifier |-> r[i], value |-> a[r[i]]]]
  BY <1>2 DEF PairsOf, Ascending, Ranked, Rank
<1>4. /\ Cardinality(ids) \in Nat /\ DOMAIN r = 1 .. Cardinality(ids)
      /\ \A i \in DOMAIN r : r[i] \in ids
      /\ \A i, j \in DOMAIN r : i < j => r[i] < r[j]
  <2>1. ids \subseteq Int
    BY <1>2
  <2>2. /\ Cardinality(ids) \in Nat /\ r \in Seq(ids) /\ DOMAIN r = 1 .. Cardinality(ids)
        /\ \A i, j \in 1 .. Cardinality(ids) : i < j => r[i] < r[j]
    BY <1>2, <2>1, RankedSet
  <2> HIDE DEF r, ids
  <2>3. \A i \in DOMAIN r : r[i] \in ids
    BY <2>2, ElementOfSeq, LenProperties
  <2> QED BY <2>2, <2>3
<1>5. \A id \in ids : a[id] \in Nat
  <2> SUFFICES ASSUME NEW id \in ids PROVE a[id] \in Nat
    OBVIOUS
  <2>1. Min(places(id)) \in DOMAIN pairs /\ a[id] = pairs[Min(places(id))].value
    BY <1>2
  <2> QED BY <1>1, <2>1 DEF Pairs
<1>6. new \in Seq(Pairs) /\ Increasing(new)
  <2> HIDE DEF r, ids, a, new
  <2>1. \A i \in DOMAIN r : [identifier |-> r[i], value |-> a[r[i]]] \in Pairs
    BY <1>2, <1>4, <1>5 DEF Pairs
  <2>2. new \in [1 .. Cardinality(ids) -> Pairs]
    BY <1>3, <1>4, <2>1
  <2>3. new \in Seq(Pairs)
    BY <1>4, <2>2, SeqDef
  <2>4. DOMAIN new = DOMAIN r /\ \A i \in DOMAIN r : new[i].identifier = r[i]
    BY <1>3
  <2> QED BY <1>4, <2>3, <2>4 DEF Increasing
<1>7. ASSUME Increasing(pairs) PROVE new = pairs
  <2> DEFINE t == [i \in 1 .. n |-> pairs[i].identifier]
  <2>1. t \in [1 .. n -> Nat] /\ t \in [1 .. n -> Int] /\ ids = {t[i] : i \in 1 .. n}
    BY <1>1 DEF Pairs
  <2>2. \A i, j \in 1 .. n : i < j => t[i] < t[j]
    BY <1>1, <1>7 DEF Increasing
  <2>3. Cardinality(ids) = n /\ r = t
    <3> HIDE DEF t, ids, r
    <3> QED BY <1>1, <2>1, <2>2, RankedIsUnique DEF r
  <2>4. ASSUME NEW i \in 1 .. n PROVE t[i] \in ids /\ a[t[i]] = pairs[i].value
    <3>1. t[i] \in ids /\ t[i] = pairs[i].identifier
      BY <1>1
    <3>2. Min(places(t[i])) \in places(t[i])
      BY <1>2, <3>1
    <3>3. places(t[i]) = {i}
      <4> SUFFICES ASSUME NEW j \in 1 .. n, t[j] = t[i] PROVE j = i
        BY <1>1, <3>1
      <4>1. (j < i => t[j] < t[i]) /\ (i < j => t[i] < t[j]) /\ t[i] \in Nat
        BY <2>1, <2>2
      <4> HIDE DEF t
      <4> QED BY <4>1
    <3>4. Min(places(t[i])) = i
      BY <3>2, <3>3
    <3> QED BY <1>2, <3>1, <3>4
  <2>5. \A i \in 1 .. n : pairs[i] = [identifier |-> pairs[i].identifier, value |-> pairs[i].value]
    BY <1>1 DEF Pairs
  <2>6. \A i \in 1 .. n : [identifier |-> t[i], value |-> a[t[i]]] = pairs[i]
    BY <2>4, <2>5
  <2>7. new = [i \in 1 .. n |-> [identifier |-> t[i], value |-> a[t[i]]]]
    <3> HIDE DEF t, r, a, new
    <3> QED BY <1>3, <1>4, <2>3
  <2>8. pairs = [i \in 1 .. n |-> pairs[i]]
    BY <1>1
  <2> HIDE DEF t, a, new
  <2> QED BY <2>6, <2>7, <2>8
<1> QED BY <1>6, <1>7

(* A facet is itself after it has been written exactly if it has no hot    *)
(* spot and its pairs are in ascending order; what is written is a facet.  *)
LEMMA FacetWritten ==
  ASSUME NEW facet, facet \in FacetEntry(facet.key)
  PROVE  /\ Rewritten(facet) \in FacetEntry(Rewritten(facet).key)
         /\ Rewritten(facet).value.hot_spot = 0 /\ Increasing(Rewritten(facet).value.pairs)
         /\ facet.value.hot_spot = 0 /\ Increasing(facet.value.pairs) => Rewritten(facet) = facet
<1> DEFINE pairs == facet.value.pairs
           new == PairsOf(FromPairs(pairs))
<1>1. /\ pairs \in Seq(Pairs) /\ facet.value.hot_spot \in Nat
      /\ facet = [key |-> facet.key, value |-> [hot_spot |-> facet.value.hot_spot, pairs |-> pairs]]
  BY DEF FacetEntry, Pairs
<1>2. new \in Seq(Pairs) /\ Increasing(new) /\ (Increasing(pairs) => new = pairs)
  BY <1>1, PairsWritten
<1>3. Rewritten(facet) = [key |-> facet.key, value |-> [hot_spot |-> 0, pairs |-> new]]
  BY DEF Rewritten
<1> HIDE DEF new, pairs
<1>4. Rewritten(facet) \in [key : {facet.key}, value : [hot_spot : Nat, pairs : Seq(Pairs)]]
  BY <1>2, <1>3
<1> QED BY <1>1, <1>2, <1>3, <1>4 DEF FacetEntry, Pairs, pairs

(* A key that goes through the attributes of a rendition comes back, as no *)
(* attribute is in the format twice; that of the identifier is where it is *)
(* looked for.                                                             *)
LEMMA KeyKept ==
  ASSUME NEW format, FormatOfKeys(format), NEW key \in [DOMAIN format -> Nat]
  PROVE  /\ ValuesOf(FromValues(format, key), format) = key
         /\ IdentifierIndexFor(format) \in DOMAIN format
         /\ FromValues(format, key)[IdentifierAttribute] = key[IdentifierIndexFor(format)]
<1> DEFINE places(id) == {i \in DOMAIN format : format[i] = id}
           ids == {format[i] : i \in DOMAIN format}
<1>1. /\ \A i \in DOMAIN format : i \in Nat /\ format[i] \in ids
      /\ \A i, j \in DOMAIN format : format[i] = format[j] => i = j
      /\ IdentifierAttribute \in ids
  BY LenProperties DEF FormatOfKeys, ToSet
<1>2. \A id \in ids : Min(places(id)) \in places(id)
  <2> SUFFICES ASSUME NEW id \in ids PROVE Min(places(id)) \in places(id)
    OBVIOUS
  <2>1. places(id) \subseteq Nat /\ places(id) # {}
    BY <1>1
  <2> QED BY <2>1, MinOfNaturals
<1>3. \A i \in DOMAIN format : Min(places(format[i])) = i
  BY <1>1, <1>2
<1>4. FromValues(format, key) = [id \in ids |-> key[Min(places(id))]]
  BY DEF FromValues
<1>5. IdentifierIndexFor(format) = Min(places(IdentifierAttribute))
  <2>1. places(IdentifierAttribute) # {}
    BY <1>1
  <2> QED BY <2>1 DEF IdentifierIndexFor
<1>6. ValuesOf(FromValues(format, key), format) = [i \in DOMAIN format |-> key[i]]
  <2> DEFINE f == FromValues(format, key)
  <2>1. \A i \in DOMAIN format : format[i] \in DOMAIN f /\ f[format[i]] = key[i]
    BY <1>1, <1>3, <1>4
  <2> HIDE DEF f
  <2>2. ValuesOf(f, format) = [i \in DOMAIN format |-> key[i]]
    BY <2>1 DEF ValuesOf
  <2> QED BY <2>2 DEF f
<1>7. key = [i \in DOMAIN format |-> key[i]]
  OBVIOUS
<1>8. Min(places(IdentifierAttribute)) \in DOMAIN format
  BY <1>1, <1>2
<1>9. FromValues(format, key)[IdentifierAttribute] = key[Min(places(IdentifierAttribute))]
  BY <1>1, <1>4
<1> HIDE DEF places
<1> QED BY <1>5, <1>6, <1>7, <1>8, <1>9

-----------------------------------------------------------------------------
(* What is in the files. *)

(* What a command puts into its output for a rendition of the source. *)
CarriedBy(c, old, entry) == IF c.verb = "patch" THEN Branded(entry, old, c) ELSE entry

RewrittenFacets(facets) == {Rewritten(f) : f \in facets}
CarriedRenditions(c, old, entries) == {CarriedBy(c, old, e) : e \in entries}

(* What has been written by now is what is to be written, at every moment. *)
NothingElse(c, old, new) ==
  /\ new = [n \in DOMAIN new |-> new[n]]
  /\ \A n \in DOMAIN new \ {"FACETKEYS", "RENDITIONS"} : n \in DOMAIN old /\ new[n] = old[n]
  /\ "RENDITIONS" \in DOMAIN new => "KEYFORMAT" \in DOMAIN new
  /\ Facets(new) \subseteq RewrittenFacets(Facets(old))
  /\ Renditions(new) \subseteq CarriedRenditions(c, old, Renditions(old))

(* All that the writer manages is there. *)
AllManaged(c, old, new) ==
  /\ ManagedNames \subseteq DOMAIN new
  /\ RewrittenFacets(Facets(old)) \subseteq Facets(new)
  /\ CarriedRenditions(c, old, Renditions(old)) \subseteq Renditions(new)

(* A file was there in the beginning, or was written by a command from a   *)
(* source, of which it has the variables that the writer does not manage.  *)
(* If the command came to its end and had a header, the file is whole.     *)
History(m, new) ==
  /\ m = [verb |-> m.verb, from |-> m.from, done |-> m.done]
  /\ m.verb = "none" => m = NotMade
  /\ m.verb # "none" =>
       LET old == m.from.variables
       IN /\ WellFormed(old) /\ {"CARHEADER", "KEYFORMAT"} \subseteq DOMAIN old
          /\ \A n \in DOMAIN new \ ManagedNames : n \in DOMAIN old /\ new[n] = old[n]
          /\ m.done =>
               /\ UnmanagedNames(old) \subseteq DOMAIN new
               /\ \E c \in Commands : c.verb = m.verb /\ NothingElse(c, old, new) /\ AllManaged(c, old, new)

FilesAreRight ==
  \A i \in 1 .. Len(disk) :
    /\ "variables" \in DOMAIN disk[i] /\ WellFormed(disk[i].variables)
    /\ History(made[i], disk[i].variables)

(* How far the output has come when the command is at that place, with that *)
(* left to do in the loop that it is in.                                    *)
Progress(at, left, c, old, new) ==
  /\ NothingElse(c, old, new)
  /\ at \in {"empty", "header"} => "CARHEADER" \notin DOMAIN new
  /\ at \in {"keyfmt", "facet tree", "facets", "renditions"} => "CARHEADER" \in DOMAIN new
  /\ at \in {"facet tree", "facets", "renditions"} => "KEYFORMAT" \in DOMAIN new
  /\ at \in {"facets", "renditions"} => "FACETKEYS" \in DOMAIN new
  /\ at = "facets" =>
       /\ left \subseteq Facets(old)
       /\ RewrittenFacets(Facets(old) \ left) \subseteq Facets(new)
  /\ at = "renditions" =>
       /\ "RENDITIONS" \in DOMAIN new
       /\ left \subseteq Renditions(old)
       /\ RewrittenFacets(Facets(old)) \subseteq Facets(new)
       /\ CarriedRenditions(c, old, Renditions(old) \ left) \subseteq Renditions(new)
  /\ at \in {"pass", "exit"} =>
       /\ UnmanagedNames(old) \ left \subseteq DOMAIN new
       /\ "CARHEADER" \in DOMAIN new => AllManaged(c, old, new)
  /\ at = "exit" => left = {}

OutputIsRight ==
  /\ pc \in HasSource => command.verb \in {"roundtrip", "patch"}
  /\ pc \in Writing =>
       /\ made[out] = [verb |-> command.verb, from |-> disk[reader], done |-> FALSE]
       /\ Progress(pc, todo, command, Source, disk[out].variables)

(* What verify has before it, and what it has found. *)
VerdictIsRight ==
  LET s == files[command.source] o == files[command.out]
  IN /\ pc \in {"open out", "compare"} => command.verb = "verify" /\ reader = s /\ reader # NoFile
     /\ pc = "compare" => out = o /\ Loads(o)
     /\ command.verb = "verify" /\ status = "success" =>
          s # NoFile /\ o # NoFile /\ Loads(s) /\ Loads(o) /\ Consistent(disk[s], disk[o])

Contents == FilesAreRight /\ OutputIsRight /\ VerdictIsRight

(* A rendition that belongs to the facet of a name has one of its numbers. *)
LEMMA BelongsToOwn ==
  ASSUME NEW old, WellFormed(old), "KEYFORMAT" \in DOMAIN old,
         NEW e \in Renditions(old), NEW name, Belongs(e, old, name)
  PROVE  Identity(e, old["KEYFORMAT"]) \in Own(old, name)
<1> DEFINE format == old["KEYFORMAT"]
           own(f) == {p.value : p \in {q \in ToSet(f.value.pairs) : q.identifier = IdentifierAttribute}}
<1>1. PICK facet \in Facets(old) :
        /\ facet.key = name /\ IdentifierAttribute \in DOMAIN FromPairs(facet.value.pairs)
        /\ e.key[IdentifierIndexFor(format)] = FromPairs(facet.value.pairs)[IdentifierAttribute]
  BY DEF Belongs
<1> DEFINE pairs == facet.value.pairs
           places == {i \in DOMAIN pairs : pairs[i].identifier = IdentifierAttribute}
<1>2. pairs \in Seq(Pairs)
  BY DEF WellFormed, FacetEntry, Pairs
<1>3. /\ Min(places) \in places
      /\ FromPairs(pairs)[IdentifierAttribute] = pairs[Min(places)].value
  <2> HIDE DEF pairs
  <2> QED BY <1>1, <1>2, PairsRead DEF pairs
<1>4. pairs[Min(places)].value \in own(facet)
  BY <1>3 DEF ToSet
<1>5. Identity(e, format) = e.key[IdentifierIndexFor(format)]
  <2>1. e.key \in [DOMAIN format -> Nat] /\ FormatOfKeys(format)
    BY DEF WellFormed, RenditionEntry
  <2> QED BY <2>1, KeyKept DEF Identity
<1>6. own(facet) \in {own(f) : f \in {g \in Facets(old) : g.key = name}}
  BY <1>1
<1>7. Own(old, name) = UNION {own(f) : f \in {g \in Facets(old) : g.key = name}}
  BY DEF Own
<1> HIDE DEF own, pairs, places, format
<1>8. Identity(e, format) \in own(facet)
  BY <1>1, <1>3, <1>4, <1>5 DEF pairs
<1> QED BY <1>6, <1>7, <1>8 DEF format

Brand == [icon |-> "AppIcon", logo |-> "SplashScreenLogo", colour |-> "SplashScreenBackground"]

(* What a command carries over keeps its key; it is another only in a patch *)
(* and if it belongs to one of the three facets.                           *)
LEMMA EntryCarried ==
  ASSUME NEW c, NEW old, WellFormed(old), NEW e \in Renditions(old)
  PROVE  LET new == CarriedBy(c, old, e)
         IN /\ new \in RenditionEntry(old["KEYFORMAT"], new.value.kind, new.value.content)
            /\ new.key = e.key
            /\ c.verb # "patch" => new = e
            /\ new # e => /\ new.value.content \in DOMAIN Brand
                          /\ Belongs(e, old, Brand[new.value.content])
<1> DEFINE format == old["KEYFORMAT"]
           icon == Belongs(e, old, "AppIcon")
           logo == Belongs(e, old, "SplashScreenLogo")
           ground == Belongs(e, old, "SplashScreenBackground")
           new == CarriedBy(c, old, e)
           drawn(what) == [key |-> e.key, value |-> [kind |-> e.value.kind, content |-> what]]
<1>1. e \in RenditionEntry(format, e.value.kind, e.value.content) /\ FormatOfKeys(format)
  BY DEF WellFormed, Renditions, TreeOf
<1>2. e.key \in [DOMAIN format -> Nat] /\ e = drawn(e.value.content)
  BY <1>1 DEF RenditionEntry
<1>3. ValuesOf(FromValues(format, e.key), format) = e.key
  BY <1>1, <1>2, KeyKept
<1>4. [e EXCEPT !.value.content = "colour"] = drawn("colour")
  BY <1>2
<1>5. \A what : [e.value EXCEPT !.content = what] = [kind |-> e.value.kind, content |-> what]
  BY <1>2
<1> HIDE DEF icon, logo, ground
<1>6. Branded(e, old, c) =
        IF ground THEN IF e.value.kind = "colour" THEN drawn("colour") ELSE e
        ELSE IF e.value.kind = "image" /\ (IF icon THEN c.icon ELSE logo /\ c.logo)
        THEN drawn(IF icon THEN "icon" ELSE "logo")
        ELSE e
  BY <1>3, <1>4, <1>5 DEF Branded, icon, logo, ground
<1>7. \/ new = e
      \/ c.verb = "patch" /\ ground /\ new = drawn("colour")
      \/ c.verb = "patch" /\ icon /\ new = drawn("icon")
      \/ c.verb = "patch" /\ logo /\ new = drawn("logo")
  BY <1>6 DEF CarriedBy
<1> HIDE DEF new
<1>8. new = e \/ \E what \in DOMAIN Brand :
                   c.verb = "patch" /\ new = drawn(what) /\ Belongs(e, old, Brand[what])
  BY <1>7 DEF Brand, icon, logo, ground
<1>9. \A what : drawn(what) \in RenditionEntry(format, e.value.kind, what)
  BY <1>2 DEF RenditionEntry
<1>10. CASE new = e
  BY <1>1, <1>10 DEF new
<1>11. CASE \E what \in DOMAIN Brand :
              c.verb = "patch" /\ new = drawn(what) /\ Belongs(e, old, Brand[what])
  <2>1. PICK what \in DOMAIN Brand :
          c.verb = "patch" /\ new = drawn(what) /\ Belongs(e, old, Brand[what])
    BY <1>11
  <2>2. new.key = e.key /\ new.value.kind = e.value.kind /\ new.value.content = what
    BY <2>1
  <2> QED BY <1>9, <2>1, <2>2 DEF new
<1> QED BY <1>8, <1>10, <1>11

(* A command that ends, however it does, leaves the files as they are. *)
LEMMA EndKeeps ==
  ASSUME Inv, NEW how \in {"success", "failure", "killed", "crash"}, Ends(how),
         IsSeq(made'), Len(made') = Len(made)
  PROVE  Inv'
<1> USE DEF Ends
<1>1. Len(disk) \in 1 .. MaxFiles /\ Len(disk) \in Nat
  BY BoundAssumption DEF Inv, TypeOK
<1>2. reader' = NoFile /\ 0 \in 0 .. Len(disk)
  BY <1>1
<1>3. TypeOK'
  BY <1>1, <1>2 DEF Inv, TypeOK, NoFile
<1>4. (pc # "idle" => command \in Commands)' /\ OutIsNew' /\ RoomForOut' /\ IsSeq(disk')
  BY DEF Inv, OutIsNew, RoomForOut, Writing, HasSource
<1> QED BY <1>3, <1>4 DEF Inv

(* A write into the output, or none. *)
Writes == disk' = disk \/ \E x : disk' = [disk EXCEPT ![out] = x]

(* What a write leaves: the files and their number, and the source. *)
LEMMA WriteFacts ==
  ASSUME Inv, pc \in Writing, Writes
  PROVE  /\ IsSeq(disk') /\ Len(disk') = Len(disk)
         /\ out \in 1 .. Len(disk) /\ reader \in 1 .. Len(disk) /\ reader # out
         /\ disk'[reader] = disk[reader]
<1>1. out \in 1 .. Len(disk) /\ reader \in 1 .. Len(disk) /\ reader # out
  <2>1. Len(disk) \in Nat /\ out \in 0 .. Len(disk) /\ reader \in 0 .. Len(disk)
    BY BoundAssumption DEF Inv, TypeOK
  <2>2. out # 0 /\ reader # 0 /\ out # reader
    BY DEF Inv, OutIsNew, HasSource, NoFile
  <2> QED BY <2>1, <2>2
<1>2. CASE disk' = disk
  BY <1>1, <1>2 DEF Inv
<1>3. CASE \E x : disk' = [disk EXCEPT ![out] = x]
  <2>1. PICK x : disk' = [disk EXCEPT ![out] = x]
    BY <1>3
  <2>2. IsSeq(disk)
    BY DEF Inv
  <2>3. disk' = WithAt(disk, out, x)
    BY <2>1 DEF WithAt
  <2> QED BY <1>1, <2>2, <2>3, Replaced
<1> QED BY <1>2, <1>3 DEF Writes

(* A step of the writing that stays in the command keeps the invariant. *)
LEMMA WriteKeeps ==
  ASSUME Inv, pc \in Writing, pc' \in Writing, Writes,
         UNCHANGED << files, command, reader, out, status, made >>,
         pc' = "pass" => todo' \subseteq DOMAIN Source \ ManagedNames
  PROVE  Inv'
<1>1. /\ IsSeq(disk') /\ Len(disk') = Len(disk)
      /\ reader' \in 1 .. Len(disk) /\ disk'[reader] = disk[reader]
  BY WriteFacts
<1>2. Source' = Source
  BY <1>1 DEF Source
<1>3. Loads(reader)' = Loads(reader)
  BY <1>1 DEF Loads
<1>4. pc # "idle" /\ pc' # "idle"
  BY DEF Writing
<1>5. TypeOK'
  BY <1>1, <1>2, <1>3, <1>4 DEF Inv, TypeOK, Writing
<1>6. OutIsNew' /\ RoomForOut'
  BY DEF Inv, OutIsNew, RoomForOut, Writing, HasSource
<1> QED BY <1>1, <1>4, <1>5, <1>6 DEF Inv

(* Every step of the writing of an output is one. *)
LEMMA ContentWritten ==
  ASSUME Inv,
         \/ AllocEmpty \/ GiveUp \/ WriteHeader \/ WriteKeyFormat
         \/ BeginFacets \/ BeginRenditions \/ WriteEnds
         \/ pc = "facets" /\ \E facet \in todo : WriteFacet(facet)
         \/ pc = "renditions" /\ \E entry \in todo : WriteRendition(entry)
         \/ pc = "pass" /\ \E name \in todo : PassThrough(name)
         \/ Relocate
  PROVE  Inv' /\ Writes /\ pc \in Writing /\ UNCHANGED << files, reader, out >>
<1>1. \A name, content : Put(name, content) => Writes
  BY DEF Put, Writes
<1>2. \A name, entry : Insert(name, entry) => Writes
  BY DEF Insert, Writes
<1>3. CASE AllocEmpty
  BY <1>3, WriteKeeps DEF AllocEmpty, Writes, Writing
<1>4. CASE GiveUp
  <2>1. UnmanagedNames(Source) \subseteq DOMAIN Source \ ManagedNames
    BY DEF UnmanagedNames
  <2> QED BY <1>4, <2>1, WriteKeeps DEF GiveUp, Writes, Writing
<1>5. CASE WriteHeader
  BY <1>1, <1>5, WriteKeeps DEF WriteHeader, Writing
<1>6. CASE WriteKeyFormat
  BY <1>1, <1>6, WriteKeeps DEF WriteKeyFormat, Writing
<1>7. CASE BeginFacets
  BY <1>1, <1>7, WriteKeeps DEF BeginFacets, Writing
<1>8. CASE BeginRenditions
  BY <1>1, <1>8, WriteKeeps DEF BeginRenditions, Writing
<1>9. CASE WriteEnds
  <2>1. UnmanagedNames(Source) \subseteq DOMAIN Source \ ManagedNames
    BY DEF UnmanagedNames
  <2> QED BY <1>9, <2>1, WriteKeeps DEF WriteEnds, Writes, Writing
<1>10. CASE pc = "facets" /\ \E facet \in todo : WriteFacet(facet)
  BY <1>2, <1>10, WriteKeeps DEF WriteFacet, Writing
<1>11. CASE pc = "renditions" /\ \E entry \in todo : WriteRendition(entry)
  BY <1>2, <1>11, WriteKeeps DEF WriteRendition, Writing
<1>12. CASE pc = "pass" /\ \E name \in todo : PassThrough(name)
  <2>1. todo \subseteq DOMAIN Source \ ManagedNames
    BY <1>12 DEF Inv, TypeOK
  <2> QED BY <1>1, <1>12, <2>1, WriteKeeps DEF PassThrough, Writing
<1>13. CASE Relocate
  BY <1>13, WriteKeeps DEF Relocate, Writes, Writing
<1> QED BY <1>3, <1>4, <1>5, <1>6, <1>7, <1>8, <1>9, <1>10, <1>11, <1>12, <1>13

(* Opening finds a file that is there, and maps it. *)
LEMMA OpeningKeeps ==
  ASSUME Inv, OpenSource \/ OpenOut
  PROVE  Inv' /\ UNCHANGED << files, disk >>
<1>1. CASE OpenSource
  <2>1. files[command.source] \in 0 .. Len(disk) /\ Loads(files[command.source])
    BY <1>1 DEF Inv, TypeOK, OpenSource, AtSource, Commands
  <2>2. files[command.source] # NoFile /\ Loads(reader)'
    BY <1>1, <2>1 DEF OpenSource, Loads
  <2>3. TypeOK' /\ command' \in Commands
    BY <1>1, <2>1, <2>2 DEF Inv, TypeOK, OpenSource, AtSource
  <2>4. OutIsNew' /\ RoomForOut'
    BY <1>1, <2>2 DEF Inv, OpenSource, AtSource, OutIsNew, RoomForOut, Writing, HasSource
  <2> QED BY <1>1, <2>3, <2>4 DEF Inv, OpenSource
<1>2. CASE OpenOut
  <2>1. files[command.out] \in 0 .. Len(disk)
    BY <1>2 DEF Inv, TypeOK, OpenOut, Commands
  <2>2. Loads(reader)' = Loads(reader)
    BY <1>2 DEF OpenOut, Loads
  <2>3. TypeOK' /\ command' \in Commands
    BY <1>2, <2>1, <2>2 DEF Inv, TypeOK, OpenOut
  <2>4. OutIsNew' /\ RoomForOut'
    BY <1>2 DEF Inv, OpenOut, OutIsNew, RoomForOut, Writing, HasSource
  <2> QED BY <1>2, <2>3, <2>4 DEF Inv, OpenOut
<1> QED BY <1>1, <1>2

(* A command that begins has its paths, and room for a file if it writes. *)
LEMMA StartKeeps ==
  ASSUME Inv, NEW c \in Commands, Start(c)
  PROVE  Inv' /\ UNCHANGED << files, disk >>
<1>1. Loads(reader)' = Loads(reader)
  BY DEF Start, Loads
<1>2. TypeOK' /\ command' \in Commands
  BY <1>1 DEF Inv, TypeOK, Start
<1>3. OutIsNew' /\ RoomForOut'
  BY DEF Inv, Start, OutIsNew, RoomForOut, Writing, HasSource
<1> QED BY <1>2, <1>3 DEF Inv, Start

(* The old output is gone before a new one is created. *)
LEMMA RemovalKeeps ==
  ASSUME Inv, RemoveOut
  PROVE  Inv' /\ UNCHANGED disk /\ \A p \in Paths : p # command.out => files'[p] = files[p]
<1>1. /\ command \in Commands /\ command.out \in Paths
      /\ files \in [Paths -> 0 .. Len(disk)] /\ 0 \in 0 .. Len(disk)
  BY BoundAssumption DEF Inv, TypeOK, RemoveOut, Commands
<1>2. /\ files' \in [Paths -> 0 .. Len(disk)] /\ files'[command.out] = NoFile
      /\ \A p \in Paths : p # command.out => files'[p] = files[p]
  BY <1>1 DEF RemoveOut, Removed, NoFile
<1>3. Loads(reader)' = Loads(reader)
  BY DEF RemoveOut, Loads
<1>4. TypeOK'
  BY <1>1, <1>2, <1>3 DEF Inv, TypeOK, RemoveOut
<1>5. OutIsNew' /\ RoomForOut'
  BY <1>2 DEF Inv, RemoveOut, OutIsNew, RoomForOut, Writing, HasSource
<1> QED BY <1>1, <1>2, <1>4, <1>5 DEF Inv, RemoveOut

(* The output is a file of its own, after all that there are. *)
LEMMA CreationKeeps ==
  ASSUME Inv, CreateOut
  PROVE  /\ Inv'
         /\ \A i \in 1 .. Len(disk) : disk'[i] = disk[i]
         /\ \A p \in Paths : p # command.out => files'[p] = files[p]
<1> DEFINE m == [verb |-> command.verb, from |-> disk[reader], done |-> FALSE]
<1>1. /\ command \in Commands /\ command.out \in Paths
      /\ files \in [Paths -> 0 .. Len(disk)] /\ files[command.out] = NoFile
      /\ reader # NoFile /\ reader \in 0 .. Len(disk)
      /\ IsSeq(disk) /\ IsSeq(made) /\ Len(made) = Len(disk)
  BY DEF Inv, TypeOK, OutIsNew, CreateOut, Commands, HasSource
<1>2. /\ out' = Len(disk) + 1 /\ files' = [files EXCEPT ![command.out] = Len(disk) + 1]
      /\ disk' = Append(disk, Blank) /\ made' = Append(made, m)
  BY <1>1 DEF CreateOut
<1> HIDE DEF m
<1>3. /\ IsSeq(disk') /\ Len(disk') = Len(disk) + 1 /\ Len(disk) \in Nat
      /\ \A i \in 1 .. Len(disk) : disk'[i] = disk[i]
      /\ IsSeq(made') /\ Len(made') = Len(made) + 1
  BY <1>1, <1>2, Appended
<1>4. Len(disk') \in 1 .. MaxFiles
  BY <1>3, BoundAssumption DEF Inv, RoomForOut, CreateOut
<1>5. /\ files' \in [Paths -> 0 .. Len(disk')]
      /\ \A p \in Paths : p # command.out => files'[p] = files[p]
  BY <1>1, <1>2, <1>3
<1>6. reader \in 1 .. Len(disk) /\ reader' = reader /\ reader' \in 0 .. Len(disk')
  BY <1>1, <1>3 DEF CreateOut, NoFile
<1>7. Loads(reader)' = Loads(reader)
  BY <1>3, <1>6 DEF Loads
<1>8. out' \in 0 .. Len(disk') /\ out' # NoFile /\ out' # reader'
  BY <1>2, <1>3, <1>6 DEF NoFile
<1>9. TypeOK'
  BY <1>1, <1>3, <1>4, <1>5, <1>6, <1>7, <1>8 DEF Inv, TypeOK, CreateOut
<1>10. OutIsNew' /\ RoomForOut'
  BY <1>1, <1>6, <1>8 DEF CreateOut, OutIsNew, RoomForOut, Writing, HasSource
<1> QED BY <1>1, <1>3, <1>5, <1>9, <1>10 DEF Inv, CreateOut

(* The end of a whole roundtrip or patch is noted in the history. *)
LEMMA ExitKeeps ==
  ASSUME Inv, Exit
  PROVE  Inv' /\ UNCHANGED << files, disk >>
<1> DEFINE m == [made[out] EXCEPT !.done = "CARHEADER" \in DOMAIN disk[out].variables]
<1>1. made' = WithAt(made, out, m)
  BY DEF Exit, WithAt
<1> HIDE DEF m
<1>2. IsSeq(made) /\ out \in 1 .. Len(made)
  <2>1. out # NoFile /\ out \in 0 .. Len(disk) /\ Len(disk) \in Nat
    BY BoundAssumption DEF Inv, TypeOK, OutIsNew, Exit, Writing
  <2> QED BY <2>1 DEF Inv, TypeOK, NoFile
<1>3. IsSeq(made') /\ Len(made') = Len(made)
  BY <1>1, <1>2, Replaced
<1> QED BY <1>3, EndKeeps DEF Exit, Ends

(* The commands that end without an output. *)
LEMMA FailureKeeps ==
  ASSUME Inv, BadColour \/ Refuse \/ CrashOnOpen \/ Compare \/ CannotCreate \/ Kill
  PROVE  Inv' /\ UNCHANGED << files, disk >>
<1>1. PICK how \in {"success", "failure", "killed", "crash"} : Ends(how) /\ UNCHANGED made
  BY DEF BadColour, Refuse, CrashOnOpen, Compare, CannotCreate, Kill
<1>2. IsSeq(made') /\ Len(made') = Len(made)
  BY <1>1 DEF Inv
<1> QED BY <1>1, <1>2, EndKeeps DEF Ends

(* What a step may do to files: a source that is read stays as it is, and  *)
(* only the path of the output changes, of a command with a source.        *)
FilesStep ==
  /\ reader # NoFile /\ reader' = reader => disk'[reader] = disk[reader]
  /\ \A p \in Paths : files'[p] # files[p] => p = command.out /\ reader # NoFile /\ Loads(reader)

(* Every step keeps the invariant and what FilesKept says of it. *)
LEMMA StepKeeps == Inv /\ [Next]_vars => Inv' /\ FilesStep
<1> SUFFICES ASSUME Inv, [Next]_vars PROVE Inv' /\ FilesStep
  OBVIOUS
<1>1. ASSUME UNCHANGED << files, disk >> PROVE FilesStep
  BY <1>1 DEF FilesStep
<1>2. CASE UNCHANGED vars
  <2>1. Inv'
    BY <1>2 DEF vars, Inv, TypeOK, OutIsNew, RoomForOut, Loads, Source
  <2> QED BY <1>1, <1>2, <2>1 DEF vars
<1>3. CASE \E c \in Commands : Start(c)
  BY <1>1, <1>3, StartKeeps
<1>4. CASE OpenSource \/ OpenOut
  BY <1>1, <1>4, OpeningKeeps
<1>5. CASE BadColour \/ Refuse \/ CrashOnOpen \/ Compare \/ CannotCreate \/ Kill
  BY <1>1, <1>5, FailureKeeps
<1>6. CASE RemoveOut
  <2>1. reader # NoFile /\ Loads(reader)
    BY <1>6 DEF Inv, TypeOK, OutIsNew, RemoveOut, HasSource
  <2> QED BY <1>6, <2>1, RemovalKeeps DEF FilesStep
<1>7. CASE CreateOut
  <2>1. reader # NoFile /\ Loads(reader) /\ reader \in 0 .. Len(disk)
    BY <1>7 DEF Inv, TypeOK, OutIsNew, CreateOut, HasSource
  <2>2. reader \in 1 .. Len(disk)
    BY <2>1, BoundAssumption DEF Inv, TypeOK, NoFile
  <2> QED BY <1>7, <2>1, <2>2, CreationKeeps DEF FilesStep
<1>8. CASE \/ AllocEmpty \/ GiveUp \/ WriteHeader \/ WriteKeyFormat
           \/ BeginFacets \/ BeginRenditions \/ WriteEnds
           \/ pc = "facets" /\ \E facet \in todo : WriteFacet(facet)
           \/ pc = "renditions" /\ \E entry \in todo : WriteRendition(entry)
           \/ pc = "pass" /\ \E name \in todo : PassThrough(name)
           \/ Relocate
  <2>1. Inv' /\ Writes /\ pc \in Writing /\ UNCHANGED << files, reader, out >>
    BY <1>8, ContentWritten
  <2> QED BY <2>1, WriteFacts DEF FilesStep
<1>9. CASE Exit
  BY <1>1, <1>9, ExitKeeps
<1> QED BY <1>2, <1>3, <1>4, <1>5, <1>6, <1>7, <1>8, <1>9 DEF Next, Open, Write

-----------------------------------------------------------------------------
(* The contents of the files, step by step. *)

(* What is to be written makes a file that is as catalogs are. *)
LEMMA WrittenIsWellFormed ==
  ASSUME NEW c, NEW old, WellFormed(old), NEW new, NothingElse(c, old, new)
  PROVE  WellFormed(new)
<1>1. /\ new = [n \in DOMAIN new |-> new[n]]
      /\ "RENDITIONS" \in DOMAIN new => "KEYFORMAT" \in DOMAIN new
      /\ "KEYFORMAT" \in DOMAIN new => "KEYFORMAT" \in DOMAIN old /\ new["KEYFORMAT"] = old["KEYFORMAT"]
  BY DEF NothingElse
<1>2. "KEYFORMAT" \in DOMAIN new => FormatOfKeys(new["KEYFORMAT"])
  BY <1>1 DEF WellFormed
<1>3. ASSUME NEW f \in Facets(new) PROVE f \in FacetEntry(f.key)
  <2>1. PICK g \in Facets(old) : f = Rewritten(g)
    BY DEF NothingElse, RewrittenFacets
  <2>2. g \in FacetEntry(g.key)
    BY DEF WellFormed
  <2> QED BY <2>1, <2>2, FacetWritten
<1>4. ASSUME NEW e \in Renditions(new)
      PROVE  e \in RenditionEntry(new["KEYFORMAT"], e.value.kind, e.value.content)
  <2>1. PICK d \in Renditions(old) : e = CarriedBy(c, old, d)
    BY DEF NothingElse, CarriedRenditions
  <2>2. e \in RenditionEntry(old["KEYFORMAT"], e.value.kind, e.value.content)
    BY <2>1, EntryCarried
  <2>3. "KEYFORMAT" \in DOMAIN new
    BY <1>1 DEF Renditions, TreeOf
  <2> QED BY <1>1, <2>2, <2>3
<1> QED BY <1>1, <1>2, <1>3, <1>4 DEF WellFormed

(* A variable that is passed on. *)
LEMMA VariablePut ==
  ASSUME NEW c, NEW old, NEW new, NothingElse(c, old, new),
         NEW n \in DOMAIN old \ {"FACETKEYS", "RENDITIONS"}
  PROVE  LET v == With(new, n, old[n])
         IN /\ NothingElse(c, old, v) /\ DOMAIN v = DOMAIN new \cup {n}
            /\ Facets(v) = Facets(new) /\ Renditions(v) = Renditions(new)
<1> DEFINE v == With(new, n, old[n])
<1>1. /\ DOMAIN v = DOMAIN new \cup {n} /\ v[n] = old[n]
      /\ \A k \in DOMAIN new \ {n} : v[k] = new[k]
      /\ v = [k \in DOMAIN v |-> v[k]]
  BY DEF With
<1> HIDE DEF v
<1>2. Facets(v) = Facets(new) /\ Renditions(v) = Renditions(new)
  BY <1>1 DEF Facets, Renditions, TreeOf
<1> QED BY <1>1, <1>2 DEF NothingElse, v

(* A tree that is begun has no entries yet. *)
LEMMA TreeBegun ==
  ASSUME NEW c, NEW old, NEW new, NothingElse(c, old, new),
         NEW tree \in {"FACETKEYS", "RENDITIONS"},
         tree = "RENDITIONS" => "KEYFORMAT" \in DOMAIN new
  PROVE  LET v == With(new, tree, {})
         IN /\ NothingElse(c, old, v) /\ DOMAIN v = DOMAIN new \cup {tree}
            /\ tree = "RENDITIONS" => Facets(v) = Facets(new)
<1> DEFINE v == With(new, tree, {})
<1>1. /\ DOMAIN v = DOMAIN new \cup {tree} /\ v[tree] = {}
      /\ \A k \in DOMAIN new \ {tree} : v[k] = new[k]
      /\ v = [k \in DOMAIN v |-> v[k]]
  BY DEF With
<1> HIDE DEF v
<1>2. /\ Facets(v) \subseteq Facets(new) /\ Renditions(v) \subseteq Renditions(new)
      /\ tree = "RENDITIONS" => Facets(v) = Facets(new)
  BY <1>1 DEF Facets, Renditions, TreeOf
<1>3. \A n \in DOMAIN v \ {"FACETKEYS", "RENDITIONS"} : n \in DOMAIN new /\ v[n] = new[n]
  BY <1>1
<1>4. \A n \in DOMAIN v \ {"FACETKEYS", "RENDITIONS"} : n \in DOMAIN old /\ v[n] = old[n]
  BY <1>3 DEF NothingElse
<1>5. "RENDITIONS" \in DOMAIN v => "KEYFORMAT" \in DOMAIN v
  BY <1>1 DEF NothingElse
<1>6. Facets(v) \subseteq RewrittenFacets(Facets(old))
  BY <1>2 DEF NothingElse
<1>7. Renditions(v) \subseteq CarriedRenditions(c, old, Renditions(old))
  BY <1>2 DEF NothingElse
<1> HIDE DEF v
<1>8. NothingElse(c, old, v)
  BY <1>1, <1>4, <1>5, <1>6, <1>7 DEF NothingElse
<1> QED BY <1>1, <1>2, <1>8 DEF v

(* An entry that is inserted into its tree. *)
LEMMA EntryPut ==
  ASSUME NEW c, NEW old, NEW new, NothingElse(c, old, new),
         NEW tree \in DOMAIN new, NEW entry,
         \/ tree = "FACETKEYS" /\ entry \in RewrittenFacets(Facets(old))
         \/ tree = "RENDITIONS" /\ entry \in CarriedRenditions(c, old, Renditions(old)),
         NEW v, v = [k \in DOMAIN v |-> v[k]], DOMAIN v = DOMAIN new,
         v[tree] = new[tree] \cup {entry}, \A k \in DOMAIN new \ {tree} : v[k] = new[k]
  PROVE  /\ NothingElse(c, old, v) /\ DOMAIN v = DOMAIN new
         /\ Facets(v) = IF tree = "FACETKEYS" THEN Facets(new) \cup {entry} ELSE Facets(new)
         /\ Renditions(v) = IF tree = "RENDITIONS" THEN Renditions(new) \cup {entry} ELSE Renditions(new)
<1>1. /\ DOMAIN v = DOMAIN new /\ v[tree] = new[tree] \cup {entry}
      /\ \A k \in DOMAIN new \ {tree} : v[k] = new[k]
      /\ v = [k \in DOMAIN v |-> v[k]]
  OBVIOUS
<1>2. /\ Facets(v) = IF tree = "FACETKEYS" THEN Facets(new) \cup {entry} ELSE Facets(new)
      /\ Renditions(v) = IF tree = "RENDITIONS" THEN Renditions(new) \cup {entry} ELSE Renditions(new)
  BY <1>1 DEF Facets, Renditions, TreeOf
<1>3. \A n \in DOMAIN v \ {"FACETKEYS", "RENDITIONS"} : n \in DOMAIN old /\ v[n] = old[n]
  BY <1>1 DEF NothingElse
<1>4. Facets(v) \subseteq RewrittenFacets(Facets(old))
  BY <1>2 DEF NothingElse
<1>5. Renditions(v) \subseteq CarriedRenditions(c, old, Renditions(old))
  BY <1>2 DEF NothingElse
<1>6. "RENDITIONS" \in DOMAIN v => "KEYFORMAT" \in DOMAIN v
  BY <1>1 DEF NothingElse
<1>7. NothingElse(c, old, v)
  BY <1>1, <1>3, <1>4, <1>5, <1>6 DEF NothingElse
<1> QED BY <1>1, <1>2, <1>7

(* What a command with a source has before it. *)
LEMMA SourceFacts ==
  ASSUME Inv, Contents, pc \in HasSource
  PROVE  /\ reader \in 1 .. Len(disk) /\ WellFormed(Source)
         /\ {"CARHEADER", "KEYFORMAT"} \subseteq DOMAIN Source /\ status = "running"
<1>1. reader \in 1 .. Len(disk)
  <2>1. reader # 0 /\ reader \in 0 .. Len(disk) /\ Len(disk) \in Nat
    BY BoundAssumption DEF Inv, TypeOK, OutIsNew, NoFile
  <2> QED BY <2>1
<1>2. Loads(reader)
  BY DEF Inv, TypeOK, OutIsNew
<1>3. status = "running"
  BY DEF Inv, TypeOK, HasSource, Writing
<1> QED BY <1>1, <1>2, <1>3 DEF Contents, FilesAreRight, Source, Loads

(* A step of the writing, in terms of what it leaves in the output. *)
LEMMA OutputWritten ==
  ASSUME Inv, Contents, pc \in Writing, pc' \in Writing, Writes,
         UNCHANGED << files, command, reader, out, status, made >>,
         "variables" \in DOMAIN disk'[out],
         Progress(pc', todo', command, Source, disk'[out].variables)
  PROVE  Contents'
<1> DEFINE new == disk'[out].variables
<1>1. /\ Len(disk') = Len(disk) /\ out \in 1 .. Len(disk) /\ reader \in 1 .. Len(disk)
      /\ disk'[reader] = disk[reader] /\ Source' = Source
  BY WriteFacts DEF Source
<1>2. \A i \in 1 .. Len(disk) : i # out => disk'[i] = disk[i]
  BY <1>1 DEF Writes
<1>3. /\ WellFormed(Source) /\ {"CARHEADER", "KEYFORMAT"} \subseteq DOMAIN Source
      /\ status = "running" /\ pc \in HasSource /\ pc' \in HasSource
  BY SourceFacts DEF HasSource
<1>4. /\ made[out] = [verb |-> command.verb, from |-> disk[reader], done |-> FALSE]
      /\ command.verb \in {"roundtrip", "patch"}
  BY <1>3 DEF Contents, OutputIsRight
<1>5. NothingElse(command, Source, new)
  BY DEF Progress
<1>6. WellFormed(new)
  BY <1>3, <1>5, WrittenIsWellFormed
<1>7. History(made[out], new)
  BY <1>3, <1>4, <1>5 DEF History, NothingElse, ManagedNames, Source
<1>8. FilesAreRight'
  BY <1>1, <1>2, <1>6, <1>7 DEF Contents, FilesAreRight
<1>9. OutputIsRight'
  BY <1>1, <1>4 DEF OutputIsRight
<1>10. VerdictIsRight'
  BY <1>3, <1>4 DEF VerdictIsRight, Writing
<1> QED BY <1>8, <1>9, <1>10 DEF Contents

(* What putting a variable and inserting an entry leave in the output. *)
LEMMA OutputPut ==
  ASSUME Inv, Contents, pc \in Writing
  PROVE  /\ "variables" \in DOMAIN disk[out] /\ disk' = disk => "variables" \in DOMAIN disk'[out]
         /\ NothingElse(command, Source, disk[out].variables)
         /\ \A n, x : Put(n, x) =>
              /\ Writes /\ "variables" \in DOMAIN disk'[out]
              /\ disk'[out].variables = With(disk[out].variables, n, x)
         /\ \A n, x : Insert(n, x) =>
              /\ Writes /\ "variables" \in DOMAIN disk'[out]
              /\ disk'[out].variables = [disk[out].variables EXCEPT ![n] = @ \cup {x}]
<1>1. out \in 1 .. Len(disk) /\ IsSeq(disk)
  <2>1. out # 0 /\ out \in 0 .. Len(disk) /\ Len(disk) \in Nat
    BY BoundAssumption DEF Inv, TypeOK, OutIsNew, NoFile
  <2> QED BY <2>1 DEF Inv
<1>2. "variables" \in DOMAIN disk[out]
  BY <1>1 DEF Contents, FilesAreRight
<1>3. out \in DOMAIN disk
  BY <1>1, SeqOfItsElements DEF IsSeq
<1>4. NothingElse(command, Source, disk[out].variables)
  BY DEF Contents, OutputIsRight, Progress
<1>5. ASSUME NEW v, disk' = [disk EXCEPT ![out].variables = v]
      PROVE  "variables" \in DOMAIN disk'[out] /\ disk'[out].variables = v
  BY <1>2, <1>3, <1>5
<1>6. ASSUME NEW n, NEW x, Put(n, x)
      PROVE  /\ Writes /\ "variables" \in DOMAIN disk'[out]
             /\ disk'[out].variables = With(disk[out].variables, n, x)
  <2>1. disk' = [disk EXCEPT ![out].variables = With(disk[out].variables, n, x)]
    BY <1>6, <1>2, <1>3 DEF Put
  <2> QED BY <1>5, <1>6, <2>1 DEF Put, Writes
<1>7. ASSUME NEW n, NEW x, Insert(n, x)
      PROVE  /\ Writes /\ "variables" \in DOMAIN disk'[out]
             /\ disk'[out].variables = [disk[out].variables EXCEPT ![n] = @ \cup {x}]
  <2>1. disk' = [disk EXCEPT ![out].variables = [disk[out].variables EXCEPT ![n] = @ \cup {x}]]
    BY <1>7, <1>2, <1>3 DEF Insert
  <2> QED BY <1>5, <1>7, <2>1 DEF Insert, Writes
<1> QED BY <1>2, <1>4, <1>6, <1>7

(* The steps of the writing that put a variable of the source. *)
LEMMA VariablesContents ==
  ASSUME Inv, Contents,
         \/ WriteHeader \/ WriteKeyFormat
         \/ pc = "pass" /\ \E name \in todo : PassThrough(name)
  PROVE  Contents'
<1> DEFINE new == disk[out].variables
           old == Source
<1>1. pc \in Writing /\ pc' \in Writing /\ pc \in HasSource
  BY DEF WriteHeader, WriteKeyFormat, PassThrough, Writing, HasSource
<1>2. /\ NothingElse(command, old, new) /\ Progress(pc, todo, command, old, new)
      /\ {"CARHEADER", "KEYFORMAT"} \subseteq DOMAIN old
  BY <1>1, OutputPut, SourceFacts DEF Contents, OutputIsRight
<1>3. ASSUME NEW n \in DOMAIN old \ {"FACETKEYS", "RENDITIONS"}, Put(n, old[n])
      PROVE  /\ Writes /\ "variables" \in DOMAIN disk'[out]
             /\ LET v == disk'[out].variables
                IN /\ NothingElse(command, old, v) /\ DOMAIN v = DOMAIN new \cup {n}
                   /\ Facets(v) = Facets(new) /\ Renditions(v) = Renditions(new)
  <2>1. /\ Writes /\ "variables" \in DOMAIN disk'[out]
        /\ disk'[out].variables = With(new, n, old[n])
    BY <1>1, <1>3, OutputPut
  <2> HIDE DEF new, old
  <2> QED BY <1>2, <2>1, VariablePut
<1>4. CASE WriteHeader
  <2> DEFINE v == disk'[out].variables
  <2>1. /\ Writes /\ "variables" \in DOMAIN disk'[out] /\ NothingElse(command, old, v)
        /\ "CARHEADER" \in DOMAIN v
    BY <1>2, <1>3, <1>4 DEF WriteHeader
  <2> HIDE DEF v, old
  <2>2. pc' = "keyfmt" /\ Progress(pc', todo', command, old, v)
    BY <1>4, <2>1 DEF WriteHeader, Progress
  <2> QED BY <1>1, <1>4, <2>1, <2>2, OutputWritten DEF WriteHeader, v, old
<1>5. CASE WriteKeyFormat
  <2> DEFINE v == disk'[out].variables
  <2>1. /\ Writes /\ "variables" \in DOMAIN disk'[out] /\ NothingElse(command, old, v)
        /\ DOMAIN v = DOMAIN new \cup {"KEYFORMAT"}
    BY <1>2, <1>3, <1>5 DEF WriteKeyFormat
  <2>2. "CARHEADER" \in DOMAIN new
    BY <1>2, <1>5 DEF WriteKeyFormat, Progress
  <2> HIDE DEF v, old, new
  <2>3. pc' = "facet tree" /\ Progress(pc', todo', command, old, v)
    BY <1>5, <2>1, <2>2 DEF WriteKeyFormat, Progress
  <2> QED BY <1>1, <1>5, <2>1, <2>3, OutputWritten DEF WriteKeyFormat, v, old
<1>6. CASE pc = "pass" /\ \E name \in todo : PassThrough(name)
  <2> DEFINE v == disk'[out].variables
  <2>1. PICK name \in todo : PassThrough(name)
    BY <1>6
  <2>2. name \in DOMAIN old \ ManagedNames
    BY <1>6 DEF Inv, TypeOK
  <2>3. /\ Writes /\ "variables" \in DOMAIN disk'[out] /\ NothingElse(command, old, v)
        /\ DOMAIN v = DOMAIN new \cup {name}
        /\ Facets(v) = Facets(new) /\ Renditions(v) = Renditions(new)
    BY <1>3, <2>1, <2>2 DEF PassThrough, ManagedNames
  <2>4. /\ UnmanagedNames(old) \ todo \subseteq DOMAIN new
        /\ "CARHEADER" \in DOMAIN new => AllManaged(command, old, new)
    BY <1>2, <1>6 DEF Progress
  <2>5. pc' = "pass" /\ todo' = todo \ {name} /\ name # "CARHEADER"
    BY <1>6, <2>1, <2>2 DEF PassThrough, ManagedNames
  <2> HIDE DEF v, old, new
  <2>6. "CARHEADER" \in DOMAIN v => AllManaged(command, old, v)
    BY <2>3, <2>4, <2>5 DEF AllManaged
  <2>7. UnmanagedNames(old) \ todo' \subseteq DOMAIN v
    BY <2>3, <2>4, <2>5
  <2>8. Progress(pc', todo', command, old, v)
    BY <2>3, <2>5, <2>6, <2>7 DEF Progress
  <2> QED BY <1>1, <2>1, <2>3, <2>8, OutputWritten DEF PassThrough, v, old
<1> QED BY <1>4, <1>5, <1>6

(* The steps of the writing that fill the trees. *)
LEMMA TreesContents ==
  ASSUME Inv, Contents,
         \/ BeginFacets \/ BeginRenditions
         \/ pc = "facets" /\ \E facet \in todo : WriteFacet(facet)
         \/ pc = "renditions" /\ \E entry \in todo : WriteRendition(entry)
  PROVE  Contents'
<1> DEFINE new == disk[out].variables
           old == Source
           v == disk'[out].variables
<1>1. pc \in Writing /\ pc' \in Writing
  BY DEF BeginFacets, BeginRenditions, WriteFacet, WriteRendition, Writing
<1>2. NothingElse(command, old, new) /\ Progress(pc, todo, command, old, new)
  BY <1>1, OutputPut DEF Contents, OutputIsRight, HasSource
<1>3. \A entry : Carried(entry) = CarriedBy(command, old, entry)
  BY DEF Carried, CarriedBy
<1>4. SUFFICES /\ Writes /\ "variables" \in DOMAIN disk'[out]
               /\ UNCHANGED << files, command, reader, out, status, made >>
               /\ Progress(pc', todo', command, old, v)
  BY <1>1, OutputWritten
<1>5. CASE BeginFacets
  <2>1. Writes /\ "variables" \in DOMAIN disk'[out] /\ v = With(new, "FACETKEYS", {})
    BY <1>1, <1>5, OutputPut DEF BeginFacets
  <2>2. /\ pc = "facet tree" /\ pc' = "facets" /\ todo' = Facets(old)
        /\ UNCHANGED << files, command, reader, out, status, made >>
    BY <1>5 DEF BeginFacets
  <2>3. "CARHEADER" \in DOMAIN new /\ "KEYFORMAT" \in DOMAIN new
    BY <1>2, <2>2 DEF Progress
  <2> HIDE DEF v, old, new
  <2>4. NothingElse(command, old, v) /\ DOMAIN v = DOMAIN new \cup {"FACETKEYS"}
    BY <1>2, <2>1, TreeBegun
  <2>5. RewrittenFacets(Facets(old) \ todo') = {}
    BY <2>2 DEF RewrittenFacets
  <2>6. Progress(pc', todo', command, old, v)
    BY <2>2, <2>3, <2>4, <2>5 DEF Progress
  <2> QED BY <2>1, <2>2, <2>6
<1>6. CASE BeginRenditions
  <2>1. Writes /\ "variables" \in DOMAIN disk'[out] /\ v = With(new, "RENDITIONS", {})
    BY <1>1, <1>6, OutputPut DEF BeginRenditions
  <2>2. /\ pc = "facets" /\ todo = {} /\ pc' = "renditions" /\ todo' = Renditions(old)
        /\ UNCHANGED << files, command, reader, out, status, made >>
    BY <1>6 DEF BeginRenditions
  <2>3. /\ {"CARHEADER", "KEYFORMAT", "FACETKEYS"} \subseteq DOMAIN new
        /\ RewrittenFacets(Facets(old)) \subseteq Facets(new)
    BY <1>2, <2>2 DEF Progress
  <2> HIDE DEF v, old, new
  <2>4. /\ NothingElse(command, old, v) /\ DOMAIN v = DOMAIN new \cup {"RENDITIONS"}
        /\ Facets(v) = Facets(new)
    BY <1>2, <2>1, <2>3, TreeBegun
  <2>5. CarriedRenditions(command, old, Renditions(old) \ todo') = {}
    BY <2>2 DEF CarriedRenditions
  <2>6. Progress(pc', todo', command, old, v)
    BY <2>2, <2>3, <2>4, <2>5 DEF Progress
  <2> QED BY <2>1, <2>2, <2>6
<1>7. CASE pc = "facets" /\ \E facet \in todo : WriteFacet(facet)
  <2>1. PICK facet \in todo : WriteFacet(facet)
    BY <1>7
  <2>2. /\ Writes /\ "variables" \in DOMAIN disk'[out]
        /\ v = [new EXCEPT !["FACETKEYS"] = @ \cup {Rewritten(facet)}]
    BY <1>1, <2>1, OutputPut DEF WriteFacet
  <2>3. /\ pc = "facets" /\ pc' = "facets" /\ todo' = todo \ {facet}
        /\ UNCHANGED << files, command, reader, out, status, made >>
    BY <2>1 DEF WriteFacet
  <2>4. /\ {"CARHEADER", "KEYFORMAT", "FACETKEYS"} \subseteq DOMAIN new
        /\ todo \subseteq Facets(old)
        /\ RewrittenFacets(Facets(old) \ todo) \subseteq Facets(new)
    BY <1>2, <2>3 DEF Progress
  <2> HIDE DEF v, old, new
  <2>5. Rewritten(facet) \in RewrittenFacets(Facets(old))
    BY <2>4 DEF RewrittenFacets
  <2>6. /\ NothingElse(command, old, v) /\ DOMAIN v = DOMAIN new
        /\ Facets(v) = Facets(new) \cup {Rewritten(facet)}
    <3> DEFINE x == Rewritten(facet) tree == "FACETKEYS"
    <3>1. tree \in DOMAIN new /\ x \in RewrittenFacets(Facets(old))
      BY <2>4, <2>5
    <3>2. /\ DOMAIN v = DOMAIN new /\ v[tree] = new[tree] \cup {x}
          /\ \A k \in DOMAIN new \ {tree} : v[k] = new[k]
          /\ v = [k \in DOMAIN v |-> v[k]]
      BY <2>2, <3>1
    <3>3. tree = "FACETKEYS"
      OBVIOUS
    <3> HIDE DEF x, tree
    <3>4. /\ NothingElse(command, old, v) /\ DOMAIN v = DOMAIN new
          /\ Facets(v) = IF tree = "FACETKEYS" THEN Facets(new) \cup {x} ELSE Facets(new)
      BY <1>2, <3>1, <3>2, <3>3, EntryPut
    <3> QED BY <3>3, <3>4 DEF x
  <2>7. RewrittenFacets(Facets(old) \ todo') \subseteq Facets(v)
    BY <2>3, <2>4, <2>6 DEF RewrittenFacets
  <2>8. Progress(pc', todo', command, old, v)
    BY <2>3, <2>4, <2>6, <2>7 DEF Progress
  <2> QED BY <2>2, <2>3, <2>8
<1>8. CASE pc = "renditions" /\ \E entry \in todo : WriteRendition(entry)
  <2>1. PICK entry \in todo : WriteRendition(entry)
    BY <1>8
  <2> DEFINE e == CarriedBy(command, old, entry)
  <2>2. /\ Writes /\ "variables" \in DOMAIN disk'[out]
        /\ v = [new EXCEPT !["RENDITIONS"] = @ \cup {e}]
    BY <1>1, <1>3, <2>1, OutputPut DEF WriteRendition
  <2>3. /\ pc = "renditions" /\ pc' = "renditions" /\ todo' = todo \ {entry}
        /\ UNCHANGED << files, command, reader, out, status, made >>
    BY <2>1 DEF WriteRendition
  <2>4. /\ ManagedNames \subseteq DOMAIN new /\ todo \subseteq Renditions(old)
        /\ RewrittenFacets(Facets(old)) \subseteq Facets(new)
        /\ CarriedRenditions(command, old, Renditions(old) \ todo) \subseteq Renditions(new)
    BY <1>2, <2>3 DEF Progress, ManagedNames
  <2> HIDE DEF v, old, new
  <2>5. e \in CarriedRenditions(command, old, Renditions(old))
    BY <2>4 DEF CarriedRenditions
  <2> HIDE DEF e
  <2>6. /\ NothingElse(command, old, v) /\ DOMAIN v = DOMAIN new
        /\ Facets(v) = Facets(new) /\ Renditions(v) = Renditions(new) \cup {e}
    <3> DEFINE tree == "RENDITIONS"
    <3>1. tree \in DOMAIN new /\ tree # "FACETKEYS"
      BY <2>4 DEF ManagedNames
    <3>2. /\ DOMAIN v = DOMAIN new /\ v[tree] = new[tree] \cup {e}
          /\ \A k \in DOMAIN new \ {tree} : v[k] = new[k]
          /\ v = [k \in DOMAIN v |-> v[k]]
      BY <2>2, <3>1
    <3>3. tree = "RENDITIONS"
      OBVIOUS
    <3> HIDE DEF tree
    <3> QED BY <1>2, <2>5, <3>1, <3>2, <3>3, EntryPut
  <2>7. CarriedRenditions(command, old, Renditions(old) \ todo') \subseteq Renditions(v)
    BY <2>3, <2>4, <2>6 DEF CarriedRenditions, e
  <2>8. Progress(pc', todo', command, old, v)
    BY <2>3, <2>4, <2>6, <2>7 DEF Progress, ManagedNames
  <2> QED BY <2>2, <2>3, <2>8
<1> QED BY <1>5, <1>6, <1>7, <1>8

(* A file that has no variables has nothing else. *)
LEMMA NothingIsNothingElse ==
  ASSUME NEW c, NEW old
  PROVE  NothingElse(c, old, << >>) /\ DOMAIN << >> = {}
<1>1. << >> \in Seq({}) /\ Len(<< >>) = 0
  OBVIOUS
<1>2. DOMAIN << >> = {} /\ << >> = [n \in DOMAIN << >> |-> << >>[n]]
  BY <1>1, LenProperties
<1> QED BY <1>2 DEF NothingElse, Facets, Renditions, TreeOf

(* The steps between the parts of the writing. *)
LEMMA PartsContents ==
  ASSUME Inv, Contents, AllocEmpty \/ GiveUp \/ WriteEnds \/ Relocate
  PROVE  Contents'
<1> DEFINE new == disk[out].variables
           old == Source
           v == disk'[out].variables
<1>1. pc \in Writing /\ pc' \in Writing /\ UNCHANGED << files, command, reader, out, status, made >>
  BY DEF AllocEmpty, GiveUp, WriteEnds, Relocate, Writing
<1>2. /\ NothingElse(command, old, new) /\ Progress(pc, todo, command, old, new)
      /\ "variables" \in DOMAIN disk[out] /\ out \in DOMAIN disk
  <2>1. out \in 1 .. Len(disk) /\ IsSeq(disk)
    <3>1. out # 0 /\ out \in 0 .. Len(disk) /\ Len(disk) \in Nat
      BY <1>1, BoundAssumption DEF Inv, TypeOK, OutIsNew, NoFile
    <3> QED BY <3>1 DEF Inv
  <2>2. out \in DOMAIN disk
    BY <2>1, SeqOfItsElements DEF IsSeq
  <2> QED BY <1>1, <2>1, <2>2 DEF Contents, FilesAreRight, OutputIsRight, HasSource, Progress
<1>3. SUFFICES Writes /\ "variables" \in DOMAIN disk'[out] /\ Progress(pc', todo', command, old, v)
  BY <1>1, OutputWritten
<1>4. CASE AllocEmpty
  <2>1. disk'[out] = EmptyBom /\ Writes
    BY <1>2, <1>4 DEF AllocEmpty, Writes
  <2>2. v = << >> /\ "variables" \in DOMAIN disk'[out]
    BY <2>1 DEF EmptyBom, Blank
  <2>3. pc' = "header"
    BY <1>4 DEF AllocEmpty
  <2> HIDE DEF v, old
  <2>4. NothingElse(command, old, v) /\ DOMAIN v = {}
    BY <2>2, NothingIsNothingElse
  <2>5. Progress(pc', todo', command, old, v)
    BY <2>3, <2>4 DEF Progress
  <2> QED BY <2>1, <2>2, <2>5
<1>5. CASE GiveUp
  <2>1. /\ pc = "header" /\ pc' = "pass" /\ todo' = UnmanagedNames(old) /\ disk' = disk
    BY <1>5 DEF GiveUp
  <2>2. v = new
    BY <2>1
  <2> HIDE DEF v, old, new
  <2>3. Progress(pc', todo', command, old, v)
    BY <1>2, <2>1, <2>2 DEF Progress
  <2> QED BY <1>2, <2>1, <2>3 DEF Writes
<1>6. CASE WriteEnds
  <2>1. /\ pc = "renditions" /\ todo = {} /\ pc' = "pass" /\ todo' = UnmanagedNames(old)
        /\ disk' = disk
    BY <1>6 DEF WriteEnds
  <2>2. v = new
    BY <2>1
  <2> HIDE DEF v, old, new
  <2>3. /\ {"CARHEADER", "KEYFORMAT", "FACETKEYS", "RENDITIONS"} \subseteq DOMAIN new
        /\ RewrittenFacets(Facets(old)) \subseteq Facets(new)
        /\ CarriedRenditions(command, old, Renditions(old)) \subseteq Renditions(new)
    BY <1>2, <2>1 DEF Progress
  <2>4. AllManaged(command, old, v)
    BY <2>2, <2>3 DEF AllManaged, ManagedNames
  <2>5. Progress(pc', todo', command, old, v)
    BY <1>2, <2>1, <2>2, <2>4 DEF Progress
  <2> QED BY <1>2, <2>1, <2>5 DEF Writes
<1>7. CASE Relocate
  <2>1. /\ pc = "pass" /\ todo = {} /\ pc' = "exit" /\ todo' = todo
        /\ disk' = [disk EXCEPT ![out].relocated = TRUE]
    BY <1>7 DEF Relocate
  <2>2. Writes /\ v = new /\ "variables" \in DOMAIN disk'[out]
    BY <1>2, <2>1 DEF Writes
  <2> HIDE DEF v, old, new
  <2>3. Progress(pc', todo', command, old, v)
    BY <1>2, <2>1, <2>2 DEF Progress
  <2> QED BY <2>2, <2>3
<1> QED BY <1>4, <1>5, <1>6, <1>7

(* The commands that end without an output, verify among them. *)
LEMMA FailureContents ==
  ASSUME Inv, Contents, BadColour \/ Refuse \/ CrashOnOpen \/ Compare \/ CannotCreate \/ Kill
  PROVE  Contents'
<1>1. PICK how : Ends(how) /\ UNCHANGED made /\ (how = "success" => Compare /\ Consistent(disk[reader], disk[out]))
  BY DEF BadColour, Refuse, CrashOnOpen, Compare, CannotCreate, Kill
<1>2. /\ UNCHANGED << files, disk, command, made >> /\ pc' = "idle" /\ status' = how
  BY <1>1 DEF Ends
<1>3. FilesAreRight' /\ OutputIsRight'
  BY <1>2 DEF Contents, FilesAreRight, OutputIsRight, HasSource, Writing
<1>4. ASSUME how = "success"
      PROVE  LET s == files[command.source] o == files[command.out]
             IN s # NoFile /\ o # NoFile /\ Loads(s) /\ Loads(o) /\ Consistent(disk[s], disk[o])
  <2>1. pc = "compare" /\ Consistent(disk[reader], disk[out])
    BY <1>1, <1>4 DEF Compare
  <2>2. reader = files[command.source] /\ out = files[command.out] /\ Loads(out)
    BY <2>1 DEF Contents, VerdictIsRight
  <2>3. reader # NoFile /\ Loads(reader)
    BY <2>1 DEF Inv, TypeOK, Contents, VerdictIsRight
  <2> QED BY <2>1, <2>2, <2>3 DEF Loads
<1>5. VerdictIsRight'
  BY <1>2, <1>4 DEF VerdictIsRight, Loads
<1> QED BY <1>3, <1>5 DEF Contents

(* A command that begins, finds its source or takes away an old output      *)
(* writes into no file.                                                     *)
LEMMA BeginningContents ==
  ASSUME Inv, Contents,
         (\E c \in Commands : Start(c)) \/ OpenSource \/ OpenOut \/ RemoveOut
  PROVE  Contents'
<1>1. UNCHANGED << disk, made >>
  BY DEF Start, OpenSource, OpenOut, RemoveOut
<1>2. FilesAreRight'
  BY <1>1 DEF Contents, FilesAreRight
<1>3. ASSUME Loads(files[command.source]) PROVE files[command.source] # NoFile
  BY <1>3 DEF Loads
<1>4. CASE \E c \in Commands : Start(c)
  <2>1. OutputIsRight' /\ VerdictIsRight'
    BY <1>4 DEF Start, OutputIsRight, VerdictIsRight, HasSource, Writing
  <2> QED BY <1>2, <2>1 DEF Contents
<1>5. CASE OpenSource
  <2>1. command \in Commands /\ command.verb \in {"roundtrip", "patch", "verify"} /\ status = "running"
    BY <1>5 DEF Inv, TypeOK, OpenSource, AtSource, Commands
  <2>2. OutputIsRight' /\ VerdictIsRight'
    BY <1>3, <1>5, <2>1 DEF OpenSource, OutputIsRight, VerdictIsRight, HasSource, Writing, Loads
  <2> QED BY <1>2, <2>2 DEF Contents
<1>6. CASE OpenOut
  <2>1. status = "running" /\ command.verb = "verify" /\ reader = files[command.source] /\ reader # NoFile
    BY <1>6 DEF Inv, TypeOK, OpenOut, Contents, VerdictIsRight
  <2>2. OutputIsRight' /\ VerdictIsRight'
    BY <1>6, <2>1 DEF OpenOut, OutputIsRight, VerdictIsRight, HasSource, Writing, Loads
  <2> QED BY <1>2, <2>2 DEF Contents
<1>7. CASE RemoveOut
  <2>1. status = "running" /\ command.verb \in {"roundtrip", "patch"}
    BY <1>7 DEF Inv, TypeOK, RemoveOut, Contents, OutputIsRight, HasSource
  <2>2. OutputIsRight' /\ VerdictIsRight'
    BY <1>7, <2>1 DEF RemoveOut, OutputIsRight, VerdictIsRight, HasSource, Writing
  <2> QED BY <1>2, <2>2 DEF Contents
<1> QED BY <1>4, <1>5, <1>6, <1>7

(* The new file is blank, and the history notes what it will be made from. *)
LEMMA CreationContents ==
  ASSUME Inv, Contents, CreateOut
  PROVE  Contents'
<1> DEFINE m == [verb |-> command.verb, from |-> disk[reader], done |-> FALSE]
<1>1. pc \in HasSource /\ pc = "create"
  BY DEF CreateOut, HasSource
<1>2. /\ reader \in 1 .. Len(disk) /\ WellFormed(Source)
      /\ {"CARHEADER", "KEYFORMAT"} \subseteq DOMAIN Source /\ status = "running"
      /\ command.verb \in {"roundtrip", "patch"}
  BY <1>1, SourceFacts DEF Contents, OutputIsRight
<1>3. /\ files[command.out] = NoFile /\ IsSeq(disk) /\ IsSeq(made) /\ Len(made) = Len(disk)
  BY <1>1 DEF Inv, TypeOK, OutIsNew
<1>4. /\ out' = Len(disk) + 1 /\ disk' = Append(disk, Blank) /\ made' = Append(made, m)
      /\ pc' = "empty" /\ UNCHANGED << command, reader, status >>
  BY <1>3 DEF CreateOut
<1> HIDE DEF m
<1>5. /\ Len(disk') = Len(disk) + 1 /\ Len(disk) \in Nat /\ disk'[Len(disk) + 1] = Blank
      /\ made'[Len(disk) + 1] = m
      /\ \A i \in 1 .. Len(disk) : disk'[i] = disk[i] /\ made'[i] = made[i]
  BY <1>3, <1>4, Appended
<1>6. /\ "variables" \in DOMAIN Blank /\ Blank.variables = << >>
      /\ NothingElse(command, Source, << >>) /\ DOMAIN << >> = {}
  BY NothingIsNothingElse DEF Blank
<1>7. WellFormed(Blank.variables)
  BY <1>2, <1>6, WrittenIsWellFormed
<1>8. History(m, Blank.variables)
  BY <1>2, <1>6 DEF History, m, Source
<1>9. FilesAreRight'
  <2> SUFFICES ASSUME NEW i \in 1 .. Len(disk) + 1
               PROVE  /\ "variables" \in DOMAIN disk'[i] /\ WellFormed(disk'[i].variables)
                      /\ History(made'[i], disk'[i].variables)
    BY <1>5 DEF FilesAreRight
  <2>1. CASE i = Len(disk) + 1
    BY <1>5, <1>6, <1>7, <1>8, <2>1
  <2>2. CASE i \in 1 .. Len(disk)
    BY <1>5, <2>2 DEF Contents, FilesAreRight
  <2> QED BY <1>5, <2>1, <2>2
<1>10. OutputIsRight'
  <2>1. Source' = Source /\ disk'[reader'] = disk[reader]
    BY <1>2, <1>4, <1>5 DEF Source
  <2>2. disk'[out'].variables = << >>
    BY <1>4, <1>5, <1>6
  <2>3. made'[out'] = [verb |-> command'.verb, from |-> disk'[reader'], done |-> FALSE]
    BY <1>4, <1>5, <2>1 DEF m
  <2>4. Progress("empty", todo', command, Source, << >>)
    BY <1>6 DEF Progress
  <2> QED BY <1>2, <1>4, <2>1, <2>2, <2>3, <2>4 DEF OutputIsRight
<1>11. VerdictIsRight'
  BY <1>2, <1>4 DEF VerdictIsRight
<1> QED BY <1>9, <1>10, <1>11 DEF Contents

(* A command that comes to its end has written all that it was to write. *)
LEMMA ExitContents ==
  ASSUME Inv, Contents, Exit
  PROVE  Contents'
<1> DEFINE new == disk[out].variables
           done == "CARHEADER" \in DOMAIN new
           m == [made[out] EXCEPT !.done = done]
<1>1. /\ pc = "exit" /\ pc' = "idle" /\ status' = "success"
      /\ UNCHANGED << files, disk, command >> /\ made' = WithAt(made, out, m)
      /\ pc \in HasSource /\ pc \in Writing
  BY DEF Exit, Ends, WithAt, HasSource, Writing
<1>2. out \in 1 .. Len(made) /\ IsSeq(made) /\ Len(made) = Len(disk)
  <2>1. out # 0 /\ out \in 0 .. Len(disk) /\ Len(disk) \in Nat
    BY <1>1, BoundAssumption DEF Inv, TypeOK, OutIsNew, NoFile
  <2> QED BY <2>1 DEF Inv, TypeOK
<1>3. /\ made[out] = [verb |-> command.verb, from |-> disk[reader], done |-> FALSE]
      /\ command.verb \in {"roundtrip", "patch"}
      /\ Progress(pc, todo, command, Source, new)
  BY <1>1 DEF Contents, OutputIsRight
<1>4. /\ WellFormed(Source) /\ {"CARHEADER", "KEYFORMAT"} \subseteq DOMAIN Source
      /\ command \in Commands
  BY <1>1, SourceFacts DEF Inv
<1>5. m = [verb |-> command.verb, from |-> disk[reader], done |-> done]
  BY <1>3
<1>6. History(m, new)
  <2>1. /\ NothingElse(command, Source, new) /\ UnmanagedNames(Source) \subseteq DOMAIN new
        /\ done => AllManaged(command, Source, new)
    BY <1>1, <1>3 DEF Progress
  <2> HIDE DEF m, done, new
  <2>2. \A n \in DOMAIN new \ ManagedNames : n \in DOMAIN Source /\ new[n] = Source[n]
    BY <2>1 DEF NothingElse, ManagedNames
  <2>3. m.verb = command.verb /\ m.from.variables = Source /\ m.done = done
    BY <1>5 DEF Source
  <2>4. m = [verb |-> m.verb, from |-> m.from, done |-> m.done]
    BY <1>5
  <2> QED BY <1>3, <1>4, <2>1, <2>2, <2>3, <2>4 DEF History
<1> HIDE DEF m, done
<1>7. made'[out] = m /\ \A i \in 1 .. Len(disk) : i # out => made'[i] = made[i]
  BY <1>1, <1>2, Replaced
<1>8. FilesAreRight'
  BY <1>1, <1>2, <1>6, <1>7 DEF Contents, FilesAreRight
<1>9. OutputIsRight' /\ VerdictIsRight'
  BY <1>1, <1>3 DEF OutputIsRight, VerdictIsRight, HasSource, Writing
<1> QED BY <1>8, <1>9 DEF Contents

(* Every step keeps what is in the files. *)
LEMMA StepKeepsContents == Inv /\ Contents /\ [Next]_vars => Contents'
<1> SUFFICES ASSUME Inv, Contents, [Next]_vars PROVE Contents'
  OBVIOUS
<1>1. CASE UNCHANGED vars
  BY <1>1 DEF vars, Contents, FilesAreRight, OutputIsRight, VerdictIsRight, Source, Loads
<1>2. CASE (\E c \in Commands : Start(c)) \/ OpenSource \/ OpenOut \/ RemoveOut
  BY <1>2, BeginningContents
<1>3. CASE BadColour \/ Refuse \/ CrashOnOpen \/ Compare \/ CannotCreate \/ Kill
  BY <1>3, FailureContents
<1>4. CASE CreateOut
  BY <1>4, CreationContents
<1>5. CASE AllocEmpty \/ GiveUp \/ WriteEnds \/ Relocate
  BY <1>5, PartsContents
<1>6. CASE \/ WriteHeader \/ WriteKeyFormat
           \/ pc = "pass" /\ \E name \in todo : PassThrough(name)
  BY <1>6, VariablesContents
<1>7. CASE \/ BeginFacets \/ BeginRenditions
           \/ pc = "facets" /\ \E facet \in todo : WriteFacet(facet)
           \/ pc = "renditions" /\ \E entry \in todo : WriteRendition(entry)
  BY <1>7, TreesContents
<1>8. CASE Exit
  BY <1>8, ExitContents
<1> QED BY <1>1, <1>2, <1>3, <1>4, <1>5, <1>6, <1>7, <1>8 DEF Next, Open, Write

(* In the beginning one file is there and no command runs. *)
LEMMA InitHolds == Init => Inv
<1> SUFFICES ASSUME Init PROVE Inv
  OBVIOUS
<1>1. PICK c \in Catalogs, p \in Paths :
        disk = << c >> /\ files = [q \in Paths |-> IF q = p THEN 1 ELSE NoFile]
  BY DEF Init
<1>2. IsSeq(disk) /\ Len(disk) = 1
  <2>1. << c >> \in Seq({c}) /\ Len(<< c >>) = 1
    OBVIOUS
  <2> QED BY <1>1, <2>1, SeqOfItsElements
<1>3. IsSeq(made) /\ Len(made) = 1
  <2>1. << NotMade >> \in Seq({NotMade}) /\ Len(<< NotMade >>) = 1
    OBVIOUS
  <2> QED BY <2>1, SeqOfItsElements DEF Init
<1>4. files \in [Paths -> 0 .. 1]
  BY <1>1 DEF NoFile
<1>5. TypeOK
  BY <1>2, <1>3, <1>4, BoundAssumption DEF Init, TypeOK, NoFile
<1>6. OutIsNew /\ RoomForOut /\ pc = "idle"
  BY DEF Init, OutIsNew, RoomForOut, Writing, HasSource
<1> QED BY <1>2, <1>3, <1>5, <1>6 DEF Inv

(* Everything keeps its type, whatever the commands are, wherever they end *)
(* and however many there are.                                             *)
THEOREM TypeCorrect == Spec => []TypeOK
<1>1. Init => Inv
  BY InitHolds
<1>2. Inv /\ [Next]_vars => Inv'
  BY StepKeeps
<1>3. Inv => TypeOK
  BY DEF Inv
<1> QED BY <1>1, <1>2, <1>3, PTL DEF Spec

(* No step of a command writes into the file it reads, and no path but its *)
(* output's loses its file, and that only to a command with a source that  *)
(* loads: for every number of commands, also on one path for both.         *)
THEOREM FilesAreKept == Spec => FilesKept
<1>1. Init => Inv
  BY InitHolds
<1>2. Inv /\ [Next]_vars => Inv'
  BY StepKeeps
<1>3. Inv /\ [Next]_vars =>
        [reader # NoFile /\ reader' = reader => disk'[reader] = disk[reader]]_vars
  BY StepKeeps DEF FilesStep
<1>4. Inv /\ [Next]_vars =>
        [\A p \in Paths : files'[p] # files[p] =>
           p = command.out /\ reader # NoFile /\ Loads(reader)]_vars
  BY StepKeeps DEF FilesStep
<1> QED BY <1>1, <1>2, <1>3, <1>4, PTL DEF Spec, FilesKept, SourceStable, LostOnlyToACopy
(* The first file is a catalog. *)
LEMMA InitContents == Init => Contents
<1> SUFFICES ASSUME Init PROVE Contents
  OBVIOUS
<1>1. PICK c \in Catalogs : disk = << c >>
  BY DEF Init
<1>2. /\ disk[1] = c /\ made[1] = NotMade /\ Len(disk) = 1
  BY <1>1 DEF Init
<1>3. "variables" \in DOMAIN c /\ WellFormed(c.variables)
  BY CatalogsAssumption
<1>4. History(NotMade, c.variables)
  BY DEF History, NotMade
<1>5. FilesAreRight
  BY <1>2, <1>3, <1>4 DEF FilesAreRight
<1>6. OutputIsRight /\ VerdictIsRight
  BY DEF Init, OutputIsRight, VerdictIsRight, HasSource, Writing
<1> QED BY <1>5, <1>6 DEF Contents

(* Of a file that a whole command has made: its variables are those of the *)
(* source and those of the writer.                                         *)
LEMMA WholeFile ==
  ASSUME Inv, Contents, NEW i \in DOMAIN made, made[i].done
  PROVE  LET old == made[i].from.variables new == disk[i].variables
         IN /\ made[i].verb # "none" /\ WellFormed(old)
            /\ DOMAIN new = ManagedNames \cup DOMAIN old
            /\ \A n \in DOMAIN new \ {"FACETKEYS", "RENDITIONS"} : new[n] = old[n]
            /\ new["FACETKEYS"] = RewrittenFacets(Facets(old))
            /\ \E c \in Commands :
                 c.verb = made[i].verb /\ new["RENDITIONS"] = CarriedRenditions(c, old, Renditions(old))
<1> DEFINE old == made[i].from.variables
           new == disk[i].variables
<1>1. i \in 1 .. Len(disk)
  BY SeqOfItsElements DEF Inv, TypeOK, IsSeq
<1>2. History(made[i], new)
  BY <1>1 DEF Contents, FilesAreRight
<1>3. made[i].verb # "none"
  BY <1>2 DEF History, NotMade
<1>4. PICK c \in Commands : /\ c.verb = made[i].verb /\ NothingElse(c, old, new)
                            /\ AllManaged(c, old, new)
  BY <1>2, <1>3 DEF History
<1>5. /\ WellFormed(old) /\ {"CARHEADER", "KEYFORMAT"} \subseteq DOMAIN old
      /\ \A n \in DOMAIN new \ ManagedNames : n \in DOMAIN old
      /\ UnmanagedNames(old) \subseteq DOMAIN new
  BY <1>2, <1>3 DEF History
<1> HIDE DEF old, new
<1>6. DOMAIN new = ManagedNames \cup DOMAIN old
  BY <1>4, <1>5 DEF AllManaged, UnmanagedNames
<1>7. new["FACETKEYS"] = Facets(new) /\ new["RENDITIONS"] = Renditions(new)
  BY <1>6 DEF Facets, Renditions, TreeOf, ManagedNames
<1>8. \A n \in DOMAIN new \ {"FACETKEYS", "RENDITIONS"} : new[n] = old[n]
  BY <1>4 DEF NothingElse
<1>9. Facets(new) = RewrittenFacets(Facets(old))
  BY <1>4 DEF NothingElse, AllManaged
<1>10. Renditions(new) = CarriedRenditions(c, old, Renditions(old))
  BY <1>4 DEF NothingElse, AllManaged
<1> QED BY <1>3, <1>4, <1>5, <1>6, <1>7, <1>8, <1>9, <1>10 DEF old, new

(* Facets are the same after they have been written exactly if each is as  *)
(* Facet::write leaves it.                                                 *)
LEMMA FacetsWritten ==
  ASSUME NEW c, WellFormed(c.variables)
  PROVE  RewrittenFacets(Facets(c.variables)) = Facets(c.variables) <=> Canonical(c)
<1> DEFINE facets == Facets(c.variables)
<1>1. \A f \in facets :
        /\ Rewritten(f).value.hot_spot = 0 /\ Increasing(Rewritten(f).value.pairs)
        /\ f.value.hot_spot = 0 /\ Increasing(f.value.pairs) => Rewritten(f) = f
  BY FacetWritten DEF WellFormed
<1>2. Canonical(c) <=> \A f \in facets : f.value.hot_spot = 0 /\ Increasing(f.value.pairs)
  BY DEF Canonical, Increasing
<1> HIDE DEF facets
<1>3. RewrittenFacets(facets) = {Rewritten(f) : f \in facets}
  BY DEF RewrittenFacets
<1>4. ASSUME \A f \in facets : f.value.hot_spot = 0 /\ Increasing(f.value.pairs)
      PROVE  RewrittenFacets(facets) = facets
  <2>1. \A f \in facets : Rewritten(f) = f
    BY <1>1, <1>4
  <2> QED BY <1>3, <2>1
<1>5. ASSUME RewrittenFacets(facets) = facets, NEW f \in facets
      PROVE  f.value.hot_spot = 0 /\ Increasing(f.value.pairs)
  <2>1. PICK g \in facets : f = Rewritten(g)
    BY <1>3, <1>5
  <2> QED BY <1>1, <2>1
<1> QED BY <1>2, <1>4, <1>5 DEF facets

(* The state of the tool and the contents of the files decide it. *)
LEMMA RoundtripStep == Inv /\ Contents => RoundtripVerifies
<1> SUFFICES ASSUME Inv, Contents, NEW i \in DOMAIN made,
                    made[i].verb = "roundtrip", made[i].done
             PROVE  LET c == made[i].from
                    IN Consistent(c, disk[i]) <=>
                         /\ c.variables["CARHEADER"].versions = << 972, 17, 2 >>
                         /\ ManagedNames \subseteq DOMAIN c.variables /\ Canonical(c)
  BY DEF RoundtripVerifies
<1> DEFINE c == made[i].from
           old == c.variables
           new == disk[i].variables
<1>1. /\ WellFormed(old) /\ DOMAIN new = ManagedNames \cup DOMAIN old
      /\ \A n \in DOMAIN new \ {"FACETKEYS", "RENDITIONS"} : new[n] = old[n]
      /\ new["FACETKEYS"] = RewrittenFacets(Facets(old))
      /\ \E d \in Commands :
           d.verb = "roundtrip" /\ new["RENDITIONS"] = CarriedRenditions(d, old, Renditions(old))
  BY WholeFile
<1>2. new["RENDITIONS"] = Renditions(old)
  BY <1>1 DEF CarriedRenditions, CarriedBy
<1>3. Facets(new) = RewrittenFacets(Facets(old)) /\ Renditions(new) = Renditions(old)
  BY <1>1, <1>2 DEF Facets, Renditions, TreeOf, ManagedNames
<1>4. Facets(new) = Facets(old) <=> Canonical(c)
  BY <1>1, <1>3, FacetsWritten
<1>5. Consistent(c, disk[i]) <=>
        /\ old["CARHEADER"].versions = << 972, 17, 2 >>
        /\ DOMAIN old = DOMAIN new
        /\ old["CARHEADER"] = new["CARHEADER"] /\ old["KEYFORMAT"] = new["KEYFORMAT"]
        /\ Renditions(old) = Renditions(new) /\ Facets(old) = Facets(new)
  BY DEF Consistent, SameVariableNames, Facets, Renditions
<1> HIDE DEF old, new
<1>6. old["CARHEADER"] = new["CARHEADER"] /\ old["KEYFORMAT"] = new["KEYFORMAT"]
  BY <1>1 DEF ManagedNames
<1>7. DOMAIN old = DOMAIN new <=> ManagedNames \subseteq DOMAIN old
  BY <1>1
<1> QED BY <1>3, <1>4, <1>5, <1>6, <1>7 DEF old, new

(* So they do for what verify says, *)
LEMMA VerifiedStep == Inv /\ Contents => VerifiedIsCopy
<1> DEFINE s == files[command.source]
           o == files[command.out]
<1> SUFFICES ASSUME Inv, Contents, command.verb = "verify", status = "success",
                    made[o].from = disk[s]
             PROVE  disk[o].variables = disk[s].variables
  BY DEF VerifiedIsCopy
<1>1. s # NoFile /\ o # NoFile /\ Loads(s) /\ Loads(o) /\ Consistent(disk[s], disk[o])
  BY DEF Contents, VerdictIsRight
<1>2. o \in 1 .. Len(disk) /\ s \in 1 .. Len(disk)
  <2>1. command.source \in Paths /\ command.out \in Paths
    BY DEF Inv, TypeOK, Commands, NoCommand
  <2>2. files \in [Paths -> 0 .. Len(disk)] /\ Len(disk) \in Nat
    BY BoundAssumption DEF Inv, TypeOK
  <2> QED BY <1>1, <2>1, <2>2 DEF NoFile
<1> DEFINE old == disk[s].variables
           new == disk[o].variables
<1>3. History(made[o], new) /\ WellFormed(old) /\ WellFormed(new)
  BY <1>2 DEF Contents, FilesAreRight
<1>4. made[o].verb # "none"
  <2>1. NotMade.from.bom = FALSE
    BY DEF NotMade, Blank
  <2>2. disk[s].bom # FALSE
    BY <1>1 DEF Loads
  <2> QED BY <1>3, <2>1, <2>2 DEF History
<1>5. \A n \in DOMAIN new \ ManagedNames : new[n] = old[n]
  BY <1>3, <1>4 DEF History
<1>6. /\ DOMAIN old = DOMAIN new /\ old["CARHEADER"] = new["CARHEADER"]
      /\ old["KEYFORMAT"] = new["KEYFORMAT"]
      /\ TreeOf(old, "RENDITIONS") = TreeOf(new, "RENDITIONS")
      /\ TreeOf(old, "FACETKEYS") = TreeOf(new, "FACETKEYS")
  BY <1>1 DEF Consistent, SameVariableNames
<1>7. old = [n \in DOMAIN old |-> old[n]] /\ new = [n \in DOMAIN new |-> new[n]]
  BY <1>3 DEF WellFormed
<1> HIDE DEF old, new
<1>8. \A n \in DOMAIN new : new[n] = old[n]
  BY <1>5, <1>6 DEF ManagedNames, TreeOf
<1>9. new = old
  BY <1>6, <1>7, <1>8
<1> QED BY <1>9 DEF old, new

(* and for what a patch leaves alone. *)
LEMMA PatchStep == Inv /\ Contents => PatchKeepsTheRest
<1> SUFFICES ASSUME Inv, Contents, NEW i \in DOMAIN made, made[i].verb = "patch", made[i].done
             PROVE  LET old == made[i].from.variables new == disk[i].variables
                    IN /\ {e.key : e \in new["RENDITIONS"]} = {e.key : e \in Renditions(old)}
                       /\ \A e \in new["RENDITIONS"] \ Renditions(old) :
                            Identity(e, old["KEYFORMAT"]) \in Own(old, Brand[e.value.content])
  BY DEF PatchKeepsTheRest, Brand
<1> DEFINE old == made[i].from.variables
           new == disk[i].variables
<1>1. PICK c \in Commands : new["RENDITIONS"] = CarriedRenditions(c, old, Renditions(old))
  BY WholeFile
<1>2. WellFormed(old)
  BY WholeFile
<1> HIDE DEF old, new
<1>3. \A e \in Renditions(old) :
        LET x == CarriedBy(c, old, e)
        IN /\ x.key = e.key
           /\ x # e => x.value.content \in DOMAIN Brand /\ Belongs(e, old, Brand[x.value.content])
  BY <1>2, EntryCarried
<1>4. new["RENDITIONS"] = {CarriedBy(c, old, e) : e \in Renditions(old)}
  BY <1>1 DEF CarriedRenditions
<1>5. {e.key : e \in new["RENDITIONS"]} = {e.key : e \in Renditions(old)}
  BY <1>3, <1>4
<1>6. ASSUME NEW x \in new["RENDITIONS"], x \notin Renditions(old)
      PROVE  Identity(x, old["KEYFORMAT"]) \in Own(old, Brand[x.value.content])
  <2>1. PICK e \in Renditions(old) : x = CarriedBy(c, old, e)
    BY <1>4
  <2>2. x.key = e.key /\ Belongs(e, old, Brand[x.value.content])
    BY <1>3, <1>6, <2>1
  <2>3. "KEYFORMAT" \in DOMAIN old
    BY <1>2 DEF WellFormed, Renditions, TreeOf
  <2>4. Identity(e, old["KEYFORMAT"]) \in Own(old, Brand[x.value.content])
    BY <1>2, <2>2, <2>3, BelongsToOwn
  <2> QED BY <2>2, <2>4 DEF Identity
<1> QED BY <1>5, <1>6 DEF old, new

(* Both invariants hold at every moment. *)
LEMMA ContentsHold == Spec => [](Inv /\ Contents)
<1>1. Init => Inv /\ Contents
  BY InitHolds, InitContents
<1>2. Inv /\ Contents /\ [Next]_vars => (Inv /\ Contents)'
  BY StepKeeps, StepKeepsContents
<1> QED BY <1>1, <1>2, PTL DEF Spec

(* verify accepts what a whole roundtrip has made exactly if the source has *)
(* the versions it asks for, all that a catalog has, and facets that        *)
(* Facet::write reproduces: for every catalog, and for every source that    *)
(* was left behind by a command that was stopped.                           *)
THEOREM RoundtripIsVerified == Spec => []RoundtripVerifies
BY ContentsHold, RoundtripStep, PTL

(* What verify accepts of the output of a command for its source has all    *)
(* the variables of that source, also those that it does not compare,       *)
(* wherever the command was stopped.                                        *)
THEOREM VerifiedFilesAreCopies == Spec => []VerifiedIsCopy
BY ContentsHold, VerifiedStep, PTL

(* A patch keeps every rendition key, and changes no rendition but those    *)
(* of the facet that it draws for: for all facets, key formats and          *)
(* renditions.                                                              *)
THEOREM PatchIsConfined == Spec => []PatchKeepsTheRest
BY ContentsHold, PatchStep, PTL
=============================================================================
