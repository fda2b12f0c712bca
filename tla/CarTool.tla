------------------------------- MODULE CarTool -------------------------------
(***************************************************************************)
(* The command line tool: roundtrip, patch and verify, run one after the   *)
(* other on a file system whose files outlive the process.  A command maps *)
(* its source, removes and creates its output, and writes into the mapping *)
(* of it call by call; it may fail, or be killed, after any call, and      *)
(* what it has written by then stays.                                      *)
(*                                                                         *)
(* A file is what its variables refer to: the geometry is in CarWriter,    *)
(* the cloning of trees in VariablePassthrough.  The trees of facets and   *)
(* renditions are sets of entries, as no two entries of a source have one  *)
(* key (car_format.h:70).                                                  *)
(***************************************************************************)
EXTENDS CarFormat

CONSTANTS
  Paths,       \* the paths that commands are given
  Catalogs,    \* the catalogs that are there in the beginning
  MaxFiles     \* bound on the files that ever exist

NoFile == 0

(* A file of size zero, and a container without variables. *)
Blank == [bom |-> FALSE, variables |-> << >>, relocated |-> FALSE]
EmptyBom == [Blank EXCEPT !.bom = TRUE]

ManagedNames == {"CARHEADER", "KEYFORMAT", "FACETKEYS", "RENDITIONS"}

TreeOf(variables, name) == IF name \in DOMAIN variables THEN variables[name] ELSE {}

Facets(variables) == TreeOf(variables, "FACETKEYS")
Renditions(variables) == TreeOf(variables, "RENDITIONS")

(* The entries of a facet tree and of a rendition tree: a facet has pairs  *)
(* of identifier and value, a rendition a value for each attribute of the  *)
(* key format, which has the identifier and none twice.                    *)
FacetEntry(name) ==
  [key : {name}, value : [hot_spot : Nat, pairs : Seq([identifier : Nat, value : Nat])]]

RenditionEntry(format, kind, content) ==
  [key : [DOMAIN format -> Nat], value : [kind : {kind}, content : {content}]]

FormatOfKeys(format) ==
  /\ format \in Seq(Nat) /\ IdentifierAttribute \in ToSet(format)
  /\ \A i, j \in DOMAIN format : format[i] = format[j] => i = j

(* What a file with these variables has of a catalog is what a catalog has *)
(* of it.                                                                  *)
WellFormed(variables) ==
  /\ variables = [name \in DOMAIN variables |-> variables[name]]
  /\ "KEYFORMAT" \in DOMAIN variables => FormatOfKeys(variables["KEYFORMAT"])
  /\ "RENDITIONS" \in DOMAIN variables => "KEYFORMAT" \in DOMAIN variables
  /\ \A f \in Facets(variables) : f \in FacetEntry(f.key)
  /\ \A e \in Renditions(variables) :
       e \in RenditionEntry(variables["KEYFORMAT"], e.value.kind, e.value.content)

ASSUME CatalogsAssumption ==
  \A c \in Catalogs :
    /\ c = [bom |-> TRUE, variables |-> c.variables, relocated |-> c.relocated]
    /\ ManagedNames \subseteq DOMAIN c.variables /\ WellFormed(c.variables)
    /\ \A tree \in {Facets(c.variables), Renditions(c.variables)} :
         \A e, f \in tree : e.key = f.key => e = f

ASSUME BoundAssumption == MaxFiles \in Nat \ {0}

VARIABLES
  files,      \* the file that each path names, or NoFile
  disk,       \* the contents of all files, the removed ones included
  command,    \* the command that runs or ran last
  pc,         \* where it is: "idle" when none runs
  reader,     \* the file that the reader of the source has mapped
  out,        \* the file that the second reader or the writer has mapped
  todo,       \* what the loop that the command is in has left to do
  status,     \* how the last command ended
  made        \* history: for each file how it was made

vars == << files, disk, command, pc, reader, out, todo, status, made >>

NotMade == [verb |-> "none", from |-> Blank, done |-> FALSE]

NoCommand == [verb |-> "none", source |-> "none", out |-> "none",
              colour |-> FALSE, icon |-> FALSE, logo |-> FALSE]

(* One path names a catalog. *)
Init ==
  /\ \E c \in Catalogs, p \in Paths :
       disk = << c >> /\ files = [q \in Paths |-> IF q = p THEN 1 ELSE NoFile]
  /\ command = NoCommand /\ pc = "idle" /\ reader = NoFile /\ out = NoFile /\ todo = {}
  /\ status = "none" /\ made = << NotMade >>

-----------------------------------------------------------------------------
(* A command begins and ends. *)

(* Of patch: whether the colour is well formed and the masters decode; with *)
(* a bad colour the masters are not looked at.                             *)
Commands ==
  {c \in [verb : {"roundtrip", "patch", "verify"}, source : Paths, out : Paths,
          colour : BOOLEAN, icon : BOOLEAN, logo : BOOLEAN] :
     c.verb # "patch" \/ ~c.colour => ~c.colour /\ ~c.icon /\ ~c.logo}

Start(c) ==
  /\ pc = "idle"
  /\ c.verb # "verify" => Len(disk) < MaxFiles
  /\ command' = c /\ status' = "running"
  /\ pc' = "open"
  /\ UNCHANGED << files, disk, reader, out, todo, made >>

(* The process ends, and with it its mappings. *)
Ends(how) ==
  /\ pc' = "idle" /\ status' = how
  /\ reader' = NoFile /\ out' = NoFile /\ todo' = {}
  /\ UNCHANGED << files, disk, command >>

Kill == pc # "idle" /\ Ends("killed") /\ UNCHANGED made

(* patch looks at its colour before it opens anything. *)
BadColour ==
  /\ pc = "open" /\ command.verb = "patch" /\ ~command.colour
  /\ Ends("failure") /\ UNCHANGED made

-----------------------------------------------------------------------------
(* openReader. *)

Loads(i) ==
  /\ i # NoFile /\ disk[i].bom
  /\ "CARHEADER" \in DOMAIN disk[i].variables
  /\ disk[i].variables["CARHEADER"].storage_version >= 8
  /\ "KEYFORMAT" \in DOMAIN disk[i].variables

(* Without a header Load tests a length that nothing has set, and reads    *)
(* the header at NULL if it happens to be large.                           *)
LacksHeader(i) == i # NoFile /\ disk[i].bom /\ "CARHEADER" \notin DOMAIN disk[i].variables

AtSource == pc = "open" /\ (command.verb = "patch" => command.colour)

Opening(path) ==
  \/ AtSource /\ path = command.source
  \/ pc = "open out" /\ path = command.out

OpenSource ==
  /\ AtSource /\ Loads(files[command.source])
  /\ reader' = files[command.source]
  /\ pc' = IF command.verb = "verify" THEN "open out" ELSE "remove"
  /\ UNCHANGED << files, disk, command, out, todo, status, made >>

OpenOut ==
  /\ pc = "open out" /\ Loads(files[command.out])
  /\ out' = files[command.out]
  /\ pc' = "compare"
  /\ UNCHANGED << files, disk, command, reader, todo, status, made >>

Refuse ==
  \E path \in Paths :
    /\ Opening(path) /\ ~Loads(files[path])
    /\ Ends("failure") /\ UNCHANGED made

CrashOnOpen ==
  \E path \in Paths :
    /\ Opening(path) /\ LacksHeader(files[path])
    /\ Ends("crash") /\ UNCHANGED made

-----------------------------------------------------------------------------
(* verify. *)

(* mutant: the variables that the writer does not manage are not compared *)
ManagedAreThere(a, b) == ManagedNames \subseteq DOMAIN a.variables \cap DOMAIN b.variables

SameVariableNames(a, b) == DOMAIN a.variables = DOMAIN b.variables

(* All legs in the code's order; the contents of variables other than the  *)
(* managed ones are not looked at.                                         *)
Consistent(a, b) ==
  /\ a.variables["CARHEADER"].versions = << 972, 17, 2 >>
  /\ SameVariableNames(a, b)
  /\ \A name \in {"CARHEADER", "KEYFORMAT"} : a.variables[name] = b.variables[name]
  /\ \A name \in {"RENDITIONS", "FACETKEYS"} : TreeOf(a.variables, name) = TreeOf(b.variables, name)

Compare ==
  /\ pc = "compare"
  /\ Ends(IF Consistent(disk[reader], disk[out]) THEN "success" ELSE "failure")
  /\ UNCHANGED made

-----------------------------------------------------------------------------
(* roundtrip and patch. *)

(* mutant: an old output is not removed *)
StillThere(path) == files

Removed(path) == [files EXCEPT ![path] = NoFile]

RemoveOut ==
  /\ pc = "remove"
  /\ files' = Removed(command.out)
  /\ pc' = "create"
  /\ UNCHANGED << disk, command, reader, out, todo, status, made >>

(* The file or the context of it cannot be had; what has been removed or    *)
(* created by then stays so.                                               *)
CannotCreate ==
  /\ pc \in {"create", "empty"}
  /\ Ends("failure") /\ UNCHANGED made

(* A file that the path names is opened, and created only if there is none. *)
CreateOut ==
  /\ pc = "create"
  /\ IF files[command.out] # NoFile
     THEN out' = files[command.out] /\ UNCHANGED << files, disk, made >>
     ELSE /\ out' = Len(disk) + 1
          /\ files' = [files EXCEPT ![command.out] = Len(disk) + 1]
          /\ disk' = Append(disk, Blank)
          /\ made' = Append(made, [verb |-> command.verb, from |-> disk[reader], done |-> FALSE])
  /\ pc' = "empty"
  /\ UNCHANGED << command, reader, todo, status >>

AllocEmpty ==
  /\ pc = "empty"
  /\ disk' = [disk EXCEPT ![out] = EmptyBom]
  /\ pc' = "header"
  /\ UNCHANGED << files, command, reader, out, todo, status, made >>

Source == disk[reader].variables

(* A variable of the output gets that content. *)
With(variables, name, content) ==
  [n \in DOMAIN variables \cup {name} |-> IF n = name THEN content ELSE variables[n]]

Put(name, content) == disk' = [disk EXCEPT ![out].variables = With(@, name, content)]

(* mutant: the names of the writer are not left out *)
AllNames(variables) == DOMAIN variables

(* The names that are passed through. *)
UnmanagedNames(variables) == DOMAIN variables \ ManagedNames

(* write() has no memory for the header, and its caller does not learn of it. *)
GiveUp ==
  /\ pc = "header"
  /\ todo' = UnmanagedNames(Source) /\ pc' = "pass"
  /\ UNCHANGED << files, disk, command, reader, out, status, made >>

WriteHeader ==
  /\ pc = "header"
  /\ Put("CARHEADER", Source["CARHEADER"])
  /\ pc' = "keyfmt"
  /\ UNCHANGED << files, command, reader, out, todo, status, made >>

WriteKeyFormat ==
  /\ pc = "keyfmt"
  /\ Put("KEYFORMAT", Source["KEYFORMAT"])
  /\ pc' = "facet tree"
  /\ UNCHANGED << files, command, reader, out, todo, status, made >>

BeginFacets ==
  /\ pc = "facet tree"
  /\ Put("FACETKEYS", {}) /\ todo' = Facets(Source)
  /\ pc' = "facets"
  /\ UNCHANGED << files, command, reader, out, status, made >>

(* facetIterate, addFacet and Facet::write: pairs in ascending order, and  *)
(* no hot spot.                                                            *)
Rewritten(facet) ==
  [key   |-> facet.key,
   value |-> [hot_spot |-> 0, pairs |-> PairsOf(FromPairs(facet.value.pairs))]]

Insert(name, entry) == disk' = [disk EXCEPT ![out].variables[name] = @ \cup {entry}]

WriteFacet(facet) ==
  /\ pc = "facets" /\ facet \in todo
  /\ Insert("FACETKEYS", Rewritten(facet))
  /\ todo' = todo \ {facet}
  /\ UNCHANGED << files, command, pc, reader, out, status, made >>

BeginRenditions ==
  /\ pc = "facets" /\ todo = {}
  /\ Put("RENDITIONS", {}) /\ todo' = Renditions(Source)
  /\ pc' = "renditions"
  /\ UNCHANGED << files, command, reader, out, status, made >>

(* mutant: the identifier is taken to come first *)
FirstIndex(format) == 1

IdentifierIndexFor(format) ==
  LET places == {i \in DOMAIN format : format[i] = IdentifierAttribute}
  IN IF places = {} THEN 1 ELSE Min(places)

(* The rendition belongs to the facet of that name. *)
Belongs(entry, variables, name) ==
  \E facet \in Facets(variables) :
    LET attributes == FromPairs(facet.value.pairs)
    IN /\ facet.key = name /\ IdentifierAttribute \in DOMAIN attributes
       /\ entry.key[IdentifierIndexFor(variables["KEYFORMAT"])] = attributes[IdentifierAttribute]

(* What goes into the output for a rendition of the source: the colour is  *)
(* put into a value of the known length, a master is drawn in the place of *)
(* an image, and everything else is copied.                                *)
Branded(entry, variables, c) ==
  LET icon == Belongs(entry, variables, "AppIcon")
      logo == Belongs(entry, variables, "SplashScreenLogo")
      format == variables["KEYFORMAT"]
  IN IF Belongs(entry, variables, "SplashScreenBackground")
     THEN IF entry.value.kind = "colour" THEN [entry EXCEPT !.value.content = "colour"] ELSE entry
     ELSE IF entry.value.kind = "image" /\ (IF icon THEN c.icon ELSE logo /\ c.logo)
     THEN [key   |-> ValuesOf(FromValues(format, entry.key), format),
           value |-> [entry.value EXCEPT !.content = IF icon THEN "icon" ELSE "logo"]]
     ELSE entry

Carried(entry) == IF command.verb = "patch" THEN Branded(entry, Source, command) ELSE entry

(* Those that were authored come out of an unordered map, the raw ones     *)
(* after them; any order is allowed here.                                  *)
WriteRendition(entry) ==
  /\ pc = "renditions" /\ entry \in todo
  /\ Insert("RENDITIONS", Carried(entry))
  /\ todo' = todo \ {entry}
  /\ UNCHANGED << files, command, pc, reader, out, status, made >>

WriteEnds ==
  /\ pc = "renditions" /\ todo = {}
  /\ todo' = UnmanagedNames(Source) /\ pc' = "pass"
  /\ UNCHANGED << files, disk, command, reader, out, status, made >>

PassThrough(name) ==
  /\ pc = "pass" /\ name \in todo
  /\ Put(name, Source[name])
  /\ todo' = todo \ {name}
  /\ UNCHANGED << files, command, pc, reader, out, status, made >>

Relocate ==
  /\ pc = "pass" /\ todo = {}
  /\ disk' = [disk EXCEPT ![out].relocated = TRUE]
  /\ pc' = "exit"
  /\ UNCHANGED << files, command, reader, out, todo, status, made >>

Exit ==
  /\ pc = "exit"
  /\ Ends("success")
  /\ made' = [made EXCEPT ![out].done = "CARHEADER" \in DOMAIN disk[out].variables]

Open == BadColour \/ OpenSource \/ OpenOut \/ Refuse \/ CrashOnOpen

Write ==
  \/ RemoveOut \/ CannotCreate \/ CreateOut \/ AllocEmpty
  \/ GiveUp \/ WriteHeader \/ WriteKeyFormat
  \/ BeginFacets \/ BeginRenditions \/ WriteEnds
  \/ pc = "facets" /\ \E facet \in todo : WriteFacet(facet)
  \/ pc = "renditions" /\ \E entry \in todo : WriteRendition(entry)
  \/ pc = "pass" /\ \E name \in todo : PassThrough(name)
  \/ Relocate \/ Exit

Next == (\E c \in Commands : Start(c)) \/ Open \/ Compare \/ Write \/ Kill

Spec == Init /\ [][Next]_vars

-----------------------------------------------------------------------------
(* Properties. *)

(* Everything is of its type, and the loop over variables never comes to   *)
(* one of the writer's, which would be in the file twice then              *)
(* (VariablePassthrough.cpp:241-243).                                      *)
TypeOK ==
  /\ Len(disk) \in 1 .. MaxFiles /\ Len(made) = Len(disk)
  /\ files \in [Paths -> 0 .. Len(disk)]
  /\ reader \in 0 .. Len(disk) /\ out \in 0 .. Len(disk)
  /\ command \in Commands \cup {NoCommand}
  /\ status \in {"none", "running", "success", "failure", "killed", "crash"}
  /\ pc = "idle" <=> status # "running"
  /\ pc = "pass" => todo \subseteq DOMAIN Source \ ManagedNames
  /\ reader # NoFile => Loads(reader)

(* While a command reads its source nothing writes into that file, not     *)
(* even when source and output are the same path: the renditions are read  *)
(* through pointers into the mapping until write() has run                 *)
(* (car_roundtrip.cpp:175-180, 747-752).                                   *)
SourceStable ==
  [][reader # NoFile /\ reader' = reader => disk'[reader] = disk[reader]]_vars

(* A path loses its file only to a command that names it as its output and *)
(* has a source that loads (car_roundtrip.cpp:169-178, 677-693).           *)
LostOnlyToACopy ==
  [][\A p \in Paths : files'[p] # files[p] =>
       p = command.out /\ reader # NoFile /\ Loads(reader)]_vars

(* Facets that Facet::write reproduces. *)
Canonical(c) ==
  \A facet \in Facets(c.variables) :
    /\ facet.value.hot_spot = 0
    /\ \A i, j \in DOMAIN facet.value.pairs :
         i < j => facet.value.pairs[i].identifier < facet.value.pairs[j].identifier

(* verify accepts what a whole roundtrip has made exactly if the source is *)
(* of the versions it asks for, has all that a catalog has, which the left *)
(* over output of a killed command has not, and has facets such that       *)
(* writing them reproduces them (car_roundtrip.cpp:9-14, 26-31).           *)
RoundtripVerifies ==
  \A i \in DOMAIN made :
    made[i].verb = "roundtrip" /\ made[i].done =>
      LET c == made[i].from
      IN Consistent(c, disk[i]) <=>
           /\ c.variables["CARHEADER"].versions = << 972, 17, 2 >>
           /\ ManagedNames \subseteq DOMAIN c.variables /\ Canonical(c)

(* When verify accepts the output of a command for its source, wherever    *)
(* that command was stopped, the output has every variable of the source   *)
(* with the same contents, also of those that verify does not compare      *)
(* (car_roundtrip.cpp:279-288).                                            *)
VerifiedIsCopy ==
  command.verb = "verify" /\ status = "success" =>
    LET s == files[command.source] o == files[command.out]
    IN made[o].from = disk[s] => disk[o].variables = disk[s].variables

(* A patch keeps the set of rendition keys and every rendition that does   *)
(* not belong to one of the three facets, and draws each master only for   *)
(* the facet it is meant for (car_roundtrip.cpp:657-669, 783-787).         *)
Own(variables, name) ==
  UNION {{p.value : p \in {q \in ToSet(f.value.pairs) : q.identifier = IdentifierAttribute}} :
           f \in {g \in Facets(variables) : g.key = name}}

Identity(entry, format) == FromValues(format, entry.key)[IdentifierAttribute]

PatchKeepsTheRest ==
  \A i \in DOMAIN made :
    made[i].verb = "patch" /\ made[i].done =>
      LET old == made[i].from.variables new == disk[i].variables
      IN /\ {e.key : e \in new["RENDITIONS"]} = {e.key : e \in Renditions(old)}
         /\ \A e \in new["RENDITIONS"] \ Renditions(old) :
              LET brand == [icon   |-> "AppIcon", logo |-> "SplashScreenLogo",
                            colour |-> "SplashScreenBackground"][e.value.content]
              IN Identity(e, old["KEYFORMAT"]) \in Own(old, brand)

(* "Malformed/truncated input fails cleanly ... rather than crashing or    *)
(* reading out of bounds" (car_roundtrip.cpp:84-89).                       *)
FailsCleanly == status # "crash"

(* Neither a source under a reader's eyes nor a path that a command does   *)
(* not write to is taken away.                                             *)
FilesKept == SourceStable /\ LostOnlyToACopy
=============================================================================
