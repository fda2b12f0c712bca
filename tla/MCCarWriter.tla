----------------------------- MODULE MCCarWriter -----------------------------
(* Two facets whose names are prefixes of one another, attribute lists with *)
(* and without the identifier, values of one and of two bytes, and a key    *)
(* format that lacks one attribute and has another that no list has.        *)
EXTENDS CarWriter, TLC

SomeNames == { << 97 >>, << 97, 98 >> }
SomeAttributeLists == { (17 :> 1), (12 :> 2 @@ 17 :> 256), (12 :> 2) }
SomeKeyFormats == { << 8, 17 >> }
SomeHeaders == { [storage_version |-> 9, rendition_count |-> 7] }
SomeRawValues == {1, 256}
LengthOfName(name) == Len(name)
=============================================================================
