------------------------------ MODULE MCBomBytes ------------------------------
(* A small instance of BomBytes: blocks of no and of five bytes, one short  *)
(* name, and a realloc that leaves one kind of junk.                        *)
EXTENDS BomBytes

SomeContents      == { << >>, << 65, 66, 67, 68, 69 >> }
SomeNames         == { << 110 >> }
SomeReserveCounts == {1, 3}
SomeFreeCounts    == {1, 2}
SomeLengths       == {7}
SomeJunk          == {99}
=============================================================================
