------------------------------ MODULE MCBomStore ------------------------------
(* BomStore on a small file: blocks of no and of five bytes, one name, one  *)
(* slot reserved at a time, one or two vacant entries.  136 bytes leave     *)
(* room for a block to be relocated twice, with an operation in between.    *)
EXTENDS BomStore

SomeDataLengths   == {0, 5}
SomeNameLengths   == {3}
SomeReserveCounts == {1}
SomeFreeCounts    == {1, 2}
=============================================================================
