----------------------------- MODULE MCRendition -----------------------------
(* Renditions of up to 16 bytes in blocks of six, and values of catalogs   *)
(* that hold what write() never makes.                                     *)
EXTENDS Rendition

(* Those below 120. *)
MCShortScales == {29, 57, 58, 113, 114, 115, 116}

Drawn(w, h, format, codec, data, slices, layout, name) ==
  [width |-> w, height |-> h, scale |-> 200, name |-> name, layout |-> layout,
   slices |-> slices, vector |-> FALSE, opaque |-> TRUE, flags |-> 2, codec |-> codec,
   uti |-> NoType, format |-> format, data |-> data, resizable |-> FALSE, mode |-> "fixed size",
   loaded |-> FALSE]

Bytes(n) == [i \in 1 .. n |-> i]
Whole == << >>
Three == << <<0, 0, 1, 1>>, <<1, 0, 1, 1>>, <<0, 1, 2, 1>> >>

(* Data that fits, that is longer, shorter, or empty; each codec. *)
MCRenditions ==
  {Drawn(w, h, format, codec, Bytes(n), Whole, 12, <<1, 2>>) :
     w \in {0, 1, 2}, h \in {1, 2}, format \in {"BGRA8", "GA8"},
     codec \in {"zlib", "lzfse", "lzvn"}, n \in {0, 6, 8, 16}}
  \cup {Drawn(2, 2, format, "zlib", Bytes(n), Whole, 1000, << >>) :
          format \in {"JPEG", "Data", "WEBP"}, n \in {0, 5}}
  \cup {Drawn(2, 2, "BGRA8", "zlib", Bytes(16), slices, layout, <<1, 2, 3, 4>>) :
          slices \in {Whole, Three}, layout \in {10, 11, 20, 22, 24, 32, 33, 34}}
  \cup {[Drawn(1, 1, "BGRA8", "zlib", Bytes(4), Whole, 12, << >>) EXCEPT !.scale = n] :
          n \in {100, 114, 117, 150}}

Theirs(info, pixel, data) ==
  [magic |-> "ISTC", vector |-> FALSE, opaque |-> FALSE, width |-> 1, height |-> 2,
   scale |-> 100, pixel |-> pixel, layout |-> 30, name |-> <<5>>, infoLen |-> SizeOf(info),
   payload |-> SizeOf(data), size |-> SizeOf(info \o data), items |-> Placed(info \o data)]

Uti == [kind |-> "uti", length |-> 14, uti |-> "public.png"]
Reference == [kind |-> "reference", length |-> 40]
Mlec(codec, n) == [kind |-> "MLEC", codec |-> codec, length |-> n, flags |-> <<1, 1>>]
Stream(n) == [kind |-> "stream", length |-> 7, bytes |-> Bytes(n)]   \* n = 0: an empty one
Frame(n) == [kind |-> "frame", length |-> 9, bytes |-> Bytes(n)]
BlockHeader(n) == [kind |-> "KCBC", pages |-> 1, length |-> n]

MCValues ==
  {Theirs(info, "BGRA8", data) :
     info \in {<< >>, <<Uti>>,
               <<Uti, [kind |-> "slices", length |-> 52, slices |-> Three], Reference>>},
     data \in {<< >>, <<Mlec("zlib", 7), Stream(8)>>, <<Mlec("zlib", 7), BlockHeader(7), Stream(8)>>,
               <<Mlec("zlib", 7), BlockHeader(7), Stream(4), BlockHeader(7), Stream(4)>>,
               <<Mlec("lzvn", 9), Frame(8)>>, <<Mlec("rle", 9), Frame(8)>>,
               <<Mlec("lzfse", 4), BlockHeader(9), Frame(5), BlockHeader(9), Frame(3)>>}}
  \cup {Theirs(<<Uti>>, pixel, data) :
          pixel \in {"PDF", "Data"},
          data \in {<< [kind |-> "DWAR", length |-> 3],
                       [kind |-> "bytes", length |-> 3, bytes |-> Bytes(3)] >>,
                    <<Mlec("zlib", 7), Stream(8)>>}}
  \cup {Theirs(<<Uti>>, "BGRA8", <<Mlec(codec, n)>> \o data) :
          codec \in {"zlib", "lzfse"}, n \in {0, 3, 7},
          data \in {<<Stream(0)>>, <<Stream(8)>>, <<Frame(8)>>, <<BlockHeader(3), Stream(8)>>,
                    <<BlockHeader(4), Frame(4), BlockHeader(9), Frame(4)>>}}
  \cup {[Theirs(<<Uti>>, "BGRA8", <<Mlec("zlib", 7), Stream(8)>>) EXCEPT !.scale = n] :
          n \in {29, 115}}
=============================================================================
