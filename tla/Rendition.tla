------------------------------ MODULE Rendition ------------------------------
(***************************************************************************)
(* A rendition and its value in a catalog (Rendition.cpp, car_format.h):   *)
(* write() lays a rendition out as a header, the segments of the info      *)
(* section and the encoded pixels; Load walks the segments, and data()     *)
(* decodes the pixels, block by block.  A value is patched by              *)
(* car-roundtrip, or loaded, decoded and written again.                    *)
(*                                                                         *)
(* What follows a value's header are items of some bytes each, by their    *)
(* addresses, the distances from the header's end.                         *)
(***************************************************************************)
EXTENDS Integers, Sequences, FiniteSetsExt, SequencesExt

CONSTANTS
  Renditions,     \* the renditions that callers make
  Values,         \* the values of catalogs that another program has written
  Sizes,          \* of a compressed stream
  PageSize,       \* 4096
  PagesInBlock,   \* 341
  NameSize,       \* 128: of the header's field
  FrameOverhead,  \* of a frame that stores its block as it is
  ShortScales,    \* the scales n / 100 that times 100 are, as doubles, less than n
  MaxWrites       \* how often a value is written anew

ASSUME RenditionAssumption ==
  /\ PageSize \in Nat \ {0} /\ PagesInBlock \in Nat \ {0} /\ NameSize \in Nat
  /\ Sizes \subseteq Nat \ {0} /\ Sizes # {}
  /\ FrameOverhead \in 0 .. PageSize    \* the room that Encode leaves for it
  /\ ShortScales \subseteq Nat \ {0} /\ \A n \in ShortScales : n % 100 # 0
  /\ MaxWrites \in Nat

VARIABLES
  pc,         \* "object", "value", "walking", "loaded", "decoding", or how decoding
              \* ended: "decoded", "undecodable" or "asserts"
  library,    \* whether the build has HAVE_LIBCOMPRESSION
  rendition,  \* the Rendition
  value,      \* the car_rendition_value
  at,         \* the address of info_header, or of compressed_data
  compressedLength,  \* of the block at hand
  offset,     \* the bytes decoded so far
  decoded,    \* the pixels in the buffer
  sources,    \* what was written, or read, last: by which the rest is judged
  writes,
  clock       \* ticks with each step, even if the step changes nothing

vars == <<pc, library, rendition, value, at, compressedLength, offset, decoded, sources, writes,
          clock>>

Nothing == [kind |-> "nothing"]
Junk == -1    \* a byte beyond the data it should be part of
NoType == ""  \* UTI() of a rendition that has none

-----------------------------------------------------------------------------
(* The items of a value. *)

BytesPerPixel(format) == CASE format = "BGRA8" -> 4 [] format = "GA8" -> 2 [] OTHER -> 1
SavedAsRawData(format) == format \in {"JPEG", "Data", "WEBP"}
Formats == {"BGRA8", "GA8", "JPEG", "Data", "WEBP"}

InfoKinds == {"slices", "metrics", "composition", "uti", "bitmap info", "bytes per row",
              "reference", "alpha cropped frame"}

HeaderSize(kind) == CASE kind \in InfoKinds -> 8
                      [] kind = "MLEC" -> 16
                      [] kind = "KCBC" -> 20
                      [] kind = "DWAR" -> 12
                      [] OTHER -> 0

(* Blocks of compressed bytes are items of their own: only the segments of *)
(* the info section go on after their header.                              *)
Size(item) ==
  HeaderSize(item.kind)
    + IF item.kind \in InfoKinds \cup {"stream", "frame", "bytes"} THEN item.length ELSE 0

SizeOf(items) == FoldLeft(LAMBDA sum, item : sum + Size(item), 0, items)

Placed(items) ==
  LET before == [k \in DOMAIN items |-> SizeOf(SubSeq(items, 1, k - 1))]
  IN [address \in Range(before) |-> items[CHOOSE k \in DOMAIN items : before[k] = address]]

ItemAt(address) == IF address \in DOMAIN value.items THEN value.items[address] ELSE Nothing

-----------------------------------------------------------------------------
(* Encode: the pixels. *)

Pixels(r) ==
  [i \in 1 .. r.width * r.height * BytesPerPixel(r.format) |->
     IF i <= Len(r.data) THEN r.data[i] ELSE Junk]

Codec(r, length) ==
  [kind |-> "MLEC", codec |-> r.codec, length |-> length,
   flags |-> <<r.flags % 2, (r.flags \div 2) % 2>>]

BlockSize == PagesInBlock * PageSize
BlockCount(n) == (n + BlockSize - 1) \div BlockSize
Block(pixels, k) ==
  SubSeq(pixels, (k - 1) * BlockSize + 1,
         IF k * BlockSize < Len(pixels) THEN k * BlockSize ELSE Len(pixels))

(* mutant: the pages of a block that has no full last page are one too few *)
KcbcPagesCut(block, size) ==
  << [kind |-> "KCBC", pages |-> Len(block) \div PageSize, length |-> size],
     [kind |-> "frame", length |-> size, bytes |-> block] >>

Kcbc(block, size) ==
  << [kind |-> "KCBC", pages |-> (Len(block) + PageSize - 1) \div PageSize, length |-> size],
     [kind |-> "frame", length |-> size, bytes |-> block] >>

(* lzfse_encode_buffer makes a frame that is no longer than the raw one.   *)
FrameSizes(n) == {n + FrameOverhead} \cup {s \in Sizes : s <= n + FrameOverhead}

(* What Encode may return: the sizes are the compressor's.  Without pixels *)
(* or an encoder there is nothing, and write() goes on.                    *)
Encodings(r) ==
  LET pixels == Pixels(r)   blocks == 1 .. BlockCount(Len(pixels)) IN
  CASE r.data = << >> -> {<< >>}
    [] r.data # << >> /\ SavedAsRawData(r.format) ->
         {<< [kind |-> "bytes", length |-> Len(r.data), bytes |-> r.data] >>}
    [] r.data # << >> /\ ~SavedAsRawData(r.format) /\ r.codec = "zlib" ->
         {<< Codec(r, size), [kind |-> "stream", length |-> size, bytes |-> pixels] >> :
            size \in Sizes}
    [] r.data # << >> /\ ~SavedAsRawData(r.format) /\ r.codec = "lzfse" ->
         {<<Codec(r, 4)>> \o FlattenSeq([k \in blocks |-> Kcbc(Block(pixels, k), sizes[k])]) :
            sizes \in {s \in [blocks -> Sizes \cup {n + FrameOverhead : n \in 0 .. BlockSize}] :
                         \A k \in blocks : s[k] \in FrameSizes(Len(Block(pixels, k)))}}
    [] OTHER -> {<< >>}

-----------------------------------------------------------------------------
(* write. *)

Slices(r) == IF r.slices = << >> THEN << <<0, 0, r.width, r.height>> >> ELSE r.slices

Info(r) ==
  << [kind |-> "slices", length |-> 4 + 16 * Len(Slices(r)), slices |-> Slices(r)],
     [kind |-> "metrics", length |-> 28, image |-> <<r.width, r.height>>],
     [kind |-> "composition", length |-> 8],
     [kind |-> "bitmap info", length |-> 4],
     [kind |-> "bytes per row", length |-> 4,
      bytes |-> IF SavedAsRawData(r.format) THEN 0 ELSE r.width * BytesPerPixel(r.format)] >>

RawHeader(r) ==
  IF SavedAsRawData(r.format) THEN << [kind |-> "DWAR", length |-> Len(r.data)] >> ELSE << >>

(* mutant: the name is not cut to the field *)
WholeName(name) == name

Name(name) == SubSeq(name, 1, IF Len(name) < NameSize THEN Len(name) ELSE NameSize)

(* A scale is a double, here given in hundredths: n is the double nearest  *)
(* to n / 100. The header has an integer, cut off, not rounded.            *)
ScaleFactor(n) == IF n \in ShortScales THEN n - 1 ELSE n

(* mutant: the header of the last segment is not counted *)
ValueShortInfo(r, data) ==
  [magic |-> "ISTC", vector |-> r.vector, opaque |-> r.opaque, width |-> r.width,
   height |-> r.height, scale |-> ScaleFactor(r.scale), pixel |-> r.format, layout |-> r.layout,
   name |-> Name(r.name), infoLen |-> SizeOf(Info(r)) - HeaderSize("bytes per row"),
   payload |-> SizeOf(data),
   size |-> SizeOf(Info(r) \o RawHeader(r) \o data),
   items |-> Placed(Info(r) \o RawHeader(r) \o data)]

Value(r, data) ==
  [magic |-> "ISTC", vector |-> r.vector, opaque |-> r.opaque, width |-> r.width,
   height |-> r.height, scale |-> ScaleFactor(r.scale), pixel |-> r.format, layout |-> r.layout,
   name |-> Name(r.name), infoLen |-> SizeOf(Info(r)), payload |-> SizeOf(data),
   size |-> SizeOf(Info(r) \o RawHeader(r) \o data),
   items |-> Placed(Info(r) \o RawHeader(r) \o data)]

Write ==
  /\ pc = "object" /\ writes < MaxWrites
  /\ \E data \in Encodings(rendition) : value' = Value(rendition, data)
  /\ pc' = "value" /\ writes' = writes + 1
  /\ UNCHANGED <<library, rendition, at, compressedLength, offset, decoded, sources>>

-----------------------------------------------------------------------------
(* Load: the fields of the header, then the segments by their lengths.     *)

Mode(layout) == CASE layout \in {11, 20, 23, 30} -> "tile"
                  [] layout \in {12, 21, 24, 31} -> "scale"
                  [] layout = 32 -> "horizontal uniform, vertical scale"
                  [] layout = 33 -> "horizontal scale, vertical uniform"
                  [] OTHER -> "fixed size"

(* From three_part_horizontal_tile to ..._scale_vertical_uniform. *)
Resizable(layout, slices) == layout \in 20 .. 33 /\ Len(slices) > 1

(* The constructor sets what a value does not tell. *)
StartLoad ==
  /\ pc = "value"
  /\ rendition' = [width |-> 0, height |-> 0, scale |-> 100, name |-> << >>, layout |-> 0,
                   slices |-> << >>, vector |-> FALSE, opaque |-> FALSE, flags |-> 0,
                   codec |-> "zlib", uti |-> NoType, format |-> value.pixel, data |-> << >>,
                   resizable |-> FALSE, mode |-> "fixed size", loaded |-> TRUE]
  /\ sources' = IF writes = 0 THEN Nothing ELSE rendition
  /\ pc' = "walking" /\ at' = 0
  /\ UNCHANGED <<library, value, compressedLength, offset, decoded, writes>>

NextSegment(address, item) == address + HeaderSize(item.kind) + item.length

Walk ==
  /\ pc = "walking" /\ at < value.infoLen
  /\ LET segment == ItemAt(at)
     IN /\ rendition' = CASE segment.kind = "slices" -> [rendition EXCEPT !.slices = segment.slices]
                          [] segment.kind = "uti" -> [rendition EXCEPT !.uti = segment.uti]
                          [] OTHER -> rendition
        /\ at' = NextSegment(at, segment)
  /\ UNCHANGED <<pc, library, value, compressedLength, offset, decoded, sources, writes>>

(* The scale is the factor divided by 100: in hundredths, the factor.      *)
FinishLoad ==
  /\ pc = "walking" /\ at >= value.infoLen
  /\ LET slices == IF rendition.slices = << >> THEN << <<0, 0, value.width, value.height>> >>
                   ELSE rendition.slices
     IN rendition' = [rendition EXCEPT
          !.name = value.name, !.width = value.width, !.height = value.height,
          !.scale = value.scale, !.vector = value.vector, !.opaque = value.opaque,
          !.layout = value.layout, !.mode = Mode(value.layout), !.slices = slices,
          !.resizable = Resizable(value.layout, slices)]
  /\ pc' = "loaded"
  /\ UNCHANGED <<library, value, at, compressedLength, offset, decoded, sources, writes>>

-----------------------------------------------------------------------------
(* data(): Decode. *)

Total == value.width * value.height * BytesPerPixel(value.pixel)

Ends(how) ==
  /\ pc' = how
  /\ UNCHANGED <<library, rendition, value, at, compressedLength, offset, decoded, sources, writes>>

DataAddress == value.infoLen

Undecodable ==
  /\ pc = "loaded"
  /\ LET header == ItemAt(DataAddress).kind
     IN \/ value.magic # "ISTC" \/ value.pixel \notin Formats
        \/ SavedAsRawData(value.pixel) /\ header # "DWAR"
        \/ ~SavedAsRawData(value.pixel) /\ header # "MLEC"
  /\ Ends("undecodable")

DecodeRaw ==
  /\ pc = "loaded" /\ value.magic = "ISTC" /\ SavedAsRawData(value.pixel)
  /\ LET header == ItemAt(DataAddress)
         bytes == ItemAt(DataAddress + HeaderSize("DWAR"))
     IN /\ header.kind = "DWAR"
        /\ decoded' = IF header.length = 0 THEN << >> ELSE SubSeq(bytes.bytes, 1, header.length)
  /\ pc' = "decoded"
  /\ UNCHANGED <<library, rendition, value, at, compressedLength, offset, sources, writes>>

(* The first block may have a header of its own; others must have one. *)
StartDecode ==
  /\ pc = "loaded" /\ value.magic = "ISTC" /\ value.pixel \in Formats
  /\ ~SavedAsRawData(value.pixel) /\ ItemAt(DataAddress).kind = "MLEC"
  /\ LET first == DataAddress + HeaderSize("MLEC")   block == ItemAt(first)
     IN IF block.kind = "KCBC"
        THEN at' = first + HeaderSize("KCBC") /\ compressedLength' = block.length
        ELSE at' = first /\ compressedLength' = ItemAt(DataAddress).length
  /\ decoded' = [i \in 1 .. Total |-> 0] /\ offset' = 0 /\ pc' = "decoding"
  /\ UNCHANGED <<library, rendition, value, sources, writes>>

(* How many bytes a decoder makes of an item of which it is given n bytes: *)
(* all, or, when it is cut, any number of them. The room it has is cut by  *)
(* the callers.                                                            *)
Made(item, n) ==
  IF n >= item.length THEN {Len(item.bytes)} ELSE 0 .. Len(item.bytes)

Overlaid(start, bytes, n) ==
  [i \in DOMAIN decoded |-> IF i - start \in 1 .. n THEN bytes[i - start] ELSE decoded[i]]

AtMost(n, room) == IF n < room THEN n ELSE room

(* mutant: the room that is left is counted, not the bytes *)
InflateCountsRoom(address, n) ==
  LET item == ItemAt(address)
  IN IF item.kind # "stream" \/ n = 0 THEN Ends("undecodable")
     ELSE \E k \in Made(item, n) :
            /\ decoded' = Overlaid(0, item.bytes, AtMost(k, Total))
            /\ offset' = offset + Total - AtMost(k, Total)
            /\ at' = address /\ compressedLength' = n
            /\ UNCHANGED <<pc, library, rendition, value, sources, writes>>

(* inflate always fills the buffer from its start, and compressed_data     *)
(* stays where it is. Without any input inflate fails; a stream that gives *)
(* nothing is no failure, and is inflated again.                           *)
Inflate(address, n) ==
  LET item == ItemAt(address)
  IN IF item.kind # "stream" \/ n = 0 THEN Ends("undecodable")
     ELSE \E k \in Made(item, n) :
            /\ decoded' = Overlaid(0, item.bytes, AtMost(k, Total))
            /\ offset' = offset + AtMost(k, Total)
            /\ at' = address /\ compressedLength' = n
            /\ UNCHANGED <<pc, library, rendition, value, sources, writes>>

(* mutant: each frame is decoded to the start of the buffer *)
DecodeFrameToStart(address, n) ==
  LET item == ItemAt(address)
  IN IF ~library \/ item.kind # "frame" THEN Ends("undecodable")
     ELSE \E k \in Made(item, n) :
            IF k = 0 THEN Ends("undecodable")
            ELSE /\ decoded' = Overlaid(0, item.bytes, AtMost(k, Total))
                 /\ offset' = offset + AtMost(k, Total - offset)
                 /\ at' = address + n /\ compressedLength' = n
                 /\ UNCHANGED <<pc, library, rendition, value, sources, writes>>

(* compression_decode_buffer, behind what is there. *)
DecodeFrame(address, n) ==
  LET item == ItemAt(address)
  IN IF ~library \/ item.kind # "frame" THEN Ends("undecodable")
     ELSE \E k \in Made(item, n) :
            IF k = 0 THEN Ends("undecodable")
            ELSE /\ decoded' = Overlaid(offset, item.bytes, AtMost(k, Total - offset))
                 /\ offset' = offset + AtMost(k, Total - offset)
                 /\ at' = address + n /\ compressedLength' = n
                 /\ UNCHANGED <<pc, library, rendition, value, sources, writes>>

DecodeBlock ==
  /\ pc = "decoding" /\ offset < Total
  /\ LET block == ItemAt(at)
         address == IF offset = 0 THEN at ELSE at + HeaderSize("KCBC")
         n == IF offset = 0 THEN compressedLength ELSE block.length
         codec == ItemAt(DataAddress).codec
     IN CASE offset # 0 /\ block.kind # "KCBC" -> Ends("asserts")
          [] ~(offset # 0 /\ block.kind # "KCBC") /\ codec = "zlib" -> Inflate(address, n)
          [] ~(offset # 0 /\ block.kind # "KCBC") /\ codec \in {"lzvn", "lzfse"} ->
               DecodeFrame(address, n)
          [] OTHER -> Ends("undecodable")

FinishDecode ==
  /\ pc = "decoding" /\ offset >= Total
  /\ Ends("decoded")

-----------------------------------------------------------------------------
(* What becomes of a value. *)

(* A caller writes a rendition that it has read; data() decodes it again.  *)
WriteAgain ==
  /\ pc = "decoded" /\ writes < MaxWrites
  /\ rendition' = [rendition EXCEPT !.data = decoded]
  /\ pc' = "object"
  /\ UNCHANGED <<library, value, at, compressedLength, offset, decoded, sources, writes>>

(* cmdPatch: the header of the source, a master's pixels of that size; an  *)
(* icon is marked opaque in its data header, and encoded by lzfse.         *)
Patch ==
  /\ pc = "value" /\ writes < MaxWrites /\ value.width # 0 /\ value.height # 0
  /\ \E isAppIcon, isFullyOpaque \in BOOLEAN :
       rendition' = [width |-> value.width, height |-> value.height, scale |-> value.scale,
                     name |-> value.name, layout |-> value.layout, slices |-> << >>,
                     vector |-> value.vector, opaque |-> ~isAppIcon /\ isFullyOpaque,
                     flags |-> IF isAppIcon THEN 3 ELSE 0,
                     codec |-> IF isAppIcon THEN "lzfse" ELSE "zlib",
                     uti |-> NoType, format |-> "BGRA8",
                     data |-> [i \in 1 .. value.width * value.height * 4 |-> 100 + i],
                     resizable |-> FALSE, mode |-> "fixed size", loaded |-> FALSE]
  /\ pc' = "object"
  /\ UNCHANGED <<library, value, at, compressedLength, offset, decoded, sources, writes>>

Init ==
  /\ library \in BOOLEAN
  /\ \/ pc = "object" /\ rendition \in Renditions /\ value = Nothing
     \/ pc = "value" /\ value \in Values /\ rendition = Nothing
  /\ at = 0 /\ compressedLength = 0 /\ offset = 0 /\ decoded = << >> /\ sources = Nothing /\ writes = 0
  /\ clock = 0

Tick == clock' = 1 - clock

Next ==
  /\ \/ Write \/ StartLoad \/ Walk \/ FinishLoad
     \/ Undecodable \/ DecodeRaw \/ StartDecode \/ DecodeBlock \/ FinishDecode
     \/ WriteAgain \/ Patch
  /\ Tick

(* Load and data() run on once they are called, be it in a circle. *)
Reading == (Walk \/ FinishLoad \/ DecodeBlock \/ FinishDecode) /\ Tick

Spec == Init /\ [][Next]_vars /\ WF_vars(Reading)

-----------------------------------------------------------------------------
TypeOK ==
  /\ pc \in {"object", "value", "walking", "loaded", "decoding", "decoded", "undecodable",
             "asserts"}
  /\ library \in BOOLEAN /\ at \in Nat /\ compressedLength \in Nat /\ offset \in Nat
  /\ decoded \in Seq(Int) /\ writes \in 0 .. MaxWrites /\ clock \in 0 .. 1
  /\ pc # "object" => Len(value.name) <= NameSize /\ value.payload <= value.size
  /\ pc = "decoding" => offset <= Total

(* Load's walk is at a segment until it is past the last one, where the    *)
(* data begins; and in a value of write()'s making, each block that is not *)
(* the first is looked for where a block's header is.                      *)
WalksOnHeaders ==
  /\ pc = "walking" =>
       \/ at = value.infoLen
       \/ at < value.infoLen /\ ItemAt(at).kind \in InfoKinds
  /\ pc = "decoding" /\ writes > 0 /\ offset \in 1 .. Total - 1 =>
       ItemAt(at).kind = "KCBC"

(* What a rendition looks like that was written and loaded. *)
AsRead(r) ==
  [r EXCEPT !.name = SubSeq(r.name, 1, AtMost(Len(r.name), NameSize)),
            !.slices = IF r.slices = << >> THEN << <<0, 0, r.width, r.height>> >> ELSE r.slices,
            !.flags = 0, !.codec = "zlib", !.uti = NoType, !.data = << >>,
            !.loaded = TRUE, !.scale = rendition.scale,
            !.mode = rendition.mode, !.resizable = rendition.resizable]

(* What write() made, Load and data() get back, whichever codec and        *)
(* however many blocks: all but the codec, its flags, the type and the     *)
(* scale.  A whole scale comes back as well, and others lose a hundredth   *)
(* at most, though another each time they are written again.  Only without *)
(* data or an encoder, or without a decoder in the build, is there nothing *)
(* to decode.  A rendition that was itself loaded resizes as it did.       *)
ReadBack ==
  sources # Nothing =>
    /\ pc \in {"loaded", "decoding", "decoded", "undecodable"} =>
         /\ rendition = AsRead(sources)
         /\ sources.scale - rendition.scale \in 0 .. 1
         /\ sources.scale % 100 = 0 => rendition.scale = sources.scale
    /\ pc = "loaded" /\ sources.loaded =>
         rendition.mode = sources.mode /\ rendition.resizable = sources.resizable
    /\ pc = "decoded" =>
         decoded = IF SavedAsRawData(sources.format) THEN sources.data ELSE Pixels(sources)
    /\ pc = "undecodable" =>
         \/ sources.data = << >> \/ sources.codec \notin {"zlib", "lzfse"}
         \/ sources.codec = "lzfse" /\ ~library
    /\ pc # "asserts"

(* From header to header the lengths lead to the end of the value, and the *)
(* pages of the blocks add up to those of the image, which is what the     *)
(* readers of an icon go by.                                               *)
BlocksFillValue ==
  pc = "value" /\ writes > 0 =>
    LET items == value.items
        blocks == {address \in DOMAIN items : items[address].kind = "KCBC"}
        headers == blocks \cup {address \in DOMAIN items :
                      \/ items[address].kind = "DWAR"
                      \/ items[address].kind = "MLEC" /\ items[address].codec = "zlib"}
    IN /\ \A address \in headers :
            LET next == address + HeaderSize(items[address].kind) + items[address].length
            IN next = value.size \/ next \in blocks
       /\ blocks # {} =>
            MapThenSumSet(LAMBDA address : items[address].pages, blocks)
              = (Total + PageSize - 1) \div PageSize

(* data() is about to inflate a stream that may give nothing: one that is  *)
(* empty or is cut by the length in its header.  It then does so for ever. *)
Stalls ==
  /\ pc = "decoding" /\ offset = 0 /\ offset < Total
  /\ ItemAt(DataAddress).codec = "zlib" /\ compressedLength > 0
  /\ ItemAt(at).kind = "stream" /\ 0 \in Made(ItemAt(at), compressedLength)

(* Load ends, and so does data(): always for a value of write()'s making,  *)
(* and for one of another program unless it comes to a stream that gives   *)
(* nothing.                                                                *)
ReadingEnds ==
  /\ (pc = "walking") ~> (pc = "loaded")
  /\ (pc = "decoding")
       ~> (pc \in {"decoded", "undecodable", "asserts"} \/ (writes = 0 /\ Stalls))
=============================================================================
