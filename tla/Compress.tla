------------------------------ MODULE Compress ------------------------------
(***************************************************************************)
(* compress/src and helper/compress/src/bakup: the wrappers around zlib,   *)
(* bzip2 and huffman.  What those libraries compute is external: data is   *)
(* its length n, its compressed form is c bytes long for a c the library   *)
(* chooses, and a compressed text is intact or not.  What is modelled is   *)
(* what the wrappers do with sizes, buffers, status codes and streams.     *)
(***************************************************************************)
EXTENDS Integers, Sequences, FiniteSetsExt

CONSTANTS MaxData,    \* HM_MAX_DATA_LEN, BZ2_MAX_DATA_LEN, H_MAX_PACKAGE_SIZE
          Slack       \* compressBound(n) - n

Methods == {"kNoCompress", "kHuffman", "kBZIP2", "kTestHuffman"}

\* A compressed text: its length, whether it is intact and what it came from.
Packed(c, n) == [len |-> c, intact |-> TRUE, n |-> n]
Nothing      == [len |-> 0, intact |-> TRUE, n |-> 0]
\* The data itself, or a buffer that was left half written: no compressed text.
Raw(n)       == [len |-> n, intact |-> FALSE, n |-> n]

\* ok, the text, and whether a z_stream was left open on the way.
Result(ok, out, leak) == [ok |-> ok, out |-> out, leak |-> leak]
\* Decompressed data: exact, or as long as it should be but garbled.
Data(n, exact) == [n |-> n, exact |-> exact]

-----------------------------------------------------------------------------
(* ZlibHuffManCode *)

\* Into a buffer of room bytes.  A failure of deflate, or input that is left
\* over, returns before deflateEnd.
ZlibHuffManCompressTo(n, c, room) ==
    CASE room = 0 -> Result(FALSE, Raw(n), FALSE)
      [] room > 0 /\ n = 0 -> Result(TRUE, Nothing, FALSE)
      [] room > 0 /\ n > 0 /\ c > room -> Result(FALSE, Raw(n), TRUE)
      [] OTHER -> Result(TRUE, Packed(c, n), FALSE)

\* The output has as many bytes as the input.
ZlibHuffManCompress(n, c) ==
    CASE n = 0 -> Result(TRUE, Nothing, FALSE)
      [] n > MaxData -> Result(FALSE, Raw(n), FALSE)
      [] OTHER -> ZlibHuffManCompressTo(n, c, n)


\* The buffer that Uncompress takes.
Room(len, bound) ==
    LET room == IF bound # 0 THEN bound + 1 ELSE MaxData
    IN  IF len > room THEN len + MaxData ELSE room

\* Every round of the loop writes to the start of the buffer again: data that
\* takes a second round overwrites its beginning, and total_out counts it all.
ZlibHuffManUncompressTo(t, room) ==
    CASE room = 0 \/ t.len > MaxData -> Result(FALSE, Data(0, TRUE), FALSE)
      [] room > 0 /\ t.len <= MaxData /\ ~t.intact -> Result(FALSE, Data(0, TRUE), TRUE)
      [] OTHER -> Result(TRUE, Data(t.n, t.n <= room), FALSE)

ZlibHuffManUncompress(t, bound) ==
    CASE t.len > MaxData -> Result(FALSE, Data(0, TRUE), FALSE)
      [] t.len = 0 -> Result(TRUE, Data(0, TRUE), FALSE)
      [] OTHER -> ZlibHuffManUncompressTo(t, Room(t.len, bound))

-----------------------------------------------------------------------------
(* Bzip2: BZ2_bzBuffToBuff(De)compress report BZ_OUTBUFF_FULL *)

Bzip2Compress(n, c) ==
    IF c > n THEN Result(FALSE, Raw(n), FALSE) ELSE Result(TRUE, Packed(c, n), FALSE)

Bzip2Uncompress(t, bound) ==
    IF t.len > 0 /\ t.intact /\ t.n <= Room(t.len, bound) THEN Result(TRUE, Data(t.n, TRUE), FALSE)
    ELSE Result(FALSE, Data(0, TRUE), FALSE)

-----------------------------------------------------------------------------
(* HuffManCode: the library allocates the output *)

HuffManCompress(n, c) ==
    CASE n = 0 -> Result(TRUE, Nothing, FALSE)
      [] n > MaxData -> Result(FALSE, Raw(n), FALSE)
      [] n \in 1..MaxData /\ c > MaxData -> Result(FALSE, Nothing, FALSE)
      [] OTHER -> Result(TRUE, Packed(c, n), FALSE)

HuffManUncompress(t, bound) ==
    CASE t.len > MaxData -> Result(FALSE, Data(0, TRUE), FALSE)
      [] t.len = 0 -> Result(TRUE, Data(0, TRUE), FALSE)
      [] t.len \in 1..MaxData /\ (~t.intact \/ t.n > MaxData) ->
             Result(FALSE, Data(0, TRUE), FALSE)
      [] OTHER -> Result(TRUE, Data(t.n, TRUE), FALSE)

\* The same between buffers of the caller's; an empty text has no code table.
HuffManCompressTo(n, c, room) ==
    CASE n = 0 -> Result(TRUE, Nothing, FALSE)
      [] n > 0 /\ c > room -> Result(FALSE, Nothing, FALSE)
      [] OTHER -> Result(TRUE, Packed(c, n), FALSE)

HuffManUncompressTo(t, room) ==
    IF room = 0 \/ t.len \notin 1..MaxData \/ ~t.intact \/ t.n > room
    THEN Result(FALSE, Data(0, TRUE), FALSE) ELSE Result(TRUE, Data(t.n, TRUE), FALSE)

-----------------------------------------------------------------------------
(* CompressorFactory *)

FakeCompress(n)   == Result(TRUE, Packed(n, n), FALSE)
FakeUncompress(t) == Result(TRUE, Data(t.n, t.intact), FALSE)

CompressorCompress(method, n, c) ==
    CASE method = "kNoCompress"  -> FakeCompress(n)
      [] method = "kHuffman"     -> ZlibHuffManCompress(n, c)
      [] method = "kBZIP2"       -> Bzip2Compress(n, c)
      [] method = "kTestHuffman" -> HuffManCompress(n, c)

CompressorUncompress(method, t, bound) ==
    CASE method = "kNoCompress"  -> FakeUncompress(t)
      [] method = "kHuffman"     -> ZlibHuffManUncompress(t, bound)
      [] method = "kBZIP2"       -> Bzip2Uncompress(t, bound)
      [] method = "kTestHuffman" -> HuffManUncompress(t, bound)

-----------------------------------------------------------------------------
(* GZip: a header, the deflated body, its crc and the original length.      *)
(* The header has a fixed part and, by its flags, optional fields.          *)

Fixed == 10
Trailer == 8

gz_compress_bound(n) == n + Slack + Fixed + Trailer

GzHeader == [magic |-> TRUE, method |-> TRUE, reserved |-> FALSE, options |-> 0]

\* deflate may use the whole buffer behind the header, the trailer is written
\* behind what it used.
gz_compress(n, c, room) ==
    IF c > room - Fixed THEN Result(FALSE, <<>>, FALSE)
    ELSE Result(TRUE, [head |-> GzHeader, body |-> Packed(c, n), crc |-> n, isize |-> n,
                       overrun |-> Fixed + c + Trailer > room], FALSE)

GzLen(w) == Fixed + w.head.options + w.body.len + Trailer

\* The bytes of the header, or 0 if it is not one.
gz_check_header(h, len) ==
    IF len < Fixed \/ ~h.magic \/ ~h.method \/ h.reserved THEN 0 ELSE Fixed + h.options

gz_uncompress_bound(w, len) ==
    IF len < Fixed + Trailer THEN 0 ELSE Min({w.isize, MaxData})

\* crc and length are compared with what came out; a difference returns before
\* inflateEnd.
gz_uncompress(w, len, room) ==
    LET head == gz_check_header(w.head, len)
    IN  CASE head = 0 \/ len < head + Trailer -> Result(FALSE, Data(0, TRUE), FALSE)
          [] head # 0 /\ len >= head + Trailer /\ (~w.body.intact \/ w.body.n > room) ->
                 Result(FALSE, Data(0, TRUE), FALSE)
          [] head # 0 /\ len >= head + Trailer /\ w.body.intact /\ w.body.n <= room
               /\ (w.crc # w.body.n \/ w.isize # w.body.n) ->
                 Result(FALSE, Data(0, TRUE), TRUE)
          [] OTHER -> Result(TRUE, Data(w.body.n, TRUE), FALSE)

GZipCompress(n, c) == gz_compress(n, c, gz_compress_bound(n))
GZipUncompress(w)  == gz_uncompress(w, GzLen(w), gz_uncompress_bound(w, GzLen(w)))

-----------------------------------------------------------------------------
(* ZLib: the original length in front of the compressed data *)

ZLibCompressBound(n) == 4 + n + Slack

ZLibCompress(n, c, room) ==
    IF room < ZLibCompressBound(n) \/ c > room - 4 THEN Result(FALSE, <<>>, FALSE)
    ELSE Result(TRUE, [size |-> n, body |-> Packed(c, n)], FALSE)

ZLibUncompressBound(w) == Min({w.size, MaxData})

ZLibUncompress(w, room) ==
    IF room < ZLibUncompressBound(w) \/ ~w.body.intact \/ w.body.n > room
    THEN Result(FALSE, Data(0, TRUE), FALSE)
    ELSE Result(TRUE, Data(w.body.n, TRUE), FALSE)

\* zlib_uncompress: the buffer grows by in * 2^factor until the data fits.
RECURSIVE zlib_grow(_, _, _, _)
zlib_grow(t, room, factor, maxfactor) ==
    CASE t.intact /\ t.n <= room -> Result(TRUE, Data(t.n, TRUE), FALSE)
      [] ~t.intact \/ (t.n > room /\ factor >= maxfactor) ->
             Result(FALSE, Data(0, TRUE), FALSE)
      [] OTHER -> zlib_grow(t, room + t.len * 2^factor, factor + 1, maxfactor)

zlib_uncompress(t, size, maxfactor) ==
    IF size = 0 THEN zlib_grow(t, t.len * 2, 2, maxfactor)
    ELSE zlib_grow(t, size, 1, maxfactor)

=============================================================================
