------------------------------ MODULE Decoders ------------------------------
(***************************************************************************)
(* The incremental text decoders: TextDecoder and TextDecoderStream        *)
(* (streams/text.go, streams/text_streams.js) and StringDecoder            *)
(* (string_decoder/module.go).  One decoder object, given bytes in chunks; *)
(* a transform of TextDecoderStream is a decode with stream, its flush a   *)
(* decode without bytes.                                                   *)
(*                                                                         *)
(* A byte is a number and so is what is decoded: bytes of UTF-8, UTF-16    *)
(* code units, digits of base64 (64 is the padding) or of hex.             *)
(***************************************************************************)
EXTENDS Naturals, Sequences, SequencesExt

CONSTANTS Bytes,      \* the bytes that occur
          MaxBytes,   \* bound on the bytes between two ends
          MaxChunk    \* bound on the bytes of a chunk

VARIABLES
  kind,         \* "TextDecoder", or the encoding of a StringDecoder
  fatal, ignoreBOM,
  pendingBytes, \* the bytes kept for the next chunk
  firstChunk,   \* TextDecoder: a byte order mark may still come
  \* history
  fed,          \* the bytes since the last end
  out,          \* what was decoded from them
  last,         \* what the last call returned
  ended,        \* the last call was an end
  thrown        \* a fatal TextDecoder threw; the history stops there

options == <<kind, fatal, ignoreBOM>>
decodersVars == <<options, pendingBytes, firstChunk, fed, out, last, ended, thrown>>

Encodings == {"utf8", "ucs2", "base64", "ascii", "latin1", "hex"}

DecodersInit ==
  /\ kind \in Encodings \cup {"TextDecoder"}
  /\ fatal \in (IF kind = "TextDecoder" THEN BOOLEAN ELSE {FALSE})
  /\ ignoreBOM \in (IF kind = "TextDecoder" THEN BOOLEAN ELSE {FALSE})
  /\ pendingBytes = <<>> /\ firstChunk = TRUE
  /\ fed = <<>> /\ out = <<>> /\ last = <<>> /\ ended = TRUE /\ thrown = FALSE

Chunks == SeqOf(Bytes, MaxChunk)
Drop(s, n) == SubSeq(s, n + 1, Len(s))
Take(s, n) == SubSeq(s, 1, n)

-----------------------------------------------------------------------------
(* UTF-8.                                                                  *)

\* U+FFFD.
RuneError == <<239, 191, 189>>

\* utf8SequenceLength: 0 if the byte starts no sequence.
SequenceLength(b) ==
  CASE b < 128 -> 1 [] b \in 194..223 -> 2 [] b \in 224..239 -> 3 [] b \in 240..244 -> 4 [] OTHER -> 0

\* The continuation bytes that may be in place i after lead b.
Continuation(b, i) ==
  CASE i = 2 /\ b = 224 -> 160..191 [] i = 2 /\ b = 237 -> 128..159
    [] i = 2 /\ b = 240 -> 144..191 [] i = 2 /\ b = 244 -> 128..143 [] OTHER -> 128..191

\* s starts like a character, as far as it goes.
StartsWell(s) ==
  /\ SequenceLength(s[1]) > 0
  /\ \A i \in 2..SequenceLength(s[1]) : i <= Len(s) => s[i] \in Continuation(s[1], i)

\* utf8.FullRune: the first bytes are a character, or can no longer become one.
FullRune(s) == ~StartsWell(s) \/ Len(s) >= SequenceLength(s[1])

\* utf8.DecodeRune of a full rune: its size, and the character or U+FFFD.
DecodeRune(s) ==
  IF StartsWell(s) THEN [rune |-> Take(s, SequenceLength(s[1])), size |-> SequenceLength(s[1])]
  ELSE [rune |-> RuneError, size |-> 1]

\* decodeUTF8Chunk: the text, the bytes left, and whether nothing was replaced (with
\* fatal, a replacement throws). What does not fit any more waits for the next chunk;
\* at the end it is one U+FFFD, whatever it is.
DecodeUTF8Chunk(data, final) ==
  LET dec[k \in 1..Len(data) + 1] ==
        IF k > Len(data) THEN [text |-> <<>>, pending |-> <<>>, ok |-> TRUE]
        ELSE LET n == SequenceLength(data[k])
                 bad == n = 0 \/ ~StartsWell(Drop(data, k - 1))
                 rest == dec[IF bad THEN k + 1 ELSE k + n]
             IN  IF n > 0 /\ k + n - 1 > Len(data)
                 THEN IF final THEN [text |-> RuneError, pending |-> <<>>, ok |-> FALSE]
                      ELSE [text |-> <<>>, pending |-> Drop(data, k - 1), ok |-> TRUE]
                 ELSE IF bad THEN [rest EXCEPT !.text = RuneError \o @, !.ok = FALSE]
                 ELSE [rest EXCEPT !.text = SubSeq(data, k, k + n - 1) \o @]
  IN  dec[1]

\* decodePendingUTF8.
DecodePendingUTF8(data, flush) ==
  LET dec[k \in 1..Len(data) + 1] ==
        LET left == Drop(data, k - 1)
        IN  IF left = <<>> THEN [text |-> <<>>, pending |-> <<>>]
            ELSE IF ~FullRune(left)
            THEN IF flush THEN [text |-> RuneError, pending |-> <<>>]
                 ELSE [text |-> <<>>, pending |-> left]
            ELSE LET r == DecodeRune(left)
                 IN  [dec[k + r.size] EXCEPT !.text = r.rune \o @]
  IN  dec[1]

-----------------------------------------------------------------------------
(* TextDecoder.                                                            *)

BOM == <<239, 187, 191>>

\* stripUTF8BOM: the data without its byte order mark, or not enough to tell.
StripUTF8BOM(data, final) ==
  IF IsPrefix(BOM, data) THEN [data |-> Drop(data, 3), bomPending |-> FALSE]
  ELSE [data |-> data, bomPending |-> ~final /\ data # <<>> /\ IsStrictPrefix(data, BOM)]

\* decodeUTF8.
DecodeUTF8(chunk, kept, final, strip) ==
  LET s == IF strip THEN StripUTF8BOM(kept \o chunk, final)
           ELSE [data |-> kept \o chunk, bomPending |-> FALSE]
      d == IF s.bomPending THEN [text |-> <<>>, pending |-> s.data, ok |-> TRUE]
           ELSE DecodeUTF8Chunk(s.data, final)
  IN  [text |-> d.text, pending |-> d.pending, ok |-> d.ok, bomPending |-> s.bomPending]

\* A call returns text, or the history stops.
Returns(chunk, text, final) ==
  /\ fed' = (IF ended THEN <<>> ELSE fed) \o chunk
  /\ out' = (IF ended THEN <<>> ELSE out) \o text
  /\ last' = text
  /\ ended' = final
  /\ UNCHANGED <<options, thrown>>

\* Faulty variant: any chunk, also one without bytes, ends the wait for the mark.
FirstChunkOnce(chunk, bomPending) == FALSE

\* _firstChunk after a call with stream.
FirstChunk(chunk, bomPending) ==
  bomPending \/ (firstChunk /\ pendingBytes = <<>> /\ chunk = <<>>)

\* TextDecoder.decode, TextDecoderStream's transform and flush. An exception leaves
\* the object as it was.
Decode(chunk, stream) ==
  LET d == DecodeUTF8(chunk, pendingBytes, ~stream, firstChunk /\ ~ignoreBOM)
  IN  /\ kind = "TextDecoder" /\ ~thrown
      /\ IF fatal /\ ~d.ok
         THEN /\ thrown' = TRUE
              /\ fed' = (IF ended THEN <<>> ELSE fed) \o chunk
              /\ UNCHANGED <<options, pendingBytes, firstChunk, out, last, ended>>
         ELSE /\ Returns(chunk, d.text, ~stream)
              /\ pendingBytes' = IF stream THEN d.pending ELSE <<>>
              /\ firstChunk' = (~stream \/ FirstChunk(chunk, d.bomPending))

-----------------------------------------------------------------------------
(* StringDecoder.                                                          *)

HighSurrogate(unit) == unit \in 55296..56319

Unit(data, k) == data[2 * k - 1] + 256 * data[2 * k]

\* Faulty variant: a high surrogate at the end is given out without its partner.
UsableUTF16Pairs(data, flush) == Len(data) - (Len(data) % 2)

\* How many bytes decodePendingUTF16LE decodes: whole units, and without flush not a
\* high surrogate at the end.
UsableUTF16(data, flush) ==
  LET pairs == Len(data) - (Len(data) % 2)
  IN  IF ~flush /\ pairs >= 2 /\ HighSurrogate(Unit(data, pairs \div 2)) THEN pairs - 2 ELSE pairs

DecodePendingUTF16LE(data, flush) ==
  LET usable == UsableUTF16(data, flush)
  IN  [text |-> [k \in 1..usable \div 2 |-> Unit(data, k)],
       pending |-> IF flush THEN <<>> ELSE Drop(data, usable)]

\* base64.StdEncoding.EncodeToString.
EncodeBase64(data) ==
  LET b(k) == IF k <= Len(data) THEN data[k] ELSE 0
      digit(k) ==
        LET g == 3 * ((k - 1) \div 4)
        IN  CASE k % 4 = 1 -> b(g + 1) \div 4
              [] k % 4 = 2 -> (b(g + 1) % 4) * 16 + b(g + 2) \div 16
              [] k % 4 = 3 -> IF g + 2 > Len(data) THEN 64 ELSE (b(g + 2) % 16) * 4 + b(g + 3) \div 64
              [] k % 4 = 0 -> IF g + 3 > Len(data) THEN 64 ELSE b(g + 3) % 64
  IN  [k \in 1..4 * ((Len(data) + 2) \div 3) |-> digit(k)]

DecodePendingBase64(data, flush) ==
  LET usable == IF flush THEN Len(data) ELSE Len(data) - (Len(data) % 3)
  IN  [text |-> EncodeBase64(Take(data, usable)), pending |-> Drop(data, usable)]

\* encode: the encodings in which a byte stands for itself.
Encode(data) ==
  CASE kind = "ascii" -> [k \in 1..Len(data) |-> data[k] % 128]
    [] kind = "latin1" -> data
    [] kind = "hex" -> [k \in 1..2 * Len(data) |->
                          IF k % 2 = 1 THEN data[(k + 1) \div 2] \div 16 ELSE data[k \div 2] % 16]

\* decodePending, or encode.
DecodePending(data, flush) ==
  CASE kind = "utf8" -> DecodePendingUTF8(data, flush)
    [] kind = "ucs2" -> DecodePendingUTF16LE(data, flush)
    [] kind = "base64" -> DecodePendingBase64(data, flush)
    [] OTHER -> [text |-> Encode(data), pending |-> <<>>]

Write(chunk) ==
  LET d == DecodePending(pendingBytes \o chunk, FALSE)
  IN  /\ kind # "TextDecoder"
      /\ Returns(chunk, d.text, FALSE)
      /\ pendingBytes' = d.pending
      /\ UNCHANGED firstChunk

\* Faulty variant: what was kept is forgotten.
EndIgnoresPending(chunk) ==
  LET d == DecodePending(chunk, TRUE)
  IN  /\ kind # "TextDecoder"
      /\ Returns(chunk, d.text, TRUE)
      /\ pendingBytes' = <<>>
      /\ UNCHANGED firstChunk

\* end, text, fillLast: they differ only in the argument they insist on.
End(chunk) ==
  LET d == DecodePending(pendingBytes \o chunk, TRUE)
  IN  /\ kind # "TextDecoder"
      /\ Returns(chunk, d.text, TRUE)
      /\ pendingBytes' = <<>>
      /\ UNCHANGED firstChunk

-----------------------------------------------------------------------------
DecodersNext ==
  \E chunk \in Chunks :
    /\ Len(chunk) + (IF ended THEN 0 ELSE Len(fed)) <= MaxBytes
    /\ \/ \E stream \in BOOLEAN : Decode(chunk, stream)
       \/ Write(chunk)
       \/ End(chunk)

DecodersSpec == DecodersInit /\ [][DecodersNext]_decodersVars

-----------------------------------------------------------------------------
\* s is correct UTF-8.
ValidUTF8(s) ==
  LET ok[k \in 1..Len(s) + 1] ==
        k > Len(s) \/ LET t == Drop(s, k - 1)
                      IN StartsWell(t) /\ Len(t) >= SequenceLength(t[1]) /\ ok[k + SequenceLength(t[1])]
  IN  ok[1]

\* fed without the byte order mark that the options remove.
Body == IF kind = "TextDecoder" /\ ~ignoreBOM /\ IsPrefix(BOM, fed) THEN Drop(fed, 3) ELSE fed

\* However the bytes were cut, the text is the same.  TextDecoder and
\* TextDecoderStream also throw or not alike: a character or a byte order mark that
\* is split over chunks is put together, and correct UTF-8 comes out as it went in.
\* StringDecoder's end is included: one U+FFFD for a sequence that was not finished,
\* an odd byte dropped, one padding.
SameInAnyChunks ==
  IF kind = "TextDecoder"
  THEN /\ ended /\ ~thrown => out = DecodeUTF8Chunk(Body, TRUE).text
       /\ thrown => ~DecodeUTF8Chunk(Body, TRUE).ok
       /\ fatal /\ ended /\ ~thrown => out = Body
       /\ ended /\ ValidUTF8(Body) => out = Body
  ELSE ended => /\ out = DecodePending(fed, TRUE).text
                /\ kind = "utf8" /\ ValidUTF8(fed) => out = fed

\* What a write returns can be used by itself: it does not end between two surrogates
\* (only with a high one that is known to be alone), has no padding and no U+FFFD for
\* bytes that are the start of a character; what is kept is less than a character.
WritesAreWhole ==
  kind # "TextDecoder" /\ ~ended =>
    /\ kind = "ucs2" => /\ Len(pendingBytes) <= 3
                        /\ last # <<>> /\ HighSurrogate(last[Len(last)]) =>
                             Len(pendingBytes) >= 2 /\ HighSurrogate(Unit(pendingBytes, 1))
    /\ kind = "base64" => Len(pendingBytes) <= 2 /\ \A k \in DOMAIN last : last[k] # 64
    /\ kind = "utf8" => /\ Len(pendingBytes) <= 3
                        /\ ValidUTF8(Take(fed, Len(fed) - Len(pendingBytes))) => out \o pendingBytes = fed
=============================================================================
