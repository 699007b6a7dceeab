------------------------------ MODULE DtaText ------------------------------
(***************************************************************************)
(* Text in a .dta file and what read_dta makes of it: the two byte orders, *)
(* the references of strLs, which every format divides differently, and    *)
(* the transcoding of formats before 118                                   *)
(* (src/src/dta_reader.cpp, src/src/read_dta_function.cpp).                *)
(*                                                                         *)
(* Texts and numbers are sequences of bytes; a number has its least        *)
(* significant byte first, as it has in the memory of the machine.  Only   *)
(* that of a machine with this order is modelled.                          *)
(***************************************************************************)
EXTENDS Integers, Sequences, SequencesExt

CONSTANT Null    \* SQL NULL

-----------------------------------------------------------------------------
(***************************************************************************)
(* Byte order: SwapIfNeeded for the widths of the fields.                  *)
(***************************************************************************)
Swap16(w) == <<w[2], w[1]>>
Swap32(w) == <<w[4], w[3], w[2], w[1]>>

\* Neighbours are exchanged, then pairs of bytes, then halves.
Swap64(w) ==
  LET bytes == [i \in 1 .. 8 |-> w[IF i % 2 = 1 THEN i + 1 ELSE i - 1]]
      pairs == [i \in 1 .. 8 |-> bytes[IF i % 4 \in {1, 2} THEN i + 2 ELSE i - 2]]
  IN  [i \in 1 .. 8 |-> pairs[IF i <= 4 THEN i + 4 ELSE i - 4]]

SwapIfNeeded(msf, w) ==
  IF ~msf THEN w
  ELSE CASE Len(w) = 1 -> w
         [] Len(w) = 2 -> Swap16(w)
         [] Len(w) = 4 -> Swap32(w)
         [] Len(w) = 8 -> Swap64(w)

\* The n least significant bytes of a number.
Low(w, n) == [i \in 1 .. n |-> IF i <= Len(w) THEN w[i] ELSE 0]

-----------------------------------------------------------------------------
(***************************************************************************)
(* Text: what precedes the first NUL; formats before 118 are in Latin-1.   *)
(***************************************************************************)
UntilNul(field) ==
  IF SelectInSeq(field, LAMBDA byte : byte = 0) = 0 THEN field
  ELSE SubSeq(field, 1, SelectInSeq(field, LAMBDA byte : byte = 0) - 1)

NeedsUtf8Transcode(text) == \E i \in DOMAIN text : text[i] >= 128

Latin1ToUtf8(text) ==
  FlattenSeq([i \in DOMAIN text |->
    IF text[i] < 128 THEN <<text[i]>>
    ELSE <<192 + (text[i] \div 64), 128 + (text[i] % 64)>>])

ShownText(release, text) ==
  IF release < 118 /\ NeedsUtf8Transcode(text) THEN Latin1ToUtf8(text) ELSE text

-----------------------------------------------------------------------------
(***************************************************************************)
(* strLs: LoadStrLs, ResolveStrL and the cells that refer to them.  A      *)
(* reference is the 8 bytes of a cell, divided into a column v and an      *)
(* observation o; a GSO has the two in full.                               *)
(***************************************************************************)
\* Mutant: the division of format 119 in all formats.
ThreeVBytes(release) == 3

StrLVBytes(release) ==
  CASE release = 117 -> 4
    [] release \in {118, 120} -> 2
    [] OTHER -> 3

StrLKey(release, v, o) ==
  <<Low(v, StrLVBytes(release)), Low(o, 8 - StrLVBytes(release))>>

\* A text ends with a NUL that is not part of it; a binary strL is kept whole.
Content(release, gso) ==
  LET last == Len(gso.content)
      ended == last > 0 /\ gso.content[last] = 0
      text == IF ended THEN SubSeq(gso.content, 1, last - 1) ELSE gso.content
  IN  IF gso.binary THEN gso.content ELSE ShownText(release, text)

GSOKey(file, i) ==
  StrLKey(file.release, SwapIfNeeded(file.msf, file.strls[i].v),
          SwapIfNeeded(file.msf, file.strls[i].o))

\* Of two strLs with one key the later replaces the earlier; a key that is
\* not in the table is the empty string.
ResolveStrL(file, v, o) ==
  LET last == SelectLastInSeq([i \in DOMAIN file.strls |-> GSOKey(file, i)],
                              LAMBDA key : key = StrLKey(file.release, v, o))
  IN  IF last = 0 THEN <<>> ELSE Content(file.release, file.strls[last])

\* The two numbers are put together byte by byte, each in the file's order.
ShownStrL(file, cell) ==
  LET n == StrLVBytes(file.release)
      ordered(bytes) == IF file.msf THEN Reverse(bytes) ELSE bytes
      v == ordered(SubSeq(cell, 1, n))
      o == ordered(SubSeq(cell, n + 1, 8))
      zero(w) == \A i \in DOMAIN w : w[i] = 0
  IN  IF zero(v) /\ zero(o) THEN Null ELSE ResolveStrL(file, v, o)

-----------------------------------------------------------------------------
(***************************************************************************)
(* Files as other programs lay them out.  A reference is [v, o], numbers   *)
(* of 4 and of 8 bytes; a cell has the n low bytes of v and the 8 - n of o. *)
(***************************************************************************)
VBytes(release) ==
  CASE release = 117 -> 4 [] release \in {118, 120} -> 2 [] release \in {119, 121} -> 3

Fits(ref, n) == ref.v = Low(Low(ref.v, n), 4) /\ ref.o = Low(Low(ref.o, 8 - n), 8)

InOrder(msf, w) == IF msf THEN Reverse(w) ELSE w

RefBytes(msf, ref, n) ==
  InOrder(msf, Low(ref.v, n)) \o InOrder(msf, Low(ref.o, 8 - n))

NoRef == [i \in 1 .. 8 |-> 0]

StrL(release, msf, ref, binary, content) ==
  [v |-> InOrder(msf, ref.v),
   o |-> InOrder(msf, IF release = 117 THEN Low(ref.o, 4) ELSE ref.o),
   binary |-> binary, content |-> content]

\* A character of Latin-1 in UTF-8: itself, or the pair 110xxxxx 10xxxxxx whose
\* bits x are its number.
Utf8(char) ==
  IF char < 128 THEN <<char>>
  ELSE CHOOSE pair \in (192 .. 223) \X (128 .. 191) :
         64 * (pair[1] - 192) + (pair[2] - 128) = char

\* Text as a format encodes it, with the NUL that ends it in a strL.
Encoded(release, text) == IF release < 118 THEN text.latin1 ELSE text.utf8
=============================================================================
