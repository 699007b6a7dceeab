----------------------------- MODULE DtaValues -----------------------------
(***************************************************************************)
(* One cell on its way from a DuckDB column through a .dta file and back:  *)
(* the type mapping and the encoding of COPY TO                            *)
(* (src/src/write_dta_function.cpp), the missing value codes               *)
(* (src/src/dta_reader.cpp) and the type mapping and the decoding of       *)
(* read_dta (src/src/read_dta_function.cpp).  The file may also be one     *)
(* that another program wrote.                                             *)
(*                                                                         *)
(* Abstractions.  Integer columns keep their widths.  A float or double is *)
(* an integer, and those whose bits are missing value codes once the sign  *)
(* is masked are the ones of magnitude MissingFrom or more.  The 32 bits   *)
(* of a date, the 64 bits of a timestamp and the 53 bits of a double are   *)
(* scaled down to DayLimit, MicroLimit and Exact.  A format is its code    *)
(* and whether it asks for left justification (%-td).  With a text goes    *)
(* what else of the file it needs: release, byte order and strLs.  HUGEINT *)
(* and DECIMAL, which COPY converts to double by the engine's arithmetic,  *)
(* and the types it turns into text are left out.                          *)
(***************************************************************************)
EXTENDS Integers, DtaText

CONSTANTS
  EnumSizes,     \* sizes of the ENUM types tried
  IntSamples,    \* the integers tried
  DayLimit,      \* the largest 32-bit integer, where days are concerned
  EpochOffset,   \* STATA_EPOCH_OFFSET: days from 1960-01-01 to 1970-01-01
  MicroSamples,  \* the timestamps tried, in microseconds since 1970
  MicroLimit,    \* the largest 64-bit integer, where timestamps are concerned
  Exact,         \* 2^53: doubles hold every integer up to it
  TcOffset,      \* STATA_TC_EPOCH_OFFSET_MS
  DoubleSamples, \* the floats and doubles tried
  MissingFrom,   \* the smallest missing float or double: 2^127 and 2^1023
  Texts,         \* the texts tried: [latin1, utf8], their bytes in either
  Refs           \* the references tried: [v, o], numbers of 4 and 8 bytes

\* Of the limits: 2^63 - 1 is less than 2^10 * 2^53, a 64-bit timestamp is less
\* than 2^54 milliseconds, which is less than 2^63, and no integer of 64 bits,
\* signed or not, is a missing double.
ASSUME ValuesAssumption ==
  /\ Null \notin Int \cup Seq(0 .. 255)
  /\ EnumSizes \subseteq Nat \ {0}
  /\ IntSamples \cup DoubleSamples \subseteq Int
  /\ MicroLimit \in Nat /\ MicroSamples \subseteq -MicroLimit .. MicroLimit
  /\ EpochOffset \in Nat \ {0} /\ TcOffset \in Nat /\ DayLimit \in Nat
  /\ Exact \in Nat \ {0} /\ Exact % 2 = 0
  /\ 2 * Exact <= MicroLimit /\ MicroLimit < 1024 * Exact
  /\ (MicroLimit \div 1000) + TcOffset < 2 * Exact
  /\ MissingFrom \in Nat /\ MissingFrom > DayLimit + EpochOffset
  /\ MissingFrom > 2 * (MicroLimit + 1024) + TcOffset
  /\ \A text \in Texts : text.latin1 \in Seq(0 .. 255) /\ text.utf8 \in Seq(0 .. 255)

\* The numbers in a reference count from 1.
ASSUME RefsAssumption ==
  /\ Refs \subseteq [v : [1 .. 4 -> 0 .. 255], o : [1 .. 8 -> 0 .. 255]]
  /\ \A ref \in Refs : \E i \in 1 .. 4 : ref.v[i] # 0

\* A text has the same characters in either encoding.
ASSUME TextAssumption ==
  \A text \in Texts :
    text.utf8 = FlattenSeq([i \in DOMAIN text.latin1 |-> Utf8(text.latin1[i])])

VARIABLES
  step,          \* "start", "written", "rejected", "read"
  column,        \* the DuckDB column copied: its type and, of an ENUM, its size
  value,         \* the value handed to COPY, or the text a foreign cell means
  cell,          \* what is in the file: the type code, the format, the bits
  result         \* the value read_dta returns

vars == <<step, column, value, cell, result>>

-----------------------------------------------------------------------------
(***************************************************************************)
(* Types and their values.                                                 *)
(***************************************************************************)
Column(type) == [type |-> type, size |-> 0]
PlainTypes == {"BOOLEAN", "TINYINT", "UTINYINT", "SMALLINT", "USMALLINT",
               "INTEGER", "UINTEGER", "BIGINT", "UBIGINT", "FLOAT", "DOUBLE", "DATE",
               "TIMESTAMP", "VARCHAR"}
ColumnsTried == {Column(type) : type \in PlainTypes}
                \cup {[type |-> "ENUM", size |-> n] : n \in EnumSizes}

Day == -DayLimit - 1 .. DayLimit
Int64 == -MicroLimit - 1 .. MicroLimit

IntegersOf(c) ==
  CASE c.type = "BOOLEAN"   -> 0 .. 1
    [] c.type = "TINYINT"   -> {i \in IntSamples : i >= -128 /\ i <= 127}
    [] c.type = "UTINYINT"  -> {i \in IntSamples : i >= 0 /\ i <= 255}
    [] c.type = "SMALLINT"  -> {i \in IntSamples : i >= -32768 /\ i <= 32767}
    [] c.type = "USMALLINT" -> {i \in IntSamples : i >= 0 /\ i <= 65535}
    [] c.type = "ENUM"      -> {i \in IntSamples : i >= 0 /\ i < c.size}
    [] c.type = "UINTEGER"  -> {i \in IntSamples : i >= 0 /\ i <= Exact}
    [] c.type = "BIGINT"    -> IntSamples \cap Int64
    [] c.type = "UBIGINT"   -> {i \in IntSamples : i >= 0 /\ i <= 2 * MicroLimit + 1}
    [] OTHER                -> IntSamples

ValuesOf(c) ==
  {Null} \cup CASE c.type = "DATE"      -> Day
                [] c.type = "TIMESTAMP" -> MicroSamples
                [] c.type \in {"FLOAT", "DOUBLE"} -> DoubleSamples
                [] c.type = "VARCHAR"   -> {text.utf8 : text \in Texts}
                [] OTHER                -> IntegersOf(c)

-----------------------------------------------------------------------------
(***************************************************************************)
(* Writing: MapDuckDBType and the cell encoding of WriteDtaSink.           *)
(***************************************************************************)
\* Mutants: unsigned types mapped to the signed type of their width; an ENUM
\* given a byte as long as its size fits one.
TypeCodeByWidth(c) ==
  CASE c.type \in {"BOOLEAN", "TINYINT", "UTINYINT"} -> "byte"
    [] c.type \in {"SMALLINT", "USMALLINT"} -> "int"
    [] c.type = "INTEGER" -> "long"
    [] c.type = "FLOAT" -> "float"
    [] c.type = "VARCHAR" -> "strL"
    [] c.type = "ENUM" -> IF c.size <= 256 THEN "byte"
                          ELSE IF c.size <= 32740 THEN "int" ELSE "long"
    [] OTHER -> "double"

TypeCode(c) ==
  CASE c.type \in {"BOOLEAN", "TINYINT"} -> "byte"
    [] c.type \in {"UTINYINT", "SMALLINT"} -> "int"
    [] c.type \in {"USMALLINT", "INTEGER"} -> "long"
    [] c.type = "FLOAT" -> "float"
    [] c.type = "VARCHAR" -> "strL"
    [] c.type = "ENUM" -> IF c.size <= 100 THEN "byte"
                          ELSE IF c.size <= 32740 THEN "int" ELSE "long"
    [] OTHER -> "double"

Format(c) == [left |-> FALSE,
              code |-> CASE c.type = "DATE" -> "td"
                         [] c.type = "TIMESTAMP" -> "tc"
                         [] OTHER -> "g"]

\* The valid values of the integer type codes, and the code of missing.
MinValid(code) == CASE code = "byte" -> -127 [] code = "int" -> -32767
                    [] code = "long" -> -2147483647
MaxValid(code) == CASE code = "byte" -> 100 [] code = "int" -> 32740
                    [] code = "long" -> 2147483620
Floating == {"float", "double"}
MissingCode(code) == IF code \in Floating THEN MissingFrom ELSE MaxValid(code) + 1

\* static_cast of an ENUM index to the type code's width.
Narrow(code, i) ==
  CASE code = "byte" -> ((i + 128) % 256) - 128
    [] code = "int"  -> ((i + 32768) % 65536) - 32768
    [] code = "long" -> i

StoredInt(c, v) == IF c.type = "ENUM" THEN Narrow(TypeCode(c), v) ELSE v

Accepted(c, v) ==
  IF v = Null \/ TypeCode(c) \in Floating \cup {"strL"} THEN TRUE
  ELSE StoredInt(c, v) \in MinValid(TypeCode(c)) .. MaxValid(TypeCode(c))

\* C++ integer division truncates towards zero.
\* Mutant: it rounds away from zero.
QuotientAway(a, b) == IF a >= 0 THEN (a + b - 1) \div b ELSE -((b - 1 - a) \div b)

Quotient(a, b) == IF a >= 0 THEN a \div b ELSE -((-a) \div b)

\* A signed addition that overflows is undefined: the sum wraps, or is
\* carried out in a wider register.
DaySums(a, b) ==
  IF a + b \in Day THEN {a + b}
  ELSE {a + b, ((a + b + DayLimit + 1) % (2 * DayLimit + 2)) - DayLimit - 1}

Magnitude(i) == IF i >= 0 THEN i ELSE -i

\* The distance of two doubles at an integer of 64 bits.
Spacings == {1, 2, 4, 8, 16, 32, 64, 128, 256, 512, 1024, 2048}
Spacing(i) ==
  CHOOSE s \in Spacings : /\ Magnitude(i) \div s < Exact
                          /\ s > 1 => Magnitude(i) \div (s \div 2) >= Exact

\* static_cast<double> of an integer: the nearest, of two the one that is even.
ToDouble(i) ==
  LET below == i \div Spacing(i)
      past == 2 * (i % Spacing(i))
      up == past > Spacing(i) \/ (past = Spacing(i) /\ below % 2 = 1)
  IN  (IF up THEN below + 1 ELSE below) * Spacing(i)

Encodings(c, v) ==
  CASE v = Null -> {MissingCode(TypeCode(c))}
    [] v # Null /\ c.type = "DATE" -> DaySums(v, EpochOffset)
    [] v # Null /\ c.type = "TIMESTAMP" -> {ToDouble(Quotient(v, 1000) + TcOffset)}
    [] v # Null /\ c.type \in {"UINTEGER", "BIGINT", "UBIGINT"} -> {ToDouble(v)}
    [] OTHER -> {StoredInt(c, v)}

\* A cell is about to be copied, or the file is another program's.
Init ==
  /\ step = "start"
  /\ \/ column \in ColumnsTried /\ value \in ValuesOf(column)
     \/ column = Null /\ value = Null
  /\ cell = Null
  /\ result = Null

WriteCell ==
  /\ step = "start" /\ column # Null /\ column.type # "VARCHAR"
  /\ Accepted(column, value)
  /\ \E bits \in Encodings(column, value) :
       cell' = [code |-> TypeCode(column), format |-> Format(column), bits |-> bits]
  /\ step' = "written"
  /\ UNCHANGED <<column, value, result>>

TextCell(code, release, msf, bits, strls) ==
  [code |-> code, format |-> Format(Column("VARCHAR")), bits |-> bits,
   file |-> [release |-> release, msf |-> msf, strls |-> strls]]

\* v in 3 bytes, o in 5, least significant first.
CopiedRef(ref) == Low(ref.v, 3) \o Low(ref.o, 5)

\* A text goes into a strL with a NUL behind it; another text of the column
\* has a reference of its own.
WriteText ==
  /\ step = "start" /\ column # Null /\ column.type = "VARCHAR"
  /\ \E ref, other \in {r \in Refs : Fits(r, 3)}, text \in ValuesOf(column) :
       /\ ref # other /\ text \notin {Null, <<>>, value}
       /\ LET strl(r, s) == StrL(119, FALSE, r, FALSE, Append(s, 0))
              empty == value \in {Null, <<>>}
              strls == IF empty THEN {<<strl(other, text)>>}
                       ELSE {<<strl(other, text), strl(ref, value)>>,
                             <<strl(ref, value), strl(other, text)>>}
          IN  \E written \in strls :
                cell' = TextCell("strL", 119, FALSE,
                                 IF empty THEN NoRef ELSE CopiedRef(ref), written)
  /\ step' = "written"
  /\ UNCHANGED <<column, value, result>>

\* The value is out of range for the type code: the COPY throws.
RejectCell ==
  /\ step = "start" /\ column # Null
  /\ ~Accepted(column, value)
  /\ step' = "rejected"
  /\ UNCHANGED <<column, value, cell, result>>

\* A file another program wrote: a date format on any numeric type.
ForeignCells ==
  [code : {"byte", "int", "long"}, bits : {-1, 0, 100},
   format : [left : BOOLEAN, code : {"td", "d", "g"}]]
  \cup [code : Floating, bits : DoubleSamples \cup {DayLimit, DayLimit + 1},
        format : [left : BOOLEAN, code : {"td", "d", "g"}]]
  \cup [code : {"double"}, bits : {-1, TcOffset, MissingFrom - 1, MissingFrom},
        format : [left : BOOLEAN, code : {"tc"}]]

ForeignCell ==
  /\ step = "start" /\ column = Null
  /\ cell' \in ForeignCells
  /\ step' = "written"
  /\ UNCHANGED <<column, value, result>>

\* A strL of another program, text or binary, in a file with a second one;
\* value is what the cell means.
ForeignStrL ==
  /\ step = "start" /\ column = Null
  /\ \E release \in 117 .. 121, msf, binary \in BOOLEAN, text, second \in Texts :
       \E ref, other \in {r \in Refs : Fits(r, VBytes(release))} :
         /\ ref # other /\ text # second
         /\ LET stored == IF binary THEN text.latin1
                          ELSE Append(Encoded(release, text), 0)
                strls == {StrL(release, msf, ref, binary, stored),
                          StrL(release, msf, other, FALSE, Encoded(release, second))}
            IN  \E first \in strls, next \in strls :
                  /\ first # next
                  /\ cell' = TextCell("strL", release, msf,
                               RefBytes(msf, ref, VBytes(release)), <<first, next>>)
         /\ value' = IF binary THEN text.latin1 ELSE text.utf8
  /\ step' = "written"
  /\ UNCHANGED <<column, result>>

\* A str# field: full, or ended by a NUL with anything behind it.
ForeignStr ==
  /\ step = "start" /\ column = Null
  /\ \E release \in {113, 114, 115, 117, 118, 119, 120, 121}, text \in Texts,
        rest \in {<<>>, <<0>>, <<0, 65, 233>>} :
       /\ UntilNul(text.utf8) = text.utf8 /\ text.utf8 \o rest # <<>>
       /\ cell' = TextCell("str", release, FALSE, Encoded(release, text) \o rest, <<>>)
       /\ value' = text.utf8
  /\ step' = "written"
  /\ UNCHANGED <<column, result>>

-----------------------------------------------------------------------------
(***************************************************************************)
(* Reading: MapDtaType, DtaMissing and the cell decoding of ReadDtaScan    *)
(* without value labels.                                                   *)
(***************************************************************************)
\* IsDateFormat and IsDatetimeFormat look for "%td", "%d" and "%tc".
IsDateFormat(format) == ~format.left /\ format.code \in {"td", "d"}
IsDatetimeFormat(format) == ~format.left /\ format.code = "tc"

ReadType(c) ==
  CASE IsDateFormat(c.format) -> "DATE"
    [] ~IsDateFormat(c.format) /\ c.code = "double" ->
         IF IsDatetimeFormat(c.format) THEN "TIMESTAMP" ELSE "DOUBLE"
    [] ~IsDateFormat(c.format) /\ c.code = "float" -> "FLOAT"
    [] ~IsDateFormat(c.format) /\ c.code = "byte" -> "TINYINT"
    [] ~IsDateFormat(c.format) /\ c.code = "int" -> "SMALLINT"
    [] ~IsDateFormat(c.format) /\ c.code = "long" -> "INTEGER"
    [] ~IsDateFormat(c.format) /\ c.code \in {"str", "strL"} -> "VARCHAR"

\* Mutant: the smallest missing code counts as a value.
MissingFromNext(c) ==
  c.bits > MissingCode(c.code)

\* The sign bit of a float or double is masked before the comparison.
IsMissing(c) ==
  IF c.code \in Floating THEN c.bits >= MissingFrom \/ c.bits <= -MissingFrom
  ELSE c.bits > MaxValid(c.code)

\* The number is within the range of a 32-bit integer.
FitsInInt32(bits) == bits \in Day

\* The cast of a double to a 32-bit integer: undefined when it does not fit,
\* in which case the processor returns the smallest integer or saturates.
CastToInt32(bits) == IF FitsInInt32(bits) THEN {bits} ELSE {-DayLimit - 1, DayLimit}

\* The cast of a double to a 64-bit integer is as undefined when it does not fit.
CastToInt64(bits) == IF bits \in Int64 THEN {bits} ELSE {-MicroLimit - 1, MicroLimit}

\* The microseconds are kept in 64 bits: a product that overflows wraps.
InMicros(milliseconds) ==
  ((milliseconds * 1000 + MicroLimit + 1) % (2 * MicroLimit + 2)) - MicroLimit - 1

\* A cell that refers to no strL is NULL; a str# field never is.
TextDecoding(c) ==
  IF c.code = "strL" THEN ShownStrL(c.file, c.bits)
  ELSE ShownText(c.file.release, UntilNul(c.bits))

Decodings(c) ==
  CASE IsMissing(c) -> {Null}
    [] ~IsMissing(c) /\ ReadType(c) = "DATE" /\ c.code = "float" ->
         IF FitsInInt32(c.bits) THEN DaySums(c.bits, -EpochOffset) ELSE {Null}
    [] ~IsMissing(c) /\ ReadType(c) = "DATE" /\ c.code \notin Floating ->
         DaySums(c.bits, -EpochOffset)
    [] ~IsMissing(c) /\ ReadType(c) = "DATE" /\ c.code = "double" ->
         UNION {DaySums(d, -EpochOffset) : d \in CastToInt32(c.bits)}
    [] ~IsMissing(c) /\ ReadType(c) = "TIMESTAMP" ->
         {InMicros(m - TcOffset) : m \in CastToInt64(c.bits)}
    [] OTHER -> {c.bits}

ReadCell ==
  /\ step = "written"
  /\ result' \in IF cell.code \in {"str", "strL"} THEN {TextDecoding(cell)}
                 ELSE Decodings(cell)
  /\ step' = "read"
  /\ UNCHANGED <<column, value, cell>>

Over ==
  /\ step \in {"rejected", "read"}
  /\ UNCHANGED vars

Next ==
  \/ WriteCell \/ WriteText \/ RejectCell
  \/ ForeignCell \/ ForeignStrL \/ ForeignStr
  \/ ReadCell \/ Over

Spec == Init /\ [][Next]_vars

-----------------------------------------------------------------------------
RoundTripped == step = "read" /\ column # Null

(***************************************************************************)
(* What COPY accepts comes back unchanged and NULL comes back as NULL,     *)
(* through every widening, narrowing and missing value code.  Excepted are *)
(* dates whose day number overflows 32 bits when the epoch is moved,       *)
(* floats and doubles so large that they are missing values in Stata,      *)
(* which come back as NULL, integers that a double does not hold, which    *)
(* come back as one of its neighbours, the nearer one, and the empty text, *)
(* which is NULL in the file.                                              *)
(***************************************************************************)
ValuesSurvive ==
  RoundTripped /\ ~(column.type = "TIMESTAMP" /\ value # Null) =>
    \/ result = value
    \/ column.type = "DATE" /\ value + EpochOffset > DayLimit
    \/ column.type = "VARCHAR" /\ value = <<>> /\ result = Null
    \/ /\ column.type \in {"FLOAT", "DOUBLE"} /\ result = Null
       /\ value >= MissingFrom \/ value <= -MissingFrom
    \/ /\ column.type \in {"BIGINT", "UBIGINT"} /\ Magnitude(value) > Exact /\ result # Null
       /\ 2 * Magnitude(result - value) <= Spacing(value)

(***************************************************************************)
(* A timestamp loses its microseconds: it moves towards 1970 by less than  *)
(* a millisecond.  So far from 1960 that doubles hold no odd milliseconds, *)
(* it moves by less than two, either way; but the infinities, and what is  *)
(* less than a millisecond away from them, may overflow 64 bits in the     *)
(* multiplication and come back with the other sign.                       *)
(***************************************************************************)
TimestampsKeepMilliseconds ==
  RoundTripped /\ column.type = "TIMESTAMP" /\ value # Null =>
    /\ result # Null
    /\ IF Magnitude(Quotient(value, 1000) + TcOffset) <= Exact
       THEN /\ value >= 0 => result <= value /\ value - result < 1000
            /\ value < 0 => result >= value /\ result - value < 1000
       ELSE \/ Magnitude(result - value) < 2000
            \/ Magnitude(value) > MicroLimit - 1000

(***************************************************************************)
(* A text of another program's file is shown in its own characters: in     *)
(* every format and byte order the reference in a cell finds its own strL  *)
(* and no other, Latin-1 becomes UTF-8 where the format has Latin-1 and    *)
(* only there, and neither a NUL, nor what is behind one, is shown.  A     *)
(* binary strL keeps every byte.                                           *)
(***************************************************************************)
TextsAreShown ==
  step = "read" /\ column = Null /\ cell.code \in {"str", "strL"} => result = value

(***************************************************************************)
(* COPY rejects a value only when a wider type would have taken it: the    *)
(* cast its message advises cures the error, and no value of an unsigned,  *)
(* BOOLEAN or ENUM column is ever rejected.                                *)
(***************************************************************************)
AdvisedType(type) ==
  CASE type = "TINYINT" -> "SMALLINT" [] type = "SMALLINT" -> "INTEGER"
    [] type = "INTEGER" -> "BIGINT"

RejectionHasRemedy ==
  step = "rejected" => /\ column.type \in {"TINYINT", "SMALLINT", "INTEGER"}
                       /\ Accepted(Column(AdvisedType(column.type)), value)

(***************************************************************************)
(* The comment on IsMissingDouble: a missing double is one above           *)
(* +1.fffffffffffffX+3fe, so no negative double reads as NULL.             *)
(***************************************************************************)
NegativeDoublesAreValues ==
  step = "read" /\ cell.code = "double" /\ cell.bits < 0 => result # Null

(***************************************************************************)
(* The comment in IsDateFormat: %td, %d, %-td and %-d are date formats.    *)
(***************************************************************************)
DateFormatsAreDates ==
  step = "written" /\ cell.format.code \in {"td", "d"} => ReadType(cell) = "DATE"

(***************************************************************************)
(* The comment on FitsInInt32: no double outside the range of a 32-bit     *)
(* integer is cast to one to make a date of it.                            *)
(***************************************************************************)
CastsAreDefined ==
  step = "read" /\ ReadType(cell) = "DATE" /\ result # Null =>
    FitsInInt32(cell.bits)
=============================================================================
