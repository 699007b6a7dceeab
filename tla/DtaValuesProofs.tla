-------------------------- MODULE DtaValuesProofs --------------------------
(***************************************************************************)
(* Cells, for every value of every type: what COPY accepts comes back as   *)
(* it was, a timestamp keeps its milliseconds, and what COPY rejects is    *)
(* accepted after the cast that its message advises.  Texts of another     *)
(* program's file are shown in their own characters.                       *)
(***************************************************************************)
EXTENDS DtaValues, ProofLemmas

\* The last position of an ENUM is a valid long: with more texts it would be a
\* missing value.
EnumsFit == \A n \in EnumSizes : n <= 2147483621

-----------------------------------------------------------------------------
(***************************************************************************)
(* Types.                                                                  *)
(***************************************************************************)
LEMMA ConstantFacts ==
  /\ Null \notin Int /\ Null \notin Seq(0 .. 255)
  /\ IntSamples \subseteq Int /\ DoubleSamples \subseteq Int /\ MicroSamples \subseteq Int
  /\ \A i \in MicroSamples : -MicroLimit <= i /\ i <= MicroLimit
  /\ MicroLimit \in Nat /\ EpochOffset \in Nat \ {0} /\ TcOffset \in Nat
  /\ DayLimit \in Nat /\ Exact \in Nat \ {0} /\ MissingFrom \in Nat
  /\ EnumSizes \subseteq Nat
  BY ValuesAssumption

IntegerTypes == {"BOOLEAN", "TINYINT", "UTINYINT", "SMALLINT", "USMALLINT", "INTEGER",
                 "ENUM"}
NumericCodes == {"byte", "int", "long", "float", "double"}

LEMMA ColumnFacts ==
  ASSUME NEW c \in ColumnsTried
  PROVE  /\ c.type \in PlainTypes \cup {"ENUM"}
         /\ c.type = "ENUM" => c.size \in EnumSizes /\ c.size \in Nat
<1>1. /\ c.type \in PlainTypes \cup {"ENUM"}
      /\ c.type = "ENUM" => c.size \in EnumSizes
  BY DEF ColumnsTried, Column, PlainTypes
<1>2. EnumSizes \subseteq Nat
  BY ConstantFacts
<1> QED
  BY <1>1, <1>2

LEMMA CodeFacts ==
  ASSUME NEW c \in ColumnsTried
  PROVE  /\ c.type # "VARCHAR" => TypeCode(c) \in NumericCodes
         /\ c.type \in IntegerTypes => TypeCode(c) \in {"byte", "int", "long"}
         /\ c.type = "FLOAT" => TypeCode(c) = "float"
         /\ c.type \in {"UINTEGER", "BIGINT", "UBIGINT", "DOUBLE", "DATE", "TIMESTAMP"}
              => TypeCode(c) = "double"
         /\ c.type = "VARCHAR" => TypeCode(c) = "strL"
  BY ColumnFacts, SMT DEF TypeCode, NumericCodes, IntegerTypes, PlainTypes

LEMMA RangeFacts ==
  /\ MinValid("byte") = -127 /\ MaxValid("byte") = 100
  /\ MinValid("int") = -32767 /\ MaxValid("int") = 32740
  /\ MinValid("long") = -2147483647 /\ MaxValid("long") = 2147483620
<1>1. MinValid("byte") = -127 /\ MinValid("int") = -32767 /\ MinValid("long") = -2147483647
  BY SMT DEF MinValid
<1>2. MaxValid("byte") = 100 /\ MaxValid("int") = 32740 /\ MaxValid("long") = 2147483620
  BY SMT DEF MaxValid
<1> QED
  BY <1>1, <1>2

\* The integer types and their values.
LEMMA IntegerFacts ==
  ASSUME NEW c \in ColumnsTried, c.type \in IntegerTypes, NEW v \in ValuesOf(c), v # Null
  PROVE  /\ v \in Int
         /\ c.type = "BOOLEAN" => v >= 0 /\ v <= 1
         /\ c.type = "TINYINT" => v >= -128 /\ v <= 127
         /\ c.type = "UTINYINT" => v >= 0 /\ v <= 255
         /\ c.type = "SMALLINT" => v >= -32768 /\ v <= 32767
         /\ c.type = "USMALLINT" => v >= 0 /\ v <= 65535
         /\ c.type = "ENUM" => v >= 0 /\ v < c.size
<1>1. v \in IntegersOf(c)
  BY SMT DEF ValuesOf, IntegerTypes
<1>2. IntSamples \subseteq Int
  BY ConstantFacts
<1>3. v \in Int
  BY <1>1, <1>2, SMT DEF IntegersOf, IntegerTypes
<1>4. c.type = "BOOLEAN" => v >= 0 /\ v <= 1
  BY <1>1, SMT DEF IntegersOf
<1>5. c.type = "TINYINT" => v >= -128 /\ v <= 127
  BY <1>1, SMT DEF IntegersOf
<1>6. c.type = "UTINYINT" => v >= 0 /\ v <= 255
  BY <1>1, SMT DEF IntegersOf
<1>7. c.type = "SMALLINT" => v >= -32768 /\ v <= 32767
  BY <1>1, SMT DEF IntegersOf
<1>8. c.type = "USMALLINT" => v >= 0 /\ v <= 65535
  BY <1>1, SMT DEF IntegersOf
<1>9. c.type = "ENUM" => v >= 0 /\ v < c.size
  BY <1>1, SMT DEF IntegersOf
<1> QED
  BY <1>3, <1>4, <1>5, <1>6, <1>7, <1>8, <1>9, SMT

\* An ENUM position is stored as it is.
LEMMA StoredAsIs ==
  ASSUME NEW c \in ColumnsTried, c.type \in IntegerTypes, NEW v \in ValuesOf(c), v # Null
  PROVE  StoredInt(c, v) = v
<1>1. CASE c.type # "ENUM"
  BY <1>1, SMT DEF StoredInt
<1>2. CASE c.type = "ENUM"
  <2>1. v \in Int /\ v >= 0 /\ v < c.size /\ c.size \in Nat
    <3>1. c.size \in Nat
      BY <1>2, ColumnFacts, Zenon
    <3>2. v \in Int /\ v >= 0 /\ v < c.size
      BY <1>2, IntegerFacts, SMT
    <3> QED
      BY <3>1, <3>2
  <2>2. TypeCode(c) = IF c.size <= 100 THEN "byte"
                      ELSE IF c.size <= 32740 THEN "int" ELSE "long"
    BY <1>2, SMT DEF TypeCode
  <2>3. CASE c.size <= 100
    BY <1>2, <2>1, <2>2, <2>3, SMT DEF StoredInt, Narrow
  <2>4. CASE c.size > 100 /\ c.size <= 32740
    BY <1>2, <2>1, <2>2, <2>4, SMT DEF StoredInt, Narrow
  <2>5. CASE c.size > 32740
    BY <1>2, <2>1, <2>2, <2>5, SMT DEF StoredInt, Narrow
  <2> QED
    BY <2>1, <2>3, <2>4, <2>5
<1> QED
  BY <1>1, <1>2

-----------------------------------------------------------------------------
(***************************************************************************)
(* What COPY rejects.                                                      *)
(***************************************************************************)
LEMMA InRange ==
  ASSUME NEW v \in Int, NEW lo \in Int, NEW hi \in Int
  PROVE  v \in lo .. hi <=> lo <= v /\ v <= hi
  OBVIOUS

\* An integer is accepted when it is valid for its type code.
LEMMA AcceptedFacts ==
  ASSUME NEW c, TypeCode(c) \in {"byte", "int", "long"}, NEW v \in Int, v # Null,
         StoredInt(c, v) = v
  PROVE  Accepted(c, v) <=> MinValid(TypeCode(c)) <= v /\ v <= MaxValid(TypeCode(c))
<1>1. Accepted(c, v) <=> v \in MinValid(TypeCode(c)) .. MaxValid(TypeCode(c))
  BY Zenon DEF Accepted, Floating
<1>2. MinValid(TypeCode(c)) \in Int /\ MaxValid(TypeCode(c)) \in Int
  BY RangeFacts, SMT
<1> QED
  BY <1>1, <1>2, InRange, Zenon

LEMMA RejectedHasRemedy ==
  ASSUME EnumsFit, NEW c \in ColumnsTried, NEW v \in ValuesOf(c), ~ Accepted(c, v)
  PROVE  /\ c.type \in {"TINYINT", "SMALLINT", "INTEGER"}
         /\ Accepted(Column(AdvisedType(c.type)), v)
<1> DEFINE code == TypeCode(c)
<1>1. v # Null /\ code \notin Floating \cup {"strL"}
  BY DEF Accepted
<1>2. c.type \in IntegerTypes
  BY <1>1, ColumnFacts, CodeFacts DEF IntegerTypes, PlainTypes, Floating
<1>3. StoredInt(c, v) = v /\ v \in Int
  BY <1>1, <1>2, StoredAsIs, IntegerFacts, SMT
<1>4. code \in {"byte", "int", "long"}
  BY <1>2, CodeFacts, Zenon
<1>5. ~ (MinValid(code) <= v /\ v <= MaxValid(code))
  BY <1>1, <1>3, <1>4, AcceptedFacts, SMT
<1> HIDE DEF code
<1>6. c.type # "BOOLEAN"
  <2>1. SUFFICES ASSUME c.type = "BOOLEAN" PROVE FALSE
    OBVIOUS
  <2>2. code = "byte"
    BY <2>1, SMT DEF TypeCode, code
  <2>3. v >= 0 /\ v <= 1
    BY <1>1, <1>2, <2>1, IntegerFacts, SMT
  <2> QED
    BY <1>3, <1>5, <2>2, <2>3, RangeFacts, SMT
<1>7. c.type # "UTINYINT"
  <2>1. SUFFICES ASSUME c.type = "UTINYINT" PROVE FALSE
    OBVIOUS
  <2>2. code = "int"
    BY <2>1, SMT DEF TypeCode, code
  <2>3. v >= 0 /\ v <= 255
    BY <1>1, <1>2, <2>1, IntegerFacts, SMT
  <2> QED
    BY <1>3, <1>5, <2>2, <2>3, RangeFacts, SMT
<1>8. c.type # "USMALLINT"
  <2>1. SUFFICES ASSUME c.type = "USMALLINT" PROVE FALSE
    OBVIOUS
  <2>2. code = "long"
    BY <2>1, SMT DEF TypeCode, code
  <2>3. v >= 0 /\ v <= 65535
    BY <1>1, <1>2, <2>1, IntegerFacts, SMT
  <2> QED
    BY <1>3, <1>5, <2>2, <2>3, RangeFacts, SMT
<1>9. c.type # "ENUM"
  <2>1. SUFFICES ASSUME c.type = "ENUM" PROVE FALSE
    OBVIOUS
  <2>2. v >= 0 /\ v < c.size
    BY <1>1, <1>2, <2>1, IntegerFacts, SMT
  <2>3. c.size \in EnumSizes /\ c.size \in Nat
    BY <2>1, ColumnFacts, Zenon
  <2>4. c.size <= 2147483621
    BY <2>3, SMT DEF EnumsFit
  <2>5. code = IF c.size <= 100 THEN "byte"
               ELSE IF c.size <= 32740 THEN "int" ELSE "long"
    BY <2>1, SMT DEF TypeCode, code
  <2> QED
    BY <1>3, <1>5, <2>2, <2>3, <2>4, <2>5, RangeFacts, SMT
<1>10. c.type \in {"TINYINT", "SMALLINT", "INTEGER"}
  BY <1>2, <1>6, <1>7, <1>8, <1>9 DEF IntegerTypes
<1> DEFINE d == Column(AdvisedType(c.type))
<1>11. d.type = AdvisedType(c.type)
  BY DEF Column
<1> HIDE DEF d
<1>12. Accepted(d, v)
  <2>1. CASE c.type = "TINYINT"
    <3>1. d.type = "SMALLINT"
      BY <1>11, <2>1, SMT DEF AdvisedType
    <3>2. TypeCode(d) = "int" /\ StoredInt(d, v) = v
      BY <3>1, SMT DEF TypeCode, StoredInt
    <3>3. v >= -128 /\ v <= 127
      BY <1>1, <1>2, <2>1, IntegerFacts, SMT
    <3>4. MinValid(TypeCode(d)) <= v /\ v <= MaxValid(TypeCode(d))
      BY <1>3, <3>2, <3>3, RangeFacts, SMT
    <3> QED
      BY <1>1, <1>3, <3>2, <3>4, AcceptedFacts, SMT
  <2>2. CASE c.type = "SMALLINT"
    <3>1. d.type = "INTEGER"
      BY <1>11, <2>2, SMT DEF AdvisedType
    <3>2. TypeCode(d) = "long" /\ StoredInt(d, v) = v
      BY <3>1, SMT DEF TypeCode, StoredInt
    <3>3. v >= -32768 /\ v <= 32767
      BY <1>1, <1>2, <2>2, IntegerFacts, SMT
    <3>4. MinValid(TypeCode(d)) <= v /\ v <= MaxValid(TypeCode(d))
      BY <1>3, <3>2, <3>3, RangeFacts, SMT
    <3> QED
      BY <1>1, <1>3, <3>2, <3>4, AcceptedFacts, SMT
  <2>3. CASE c.type = "INTEGER"
    <3>1. d.type = "BIGINT"
      BY <1>11, <2>3, SMT DEF AdvisedType
    <3>2. TypeCode(d) = "double"
      BY <3>1, SMT DEF TypeCode
    <3> QED
      BY <3>2 DEF Accepted, Floating
  <2> QED
    BY <1>10, <2>1, <2>2, <2>3
<1> QED
  BY <1>10, <1>12, Zenon DEF d

-----------------------------------------------------------------------------
(***************************************************************************)
(* Integers as doubles.                                                    *)
(***************************************************************************)
LEMMA Division ==
  ASSUME NEW a \in Int, NEW b \in Nat \ {0}
  PROVE  /\ a \div b \in Int /\ a % b \in 0 .. b - 1
         /\ a = b * (a \div b) + (a % b)
<1>1. a \div b \in Int /\ a % b \in 0 .. b - 1
  BY SMT
<1>2. a = b * (a \div b) + (a % b)
  BY Z3
<1> QED
  BY <1>1, <1>2

LEMMA SpacingFacts ==
  ASSUME NEW i \in Int, Magnitude(i) < 2 * (1024 * Exact)
  PROVE  /\ Spacing(i) \in Spacings
         /\ Magnitude(i) \div Spacing(i) < Exact
         /\ Spacing(i) > 1 => Magnitude(i) \div (Spacing(i) \div 2) >= Exact
<1> DEFINE m == Magnitude(i)
           Suits(s) == /\ m \div s < Exact
                       /\ s > 1 => m \div (s \div 2) >= Exact
<1>1. m \in Nat /\ Exact \in Nat
  BY ValuesAssumption DEF Magnitude
<1> HIDE DEF m
<1>2. \E s \in Spacings : Suits(s)
  <2>1. m \div 2048 < Exact
    BY <1>1 DEF m
  <2> DEFINE S == {s \in Spacings : m \div s < Exact}
  <2>2. S \subseteq Nat /\ 2048 \in S
    BY <2>1 DEF Spacings
  <2>3. PICK s \in S : \A r \in S : s <= r
    <3> HIDE DEF S
    <3>1. S # {} /\ S \subseteq Nat
      BY <2>2
    <3> QED
      BY <3>1, LeastExists, Zenon
  <2>4. s \in Spacings /\ m \div s < Exact
    BY <2>3
  <2>5. s > 1 => s \div 2 \in Spacings /\ s \div 2 < s
    BY <2>4 DEF Spacings
  <2>6. ASSUME s > 1 PROVE m \div (s \div 2) >= Exact
    <3> DEFINE h == s \div 2
    <3>1. h \in Nat \ {0} /\ h \in Spacings /\ h < s
      BY <2>4, <2>5, <2>6 DEF Spacings
    <3>2. ~ s <= h
      BY <2>4, <3>1 DEF Spacings
    <3>3. h \notin S
      BY <2>3, <3>2
    <3>4. ~ m \div h < Exact
      BY <3>1, <3>3
    <3> HIDE DEF h
    <3>5. m \div h \in Int
      BY <1>1, <3>1, Division
    <3>6. m \div h >= Exact
      BY <1>1, <3>4, <3>5
    <3> QED
      BY <3>6 DEF h
  <2> QED
    BY <2>4, <2>6
<1>3. Spacing(i) = CHOOSE s \in Spacings : Suits(s)
  BY Zenon DEF Spacing, m
<1> HIDE DEF Suits
<1>4. Spacing(i) \in Spacings /\ Suits(Spacing(i))
  BY <1>2, <1>3, Zenon
<1> QED
  BY <1>4, Zenon DEF Suits, m

\* The nearest double is no farther than half the spacing.
LEMMA ToDoubleNear ==
  ASSUME NEW i \in Int, NEW s \in Nat \ {0}, s = Spacing(i)
  PROVE  /\ ToDouble(i) \in Int
         /\ 2 * (ToDouble(i) - i) <= s /\ 2 * (i - ToDouble(i)) <= s
         /\ i % s = 0 => ToDouble(i) = i
<1> DEFINE below == i \div s
           rest == i % s
           up == 2 * rest > s \/ (2 * rest = s /\ below % 2 = 1)
<1>1. below \in Int /\ rest \in 0 .. s - 1 /\ i = s * below + rest
  BY Division
<1>2. ToDouble(i) = (IF up THEN below + 1 ELSE below) * s
  BY Zenon DEF ToDouble
<1> HIDE DEF below, rest
<1>3. below * s = s * below /\ (below + 1) * s = s * below + s /\ s * below \in Int
  BY <1>1, SMT
<1>4. CASE up
  <2>1. ToDouble(i) = s * below + s
    BY <1>2, <1>3, <1>4
  <2>2. 2 * rest >= s
    BY <1>1, <1>4
  <2> HIDE DEF up
  <2> DEFINE p == s * below
  <2> HIDE DEF p
  <2>3. p \in Int /\ i = p + rest /\ ToDouble(i) = p + s
    BY <1>1, <1>3, <2>1 DEF p
  <2> QED
    BY <1>1, <2>2, <2>3 DEF rest
<1>5. CASE ~ up
  <2>1. ToDouble(i) = s * below
    BY <1>2, <1>3, <1>5
  <2>2. 2 * rest <= s
    BY <1>1, <1>5
  <2> HIDE DEF up
  <2> DEFINE p == s * below
  <2> HIDE DEF p
  <2>3. p \in Int /\ i = p + rest /\ ToDouble(i) = p
    BY <1>1, <1>3, <2>1 DEF p
  <2> QED
    BY <1>1, <2>2, <2>3 DEF rest
<1> QED
  BY <1>4, <1>5

\* A double holds the integers up to 2^53.
LEMMA ToDoubleExact ==
  ASSUME NEW i \in Int, Magnitude(i) <= Exact
  PROVE  ToDouble(i) = i
<1>1. Exact \in Nat \ {0} /\ Exact % 2 = 0 /\ Magnitude(i) < 2 * (1024 * Exact)
  BY ValuesAssumption DEF Magnitude
<1> DEFINE s == Spacing(i)
<1>2. s \in Spacings /\ (s > 1 => Magnitude(i) \div (s \div 2) >= Exact)
  BY <1>1, SpacingFacts
<1> HIDE DEF s
<1>3. Magnitude(i) \in Nat
  BY DEF Magnitude
<1>4. CASE s = 1
  <2>1. i % 1 = 0
    OBVIOUS
  <2> QED
    BY <1>4, <2>1, ToDoubleNear DEF s
<1>5. CASE s = 2
  <2>1. Magnitude(i) >= Exact
    BY <1>2, <1>3, <1>5
  <2>2. Magnitude(i) = Exact
    BY <1>1, <1>3, <2>1
  <2>3. i % 2 = 0
    BY <1>1, <2>2 DEF Magnitude
  <2> QED
    BY <1>5, <2>3, ToDoubleNear DEF s
<1>6. s = 1 \/ s = 2
  BY <1>1, <1>2, <1>3 DEF Spacings
<1> QED
  BY <1>4, <1>5, <1>6

-----------------------------------------------------------------------------
(***************************************************************************)
(* What is right for a value to come back as.                              *)
(***************************************************************************)
Survives(c, v, r) ==
  \/ r = v
  \/ c.type = "DATE" /\ v + EpochOffset > DayLimit
  \/ c.type = "VARCHAR" /\ v = <<>> /\ r = Null
  \/ /\ c.type \in {"FLOAT", "DOUBLE"} /\ r = Null
     /\ v >= MissingFrom \/ v <= -MissingFrom
  \/ /\ c.type \in {"BIGINT", "UBIGINT"} /\ Magnitude(v) > Exact /\ r # Null
     /\ 2 * Magnitude(r - v) <= Spacing(v)

KeepsMilliseconds(v, r) ==
  /\ r # Null
  /\ IF Magnitude(Quotient(v, 1000) + TcOffset) <= Exact
     THEN /\ v >= 0 => r <= v /\ v - r < 1000
          /\ v < 0 => r >= v /\ r - v < 1000
     ELSE \/ Magnitude(r - v) < 2000
          \/ Magnitude(v) > MicroLimit - 1000

Right(c, v, r) ==
  IF c.type = "TIMESTAMP" /\ v # Null THEN KeepsMilliseconds(v, r) ELSE Survives(c, v, r)

-----------------------------------------------------------------------------
(***************************************************************************)
(* The cell COPY writes, and what read_dta makes of it.                    *)
(***************************************************************************)
CellOf(c, bits) == [code |-> TypeCode(c), format |-> Format(c), bits |-> bits]

LEMMA CellFields ==
  ASSUME NEW c, NEW bits
  PROVE  /\ CellOf(c, bits).code = TypeCode(c) /\ CellOf(c, bits).format = Format(c)
         /\ CellOf(c, bits).bits = bits
  BY DEF CellOf

LEMMA FormatFacts ==
  ASSUME NEW c
  PROVE  /\ Format(c).left = FALSE
         /\ c.type = "DATE" => Format(c).code = "td"
         /\ c.type = "TIMESTAMP" => Format(c).code = "tc"
         /\ c.type \notin {"DATE", "TIMESTAMP"} => Format(c).code = "g"
  BY SMT DEF Format

LEMMA ReadTypeFacts ==
  ASSUME NEW c \in ColumnsTried, c.type # "VARCHAR", NEW bits
  PROVE  /\ c.type = "DATE" => ReadType(CellOf(c, bits)) = "DATE"
         /\ c.type = "TIMESTAMP" => ReadType(CellOf(c, bits)) = "TIMESTAMP"
         /\ c.type \notin {"DATE", "TIMESTAMP"}
              => ReadType(CellOf(c, bits)) \notin {"DATE", "TIMESTAMP"}
<1> DEFINE x == CellOf(c, bits)
<1>1. x.code = TypeCode(c) /\ x.format = Format(c) /\ TypeCode(c) \in NumericCodes
  BY CellFields, CodeFacts
<1>2. c.type = "TIMESTAMP" => TypeCode(c) = "double"
  BY CodeFacts
<1> HIDE DEF x
<1> DEFINE format == Format(c)
<1> HIDE DEF format
<1>3. /\ IsDateFormat(x.format) <=> c.type = "DATE"
      /\ IsDatetimeFormat(x.format) <=> c.type = "TIMESTAMP"
  <2>1. /\ ~ format.left
        /\ c.type = "DATE" => format.code = "td"
        /\ c.type = "TIMESTAMP" => format.code = "tc"
        /\ c.type \notin {"DATE", "TIMESTAMP"} => format.code = "g"
    BY FormatFacts, Zenon DEF format
  <2>2. x.format = format
    BY <1>1 DEF format
  <2> QED
    BY <2>1, <2>2 DEF IsDateFormat, IsDatetimeFormat
<1>4. CASE c.type = "DATE"
  BY <1>3, <1>4, SMT DEF ReadType, x
<1>5. CASE c.type = "TIMESTAMP"
  BY <1>1, <1>2, <1>3, <1>5, SMT DEF ReadType, x
<1>6. CASE c.type \notin {"DATE", "TIMESTAMP"}
  BY <1>1, <1>3, <1>6, SMT DEF ReadType, NumericCodes, x
<1> QED
  BY <1>4, <1>5, <1>6

LEMMA DecodingFacts ==
  ASSUME NEW x
  PROVE  /\ IsMissing(x) => Decodings(x) = {Null}
         /\ ~ IsMissing(x) /\ ReadType(x) \notin {"DATE", "TIMESTAMP"}
              => Decodings(x) = {x.bits}
         /\ ~ IsMissing(x) /\ ReadType(x) = "DATE" /\ x.code = "double"
              => Decodings(x) = UNION {DaySums(d, -EpochOffset) : d \in CastToInt32(x.bits)}
         /\ ~ IsMissing(x) /\ ReadType(x) = "TIMESTAMP"
              => Decodings(x) = {InMicros(m - TcOffset) : m \in CastToInt64(x.bits)}
<1>1. CASE IsMissing(x)
  BY <1>1, SMT DEF Decodings
<1>2. CASE ~ IsMissing(x) /\ ReadType(x) \notin {"DATE", "TIMESTAMP"}
  BY <1>2, SMT DEF Decodings
<1>3. CASE ~ IsMissing(x) /\ ReadType(x) = "DATE"
  BY <1>3, SMT DEF Decodings, Floating
<1>4. CASE ~ IsMissing(x) /\ ReadType(x) = "TIMESTAMP"
  BY <1>4, SMT DEF Decodings
<1> QED
  BY <1>1, <1>2, <1>3, <1>4

\* A NULL is the missing value of its type.
LEMMA NullReadsBack ==
  ASSUME NEW c \in ColumnsTried, c.type # "VARCHAR", NEW bits \in Encodings(c, Null)
  PROVE  Decodings(CellOf(c, bits)) = {Null}
<1> DEFINE x == CellOf(c, bits)
<1>1. bits = MissingCode(TypeCode(c))
  BY SMT DEF Encodings
<1>2. x.code = TypeCode(c) /\ x.bits = bits /\ TypeCode(c) \in NumericCodes
  BY CellFields, CodeFacts
<1> HIDE DEF x
<1>3. CASE TypeCode(c) \in Floating
  <2>1. bits = MissingFrom /\ MissingFrom \in Nat
    BY <1>1, <1>3, ConstantFacts DEF MissingCode
  <2> QED
    BY <1>2, <1>3, <2>1, DecodingFacts DEF IsMissing, x
<1>4. CASE TypeCode(c) \notin Floating
  <2>1. bits = MaxValid(TypeCode(c)) + 1 /\ MaxValid(TypeCode(c)) \in Int
    BY <1>1, <1>2, <1>4, RangeFacts, SMT DEF MissingCode, NumericCodes, Floating
  <2>2. IsMissing(x)
    BY <1>2, <1>4, <2>1, SMT DEF IsMissing
  <2> QED
    BY <2>2, DecodingFacts DEF x
<1> QED
  BY <1>3, <1>4

\* What fits its integer type is no missing value of it.
LEMMA IntegerReadsBack ==
  ASSUME NEW c \in ColumnsTried, c.type \in IntegerTypes, NEW v \in ValuesOf(c),
         v # Null, Accepted(c, v), NEW bits \in Encodings(c, v)
  PROVE  Decodings(CellOf(c, bits)) = {v}
<1> DEFINE x == CellOf(c, bits)
           code == TypeCode(c)
<1>1. StoredInt(c, v) = v /\ v \in Int
  BY StoredAsIs, IntegerFacts, SMT
<1>2. bits = v
  BY <1>1, SMT DEF Encodings, IntegerTypes
<1>3. code \in {"byte", "int", "long"} /\ c.type # "VARCHAR"
      /\ c.type \notin {"DATE", "TIMESTAMP"}
  BY CodeFacts DEF IntegerTypes
<1>4. x.code = code /\ x.bits = v /\ ReadType(x) \notin {"DATE", "TIMESTAMP"}
  BY <1>2, <1>3, CellFields, ReadTypeFacts
<1> HIDE DEF x, code
<1>5. v \in MinValid(code) .. MaxValid(code)
  BY <1>1, <1>3, SMT DEF Accepted, Floating, code
<1>6. MaxValid(code) \in Int /\ MinValid(code) \in Int
  BY <1>3, RangeFacts, SMT
<1>7. ~ IsMissing(x)
  BY <1>1, <1>3, <1>4, <1>5, <1>6, SMT DEF IsMissing, Floating
<1> QED
  BY <1>4, <1>7, DecodingFacts DEF x

\* A float or double is missing from MissingFrom on, in either direction.
LEMMA FloatReadsBack ==
  ASSUME NEW c \in ColumnsTried, c.type \in {"FLOAT", "DOUBLE"}, NEW v \in ValuesOf(c),
         v # Null, NEW bits \in Encodings(c, v), NEW r \in Decodings(CellOf(c, bits))
  PROVE  r = v \/ (r = Null /\ (v >= MissingFrom \/ v <= -MissingFrom))
<1> DEFINE x == CellOf(c, bits)
<1>1. bits = v
  BY SMT DEF Encodings, StoredInt
<1>2. TypeCode(c) \in Floating /\ c.type \notin {"VARCHAR", "DATE", "TIMESTAMP"}
  BY CodeFacts DEF Floating
<1>3. x.code \in Floating /\ x.bits = v /\ ReadType(x) \notin {"DATE", "TIMESTAMP"}
  BY <1>1, <1>2, CellFields, ReadTypeFacts
<1> HIDE DEF x
<1>4. r \in Decodings(x)
  BY DEF x
<1>5. CASE IsMissing(x)
  BY <1>3, <1>4, <1>5, DecodingFacts DEF IsMissing
<1>6. CASE ~ IsMissing(x)
  BY <1>3, <1>4, <1>6, DecodingFacts
<1> QED
  BY <1>5, <1>6

\* A date that the shift of the epoch does not carry out of 32 bits.
LEMMA DateReadsBack ==
  ASSUME NEW c \in ColumnsTried, c.type = "DATE", NEW v \in Day,
         v + EpochOffset <= DayLimit, v # Null,
         NEW bits \in Encodings(c, v), NEW r \in Decodings(CellOf(c, bits))
  PROVE  r = v
<1> DEFINE x == CellOf(c, bits)
<1>1. /\ EpochOffset \in Nat \ {0} /\ DayLimit \in Nat /\ MissingFrom \in Nat
      /\ MissingFrom > DayLimit + EpochOffset
  BY ValuesAssumption, ConstantFacts
<1>2. v \in Int /\ v >= -DayLimit - 1 /\ v <= DayLimit
  BY <1>1 DEF Day
<1>3. v + EpochOffset \in Day
  BY <1>1, <1>2 DEF Day
<1>4. bits = v + EpochOffset
  <2>1. bits \in DaySums(v, EpochOffset)
    BY SMT DEF Encodings
  <2> QED
    BY <1>3, <2>1 DEF DaySums
<1>5. x.code = "double" /\ x.bits = bits /\ ReadType(x) = "DATE"
  <2>1. TypeCode(c) = "double" /\ c.type # "VARCHAR"
    BY CodeFacts
  <2> QED
    BY <2>1, CellFields, ReadTypeFacts
<1> HIDE DEF x
<1>6. ~ IsMissing(x)
  BY <1>1, <1>2, <1>4, <1>5, SMT DEF IsMissing, Floating
<1>7. CastToInt32(bits) = {bits}
  BY <1>3, <1>4 DEF CastToInt32, FitsInInt32
<1>8. Decodings(x) = DaySums(bits, -EpochOffset)
  <2>1. Decodings(x) = UNION {DaySums(d, -EpochOffset) : d \in {bits}}
    BY <1>5, <1>6, <1>7, DecodingFacts
  <2> QED
    BY <2>1
<1>9. bits + -EpochOffset = v
  BY <1>1, <1>2, <1>4
<1>10. DaySums(bits, -EpochOffset) = {v}
  BY <1>9 DEF DaySums
<1> QED
  BY <1>8, <1>10 DEF x

\* A 64-bit integer is a double that is not missing, at most half a spacing
\* away from it, and one up to 2^53 is itself.
LEMMA LargeReadsBack ==
  ASSUME NEW c \in ColumnsTried, c.type \in {"UINTEGER", "BIGINT", "UBIGINT"}, NEW v \in ValuesOf(c),
         v # Null, NEW bits \in Encodings(c, v), NEW r \in Decodings(CellOf(c, bits))
  PROVE  \/ r = v
         \/ /\ c.type \in {"BIGINT", "UBIGINT"} /\ Magnitude(v) > Exact /\ r # Null
            /\ 2 * Magnitude(r - v) <= Spacing(v)
<1> DEFINE x == CellOf(c, bits)
<1>1. /\ Exact \in Nat \ {0} /\ MicroLimit \in Nat /\ MissingFrom \in Nat /\ TcOffset \in Nat
      /\ 2 * Exact <= MicroLimit /\ MicroLimit < 1024 * Exact
      /\ MissingFrom > 2 * (MicroLimit + 1024) + TcOffset
  BY ValuesAssumption, ConstantFacts
<1>2. /\ v \in Int
      /\ c.type = "UINTEGER" => v >= 0 /\ v <= Exact
      /\ c.type = "BIGINT" => v >= -MicroLimit - 1 /\ v <= MicroLimit
      /\ c.type = "UBIGINT" => v >= 0 /\ v <= 2 * MicroLimit + 1
  <2>1. v \in IntegersOf(c) /\ IntSamples \subseteq Int
    BY ConstantFacts, SMT DEF ValuesOf
  <2>2. CASE c.type = "UINTEGER"
    BY <2>1, <2>2, SMT DEF IntegersOf
  <2>3. CASE c.type = "BIGINT"
    BY <1>1, <2>1, <2>3, SMT DEF IntegersOf, Int64
  <2>4. CASE c.type = "UBIGINT"
    BY <2>1, <2>4, SMT DEF IntegersOf
  <2> QED
    BY <2>2, <2>3, <2>4
<1>3. /\ Magnitude(v) \in Nat /\ Magnitude(v) <= 2 * MicroLimit + 1
      /\ Magnitude(v) < 2 * (1024 * Exact)
  BY <1>1, <1>2 DEF Magnitude
<1>4. bits = ToDouble(v)
  BY SMT DEF Encodings
<1> DEFINE s == Spacing(v)
<1>5. s \in Nat \ {0} /\ s <= 2048
  <2>1. s \in Spacings
    BY <1>2, <1>3, SpacingFacts
  <2> QED
    BY <2>1 DEF Spacings
<1>6. bits \in Int /\ 2 * (bits - v) <= s /\ 2 * (v - bits) <= s
  BY <1>2, <1>4, <1>5, ToDoubleNear
<1>7. Magnitude(v) <= Exact => bits = v
  BY <1>2, <1>4, ToDoubleExact
<1>8. x.code = "double" /\ x.bits = bits /\ ReadType(x) \notin {"DATE", "TIMESTAMP"}
  <2>1. /\ TypeCode(c) = "double" /\ c.type # "VARCHAR"
        /\ c.type \notin {"DATE", "TIMESTAMP"}
    BY CodeFacts
  <2> QED
    BY <2>1, CellFields, ReadTypeFacts
<1> HIDE DEF x, s
<1>9. bits < MissingFrom /\ bits > -MissingFrom
  <2>1. v <= 2 * MicroLimit + 1 /\ v >= -MicroLimit - 1
    BY <1>1, <1>2
  <2> QED
    BY <1>1, <1>2, <1>5, <1>6, <2>1
<1>10. ~ IsMissing(x)
  BY <1>1, <1>6, <1>8, <1>9, SMT DEF IsMissing, Floating
<1>11. r = bits
  BY <1>8, <1>10, DecodingFacts DEF x
<1>12. CASE Magnitude(v) <= Exact
  BY <1>7, <1>11, <1>12
<1>13. CASE Magnitude(v) > Exact
  <2>1. c.type \in {"BIGINT", "UBIGINT"}
    BY <1>1, <1>2, <1>13 DEF Magnitude
  <2>2. 2 * Magnitude(r - v) <= Spacing(v)
    BY <1>2, <1>5, <1>6, <1>11 DEF Magnitude, s
  <2>3. r # Null
    BY <1>6, <1>11, ConstantFacts
  <2> QED
    BY <1>13, <2>1, <2>2, <2>3
<1> QED
  BY <1>1, <1>3, <1>12, <1>13

\* C++ division towards zero, in microseconds again.
LEMMA QuotientFacts ==
  ASSUME NEW v \in Int
  PROVE  LET q == Quotient(v, 1000) IN
         /\ q \in Int
         /\ v >= 0 => 1000 * q <= v /\ v - 1000 * q < 1000 /\ q >= 0
         /\ v < 0 => 1000 * q >= v /\ 1000 * q - v < 1000 /\ q <= 0
  BY SMT DEF Quotient

\* A product that stays in 64 bits is not wrapped.
LEMMA InMicrosExact ==
  ASSUME NEW m \in Int, -MicroLimit - 1 <= m * 1000, m * 1000 <= MicroLimit
  PROVE  InMicros(m) = m * 1000
<1> DEFINE t == m * 1000 + MicroLimit + 1
           w == 2 * MicroLimit + 2
<1>1. MicroLimit \in Nat /\ t \in Int /\ w \in Nat \ {0} /\ t >= 0 /\ t < w
  BY ConstantFacts
<1>2. InMicros(m) = (t % w) - MicroLimit - 1
  BY DEF InMicros
<1>3. t = m * 1000 + MicroLimit + 1
  OBVIOUS
<1> HIDE DEF t, w
<1>4. t % w = t
  BY <1>1, SMT
<1> QED
  BY <1>1, <1>2, <1>3, <1>4

\* A timestamp as COPY stores it and read_dta reads it.
LEMMA TimestampReadsBack ==
  ASSUME NEW c \in ColumnsTried, c.type = "TIMESTAMP", NEW v \in MicroSamples, v # Null,
         NEW bits \in Encodings(c, v), NEW r \in Decodings(CellOf(c, bits))
  PROVE  KeepsMilliseconds(v, r)
<1> DEFINE x == CellOf(c, bits)
           q == Quotient(v, 1000)
           ms == q + TcOffset
<1>1. /\ Exact \in Nat \ {0} /\ MicroLimit \in Nat /\ MissingFrom \in Nat /\ TcOffset \in Nat
      /\ (MicroLimit \div 1000) + TcOffset < 2 * Exact /\ 2 * Exact <= MicroLimit
      /\ MissingFrom > 2 * (MicroLimit + 1024) + TcOffset
  BY ValuesAssumption, ConstantFacts
<1>2. v \in Int /\ -MicroLimit <= v /\ v <= MicroLimit
  BY ConstantFacts
<1>3. /\ q \in Int
      /\ v >= 0 => 1000 * q <= v /\ v - 1000 * q < 1000 /\ q >= 0
      /\ v < 0 => 1000 * q >= v /\ 1000 * q - v < 1000 /\ q <= 0
  BY <1>2, QuotientFacts
<1>4. bits = ToDouble(ms)
  BY SMT DEF Encodings
<1>5. x.code = "double" /\ x.bits = bits /\ ReadType(x) = "TIMESTAMP"
  <2>1. TypeCode(c) = "double" /\ c.type # "VARCHAR"
    BY CodeFacts
  <2> QED
    BY <2>1, CellFields, ReadTypeFacts
<1>6. r \in Decodings(x)
  OBVIOUS
<1>7. ms = q + TcOffset /\ ms \in Int
  BY <1>1, <1>3
<1> HIDE DEF x, q, ms
<1>8. Magnitude(ms) < 2 * Exact /\ Magnitude(ms) \in Nat
  <2> DEFINE d == MicroLimit \div 1000
  <2>1. d \in Int /\ 1000 * d <= MicroLimit /\ MicroLimit < 1000 * d + 1000
        /\ d + TcOffset < 2 * Exact
    BY <1>1
  <2> HIDE DEF d
  <2>2. q <= d /\ -q <= d
    BY <1>1, <1>2, <1>3, <2>1
  <2> QED
    BY <1>1, <1>3, <1>7, <2>1, <2>2 DEF Magnitude
<1> DEFINE s == Spacing(ms)
<1>9. s = 1 \/ s = 2
  <2>1. Magnitude(ms) < 2 * (1024 * Exact)
    BY <1>1, <1>8
  <2>2. s \in Spacings /\ (s > 1 => Magnitude(ms) \div (s \div 2) >= Exact)
    BY <1>7, <2>1, SpacingFacts
  <2> HIDE DEF s
  <2> DEFINE m == Magnitude(ms)
  <2>3. m \in Nat /\ m < 2 * Exact /\ (s > 1 => m \div (s \div 2) >= Exact)
    BY <1>8, <2>2
  <2> HIDE DEF m
  <2>4. \A k \in Nat : k >= 2 => m \div k < Exact
    <3>1. ASSUME NEW k \in Nat, k >= 2 PROVE m \div k < Exact
      <4>1. m \div k \in Nat
        BY <2>3, <3>1, SMT
      <4>2. (m \div k) * k <= m
        BY <2>3, <3>1, <4>1, QuotientBound
      <4> DEFINE e == m \div k
      <4> HIDE DEF e
      <4>3. e \in Nat /\ e * k <= m
        BY <4>1, <4>2 DEF e
      <4>4. e * 2 <= e * k
        BY <3>1, <4>3, SMT
      <4> QED
        BY <1>1, <2>3, <4>3, <4>4 DEF e
    <3> QED
      BY <3>1
  <2>5. ~ s > 2
    <3>1. s > 2 => s \div 2 \in Nat /\ s \div 2 >= 2
      BY <2>2 DEF Spacings
    <3>2. SUFFICES ASSUME s > 2 PROVE FALSE
      OBVIOUS
    <3>3. m \div (s \div 2) < Exact /\ m \div (s \div 2) >= Exact
      BY <2>2, <2>3, <2>4, <3>1, <3>2 DEF Spacings
    <3>4. m \div (s \div 2) \in Int
      BY <2>3, <3>1, <3>2, SMT
    <3> QED
      BY <1>1, <3>3, <3>4
  <2> QED
    BY <2>2, <2>5 DEF Spacings
<1>10. bits \in Int /\ 2 * (bits - ms) <= s /\ 2 * (ms - bits) <= s
  <2>1. s \in Nat \ {0}
    BY <1>9
  <2> QED
    BY <1>4, <1>7, <2>1, ToDoubleNear
<1>11. Magnitude(ms) <= Exact => bits = ms
  BY <1>4, <1>7, ToDoubleExact
<1> HIDE DEF s
<1>12. bits - ms <= 1 /\ ms - bits <= 1
  BY <1>7, <1>9, <1>10
<1>13. ~ IsMissing(x)
  <2>1. bits < MissingFrom /\ bits > -MissingFrom
    <3>1. q <= MicroLimit /\ -MicroLimit <= q
      BY <1>1, <1>2, <1>3
    <3> QED
      BY <1>1, <1>3, <1>7, <1>10, <1>12, <3>1
  <2> QED
    BY <1>1, <1>5, <1>10, <2>1, SMT DEF IsMissing, Floating
<1>14. r = InMicros(bits - TcOffset)
  <2>1. bits \in Int64
    BY <1>1, <1>7, <1>8, <1>10, <1>12 DEF Int64, Magnitude
  <2>2. CastToInt64(bits) = {bits}
    BY <2>1 DEF CastToInt64
  <2>3. r \in {InMicros(m - TcOffset) : m \in {bits}}
    BY <1>5, <1>6, <1>13, <2>2, DecodingFacts
  <2> QED
    BY <2>3
<1> DEFINE e == bits - TcOffset
<1>15. e \in Int /\ e - q <= 1 /\ q - e <= 1 /\ (Magnitude(ms) <= Exact => e = q)
  BY <1>1, <1>3, <1>7, <1>10, <1>11, <1>12
<1> HIDE DEF e
<1>16. r \in Int
  <2> DEFINE t == e * 1000 + MicroLimit + 1
             w == 2 * MicroLimit + 2
  <2>1. t \in Int /\ w \in Nat \ {0} /\ r = (t % w) - MicroLimit - 1
    BY <1>1, <1>14, <1>15 DEF InMicros, e
  <2> HIDE DEF t, w
  <2>2. t % w \in Int
    BY <2>1, SMT
  <2> QED
    BY <1>1, <2>1, <2>2
<1>17. CASE Magnitude(ms) <= Exact
  <2>1. -MicroLimit - 1 <= q * 1000 /\ q * 1000 <= MicroLimit
    BY <1>1, <1>2, <1>3
  <2>2. r = q * 1000
    BY <1>3, <1>14, <1>15, <1>17, <2>1, InMicrosExact DEF e
  <2>3. /\ v >= 0 => r <= v /\ v - r < 1000
        /\ v < 0 => r >= v /\ r - v < 1000
    BY <1>2, <1>3, <2>2
  <2> QED
    BY <1>16, <1>17, <2>3, ConstantFacts DEF KeepsMilliseconds, ms, q
<1>18. CASE ~ Magnitude(ms) <= Exact /\ Magnitude(v) <= MicroLimit - 1000
  <2>1. v <= MicroLimit - 1000 /\ -v <= MicroLimit - 1000
    BY <1>1, <1>2, <1>18 DEF Magnitude
  <2>2. -MicroLimit - 1 <= e * 1000 /\ e * 1000 <= MicroLimit
    BY <1>1, <1>2, <1>3, <1>15, <2>1
  <2>3. r = e * 1000
    BY <1>14, <1>15, <2>2, InMicrosExact DEF e
  <2>4. Magnitude(r - v) < 2000
    BY <1>2, <1>3, <1>15, <2>3 DEF Magnitude
  <2> QED
    BY <1>16, <1>18, <2>4, ConstantFacts DEF KeepsMilliseconds, ms, q
<1>19. CASE ~ Magnitude(ms) <= Exact /\ ~ Magnitude(v) <= MicroLimit - 1000
  <2>1. Magnitude(v) > MicroLimit - 1000
    BY <1>1, <1>2, <1>19 DEF Magnitude
  <2> QED
    BY <1>16, <1>19, <2>1, ConstantFacts DEF KeepsMilliseconds, ms, q
<1> QED
  BY <1>17, <1>18, <1>19

-----------------------------------------------------------------------------
(***************************************************************************)
(* Texts, which COPY puts into strLs.                                      *)
(***************************************************************************)
LEMMA LowFacts ==
  ASSUME NEW w, Len(w) \in Nat, NEW n \in Nat
  PROVE  /\ IsList(Low(w, n)) /\ Len(Low(w, n)) = n
         /\ \A i \in 1 .. n : Low(w, n)[i] = IF i <= Len(w) THEN w[i] ELSE 0
  BY DEF Low, IsList

LEMMA LowOfLow ==
  ASSUME NEW w, Len(w) \in Nat, NEW n \in Nat
  PROVE  Low(Low(w, n), n) = Low(w, n)
<1> DEFINE u == Low(w, n)
<1>1. Len(u) = n
  BY LowFacts
<1>2. u = [i \in 1 .. n |-> IF i <= Len(w) THEN w[i] ELSE 0]
  BY DEF Low
<1>3. Low(u, n) = [i \in 1 .. n |-> IF i <= n THEN u[i] ELSE 0]
  BY <1>1, Zenon DEF Low
<1>4. \A i \in 1 .. n : u[i] = (IF i <= Len(w) THEN w[i] ELSE 0) /\ i <= n
  BY <1>2
<1> HIDE DEF u
<1>5. Low(u, n) = [i \in 1 .. n |-> u[i]]
  BY <1>3, <1>4
<1>6. Low(u, n) = [i \in 1 .. n |-> IF i <= Len(w) THEN w[i] ELSE 0]
  BY <1>4, <1>5
<1> QED
  BY <1>2, <1>6 DEF u

\* A reference as a format keeps it that gives n bytes to the column.
KeyOf(n, ref) == <<Low(ref.v, n), Low(ref.o, 8 - n)>>

\* The reader divides a reference as the format does.
LEMMA VBytesFacts ==
  ASSUME NEW release \in 117 .. 121
  PROVE  /\ VBytes(release) \in 2 .. 4 /\ StrLVBytes(release) = VBytes(release)
         /\ release = 117 => VBytes(release) = 4
  BY SMT DEF VBytes, StrLVBytes

LEMMA RefFacts ==
  ASSUME NEW ref \in Refs
  PROVE  /\ Len(ref.v) = 4 /\ Len(ref.o) = 8
         /\ ref.v \in [1 .. 4 -> 0 .. 255] /\ ref.o \in [1 .. 8 -> 0 .. 255]
         /\ \E i \in 1 .. 4 : ref.v[i] # 0
<1>1. ref \in [v : [1 .. 4 -> 0 .. 255], o : [1 .. 8 -> 0 .. 255]]
  BY RefsAssumption
<1>2. ref.v \in [1 .. 4 -> 0 .. 255] /\ ref.o \in [1 .. 8 -> 0 .. 255]
  BY <1>1
<1>3. Len(ref.v) = 4 /\ Len(ref.o) = 8
  BY <1>2
<1>4. \E i \in 1 .. 4 : ref.v[i] # 0
  BY RefsAssumption, Zenon
<1> QED
  BY <1>2, <1>3, <1>4

\* A list of bytes that is a function and nothing else.
IsBytes(w, n) == IsList(w) /\ Len(w) = n /\ w = [i \in 1 .. n |-> w[i]]

LEMMA LowIsBytes ==
  ASSUME NEW w, NEW n \in Nat PROVE IsBytes(Low(w, n), n)
  BY DEF Low, IsList, IsBytes

\* References that fit are told apart, and from that of no strL.
LEMMA KeysTellApart ==
  ASSUME NEW n \in 2 .. 4, NEW ref \in Refs, NEW other \in Refs,
         Fits(ref, n), Fits(other, n), KeyOf(n, ref) = KeyOf(n, other)
  PROVE  ref = other
<1>1. Low(ref.v, n) = Low(other.v, n) /\ Low(ref.o, 8 - n) = Low(other.o, 8 - n)
  BY DEF KeyOf
<1>2. /\ ref.v = Low(Low(ref.v, n), 4) /\ other.v = Low(Low(other.v, n), 4)
      /\ ref.o = Low(Low(ref.o, 8 - n), 8) /\ other.o = Low(Low(other.o, 8 - n), 8)
  BY DEF Fits
<1>3. ref.v = other.v /\ ref.o = other.o
  BY <1>1, <1>2, Zenon
<1>4. /\ ref \in [v : [1 .. 4 -> 0 .. 255], o : [1 .. 8 -> 0 .. 255]]
      /\ other \in [v : [1 .. 4 -> 0 .. 255], o : [1 .. 8 -> 0 .. 255]]
  BY RefsAssumption
<1> QED
  BY <1>3, <1>4

LEMMA KeyNotZero ==
  ASSUME NEW n \in 2 .. 4, NEW ref \in Refs, Fits(ref, n)
  PROVE  \E i \in DOMAIN Low(ref.v, n) : Low(ref.v, n)[i] # 0
<1>1. PICK i \in 1 .. 4 : ref.v[i] # 0
  BY RefFacts
<1> DEFINE low == Low(ref.v, n)
<1>2. ref.v = Low(low, 4)
  BY DEF Fits
<1>3. Len(low) = n /\ DOMAIN low = 1 .. n
  BY LowIsBytes DEF IsBytes, IsList
<1> HIDE DEF low
<1>4. ref.v[i] = IF i <= n THEN low[i] ELSE 0
  <2>1. ref.v = [j \in 1 .. 4 |-> IF j <= n THEN low[j] ELSE 0]
    BY <1>2, <1>3 DEF Low
  <2> QED
    BY <2>1
<1>5. i \in 1 .. n /\ low[i] # 0
  BY <1>1, <1>4
<1> QED
  BY <1>3, <1>5 DEF low

-----------------------------------------------------------------------------
(***************************************************************************)
(* Byte order: what the reader swaps is what the file has.                 *)
(***************************************************************************)
LEMMA OrderFacts ==
  ASSUME NEW msf \in BOOLEAN, NEW n \in Nat, NEW w, IsBytes(w, n)
  PROVE  IsBytes(InOrder(msf, w), n) /\ InOrder(msf, InOrder(msf, w)) = w
<1>1. CASE ~ msf
  BY <1>1 DEF InOrder
<1>2. CASE msf
  <2> DEFINE r == Reverse(w)
  <2>1. r = [i \in 1 .. n |-> w[n - i + 1]]
    BY DEF Reverse, IsBytes
  <2>2. IsBytes(r, n)
    BY <2>1 DEF IsBytes, IsList
  <2>3. \A i \in 1 .. n : n - i + 1 \in 1 .. n /\ r[n - i + 1] = w[i]
    <3>1. ASSUME NEW i \in 1 .. n
          PROVE  n - i + 1 \in 1 .. n /\ n - (n - i + 1) + 1 = i
      OBVIOUS
    <3> QED
      BY <2>1, <3>1
  <2>4. Reverse(r) = [i \in 1 .. n |-> r[n - i + 1]]
    BY <2>2 DEF Reverse, IsBytes
  <2> HIDE DEF r
  <2>5. Reverse(r) = w
    BY <2>3, <2>4 DEF IsBytes
  <2> QED
    BY <1>2, <2>2, <2>5 DEF InOrder, r
<1> QED
  BY <1>1, <1>2

LEMMA SwapFacts ==
  ASSUME NEW msf \in BOOLEAN, NEW w, IsBytes(w, 4) \/ IsBytes(w, 8)
  PROVE  SwapIfNeeded(msf, InOrder(msf, w)) = w
<1>1. CASE ~ msf
  BY <1>1 DEF SwapIfNeeded, InOrder
<1>2. CASE msf /\ IsBytes(w, 4)
  <2> DEFINE r == Reverse(w)
  <2>1. InOrder(msf, w) = r /\ InOrder(msf, r) = w /\ IsBytes(r, 4)
    BY <1>2, OrderFacts DEF InOrder
  <2>2. Reverse(r) = [i \in 1 .. 4 |-> r[4 - i + 1]]
    BY <2>1 DEF Reverse, IsBytes
  <2> HIDE DEF r
  <2>3. Reverse(r) = w
    BY <1>2, <2>1 DEF InOrder
  <2>4. Swap32(r) = [i \in 1 .. 4 |-> r[4 - i + 1]]
    BY DEF Swap32
  <2>5. SwapIfNeeded(msf, r) = Swap32(r)
    <3>1. Len(r) = 4
      BY <2>1 DEF IsBytes
    <3> QED
      BY <1>2, <3>1 DEF SwapIfNeeded
  <2> QED
    BY <2>1, <2>2, <2>3, <2>4, <2>5
<1>3. CASE msf /\ IsBytes(w, 8)
  <2> DEFINE r == Reverse(w)
  <2>1. InOrder(msf, w) = r /\ InOrder(msf, r) = w /\ IsBytes(r, 8)
    BY <1>3, OrderFacts DEF InOrder
  <2>2. Reverse(r) = [i \in 1 .. 8 |-> r[8 - i + 1]]
    BY <2>1 DEF Reverse, IsBytes
  <2> HIDE DEF r
  <2>3. Reverse(r) = w
    BY <1>3, <2>1 DEF InOrder
  <2>4. Swap64(r) = [i \in 1 .. 8 |-> r[8 - i + 1]]
    <3> DEFINE bytes == [i \in 1 .. 8 |-> r[IF i % 2 = 1 THEN i + 1 ELSE i - 1]]
               pairs == [i \in 1 .. 8 |-> bytes[IF i % 4 \in {1, 2} THEN i + 2 ELSE i - 2]]
    <3>1. Swap64(r) = [i \in 1 .. 8 |-> pairs[IF i <= 4 THEN i + 4 ELSE i - 4]]
      BY DEF Swap64
    <3>2. /\ bytes[1] = r[2] /\ bytes[2] = r[1] /\ bytes[3] = r[4] /\ bytes[4] = r[3]
          /\ bytes[5] = r[6] /\ bytes[6] = r[5] /\ bytes[7] = r[8] /\ bytes[8] = r[7]
      OBVIOUS
    <3> HIDE DEF bytes
    <3>3. /\ pairs[1] = bytes[3] /\ pairs[2] = bytes[4] /\ pairs[3] = bytes[1]
          /\ pairs[4] = bytes[2] /\ pairs[5] = bytes[7] /\ pairs[6] = bytes[8]
          /\ pairs[7] = bytes[5] /\ pairs[8] = bytes[6]
      OBVIOUS
    <3> HIDE DEF pairs
    <3>4. ASSUME NEW i \in 1 .. 8
          PROVE  pairs[IF i <= 4 THEN i + 4 ELSE i - 4] = r[8 - i + 1]
      <4>1. i \in {1, 2, 3, 4, 5, 6, 7, 8}
        OBVIOUS
      <4> QED
        BY <3>2, <3>3, <4>1
    <3> QED
      BY <3>1, <3>4
  <2>5. SwapIfNeeded(msf, r) = Swap64(r)
    <3>1. Len(r) = 8
      BY <2>1 DEF IsBytes
    <3> QED
      BY <1>3, <3>1 DEF SwapIfNeeded
  <2> QED
    BY <2>1, <2>2, <2>3, <2>4, <2>5
<1> QED
  BY <1>1, <1>2, <1>3

\* What precedes the border of a cell and what follows it.
LEMMA RefParts ==
  ASSUME NEW msf \in BOOLEAN, NEW n \in 2 .. 4, NEW ref
  PROVE  /\ SubSeq(RefBytes(msf, ref, n), 1, n) = InOrder(msf, Low(ref.v, n))
         /\ SubSeq(RefBytes(msf, ref, n), n + 1, 8) = InOrder(msf, Low(ref.o, 8 - n))
<1> DEFINE a == InOrder(msf, Low(ref.v, n))
           b == InOrder(msf, Low(ref.o, 8 - n))
           both == a \o b
<1>1. IsBytes(a, n) /\ IsBytes(b, 8 - n)
  <2>1. n \in Nat /\ 8 - n \in Nat
    OBVIOUS
  <2>2. IsBytes(Low(ref.v, n), n) /\ IsBytes(Low(ref.o, 8 - n), 8 - n)
    BY <2>1, LowIsBytes
  <2> QED
    BY <2>1, <2>2, OrderFacts
<1>2. RefBytes(msf, ref, n) = both
  BY Zenon DEF RefBytes
<1> HIDE DEF a, b
<1>3. /\ IsList(both) /\ Len(both) = 8
      /\ \A i \in 1 .. n : both[i] = a[i]
      /\ \A i \in 1 .. 8 - n : both[n + i] = b[i]
  BY <1>1, ListConcat DEF IsBytes
<1> HIDE DEF both
<1>4. SubSeq(both, 1, n) = [i \in 1 .. n |-> both[i]]
  BY <1>3 DEF IsList
<1>5. SubSeq(both, n + 1, 8) = [i \in 1 .. 8 - n |-> both[n + i]]
  BY <1>3 DEF IsList
<1>6. SubSeq(both, 1, n) = a
  BY <1>1, <1>3, <1>4 DEF IsBytes
<1>7. SubSeq(both, n + 1, 8) = b
  BY <1>1, <1>3, <1>5 DEF IsBytes
<1> QED
  BY <1>2, <1>6, <1>7 DEF a, b

-----------------------------------------------------------------------------
(***************************************************************************)
(* A cell finds the strL it refers to, in every format and byte order.     *)
(***************************************************************************)
IsStrLOf(gso, release, msf, ref) ==
  /\ gso.v = InOrder(msf, ref.v)
  /\ gso.o = InOrder(msf, IF release = 117 THEN Low(ref.o, 4) ELSE ref.o)

Either(strls, x, y) == strls = <<x, y>> \/ strls = <<y, x>>

LEMMA StrLFacts ==
  ASSUME NEW release, NEW msf, NEW ref, NEW binary, NEW content
  PROVE  /\ IsStrLOf(StrL(release, msf, ref, binary, content), release, msf, ref)
         /\ StrL(release, msf, ref, binary, content).binary = binary
         /\ StrL(release, msf, ref, binary, content).content = content
  BY DEF StrL, IsStrLOf

\* The key of a strL, and that of a cell that refers to it.
LEMMA KeyFacts ==
  ASSUME NEW release \in 117 .. 121, NEW ref \in Refs
  PROVE  LET n == VBytes(release) IN
         /\ StrLKey(release, ref.v, IF release = 117 THEN Low(ref.o, 4) ELSE ref.o)
              = KeyOf(n, ref)
         /\ StrLKey(release, Low(ref.v, n), Low(ref.o, 8 - n)) = KeyOf(n, ref)
<1> DEFINE n == VBytes(release)
<1>1. /\ n \in 2 .. 4 /\ n \in Nat /\ 8 - n \in Nat /\ StrLVBytes(release) = n
      /\ release = 117 => 8 - n = 4
  BY VBytesFacts
<1> HIDE DEF n
<1>2. \A v, o : StrLKey(release, v, o) = <<Low(v, n), Low(o, 8 - n)>>
  BY <1>1, Zenon DEF StrLKey
<1>3. /\ Low(Low(ref.v, n), n) = Low(ref.v, n)
      /\ Low(Low(ref.o, 8 - n), 8 - n) = Low(ref.o, 8 - n)
  BY <1>1, RefFacts, LowOfLow
<1>4. Low(IF release = 117 THEN Low(ref.o, 4) ELSE ref.o, 8 - n) = Low(ref.o, 8 - n)
  BY <1>1, <1>3
<1> DEFINE o == IF release = 117 THEN Low(ref.o, 4) ELSE ref.o
<1>5. StrLKey(release, ref.v, o) = KeyOf(n, ref)
  <2>1. Low(o, 8 - n) = Low(ref.o, 8 - n)
    BY <1>4
  <2> HIDE DEF o
  <2> QED
    BY <1>2, <2>1, Zenon DEF KeyOf
<1>6. StrLKey(release, Low(ref.v, n), Low(ref.o, 8 - n)) = KeyOf(n, ref)
  BY <1>2, <1>3, Zenon DEF KeyOf
<1> QED
  BY <1>5, <1>6 DEF n

LEMMA GSOKeyFacts ==
  ASSUME NEW file, file.release \in 117 .. 121, file.msf \in BOOLEAN,
         NEW ref \in Refs, NEW at, IsStrLOf(file.strls[at], file.release, file.msf, ref)
  PROVE  GSOKey(file, at) = KeyOf(VBytes(file.release), ref)
<1> DEFINE o == IF file.release = 117 THEN Low(ref.o, 4) ELSE ref.o
<1>1. IsBytes(ref.v, 4) /\ (IsBytes(o, 4) \/ IsBytes(o, 8))
  <2>1. IsBytes(ref.v, 4) /\ IsBytes(ref.o, 8)
    <3>1. ref.v \in [1 .. 4 -> 0 .. 255] /\ ref.o \in [1 .. 8 -> 0 .. 255]
      BY RefFacts
    <3>2. ASSUME NEW n \in Nat, NEW w \in [1 .. n -> 0 .. 255] PROVE IsBytes(w, n)
      <4>1. Len(w) = n /\ DOMAIN w = 1 .. n /\ w = [i \in 1 .. n |-> w[i]]
        OBVIOUS
      <4> QED
        BY <4>1 DEF IsBytes, IsList
    <3> QED
      BY <3>1, <3>2
  <2>2. IsBytes(Low(ref.o, 4), 4)
    BY LowIsBytes
  <2> QED
    BY <2>1, <2>2
<1>2. /\ file.strls[at].v = InOrder(file.msf, ref.v)
      /\ file.strls[at].o = InOrder(file.msf, o)
  BY DEF IsStrLOf
<1> HIDE DEF o
<1>3. /\ SwapIfNeeded(file.msf, InOrder(file.msf, ref.v)) = ref.v
      /\ SwapIfNeeded(file.msf, InOrder(file.msf, o)) = o
  BY <1>1, SwapFacts
<1>4. GSOKey(file, at) = StrLKey(file.release, ref.v, o)
  BY <1>2, <1>3, Zenon DEF GSOKey
<1>5. StrLKey(file.release, ref.v, o) = KeyOf(VBytes(file.release), ref)
  BY KeyFacts, Zenon DEF o
<1> QED
  BY <1>4, <1>5, Zenon

\* Of the two strLs of a file, a reference finds the one that is its own.
LEMMA FindsItsStrL ==
  ASSUME NEW file, file.release \in 117 .. 121, file.msf \in BOOLEAN,
         NEW ref \in Refs, NEW other \in Refs, ref # other,
         Fits(ref, VBytes(file.release)), Fits(other, VBytes(file.release)),
         NEW x, IsStrLOf(x, file.release, file.msf, ref),
         NEW y, IsStrLOf(y, file.release, file.msf, other),
         Either(file.strls, x, y)
  PROVE  ResolveStrL(file, Low(ref.v, VBytes(file.release)),
                     Low(ref.o, 8 - VBytes(file.release))) = Content(file.release, x)
<1> DEFINE n == VBytes(file.release)
           keys == [i \in DOMAIN file.strls |-> GSOKey(file, i)]
           k == StrLKey(file.release, Low(ref.v, n), Low(ref.o, 8 - n))
           last == SelectLastInSeq(keys, LAMBDA key : key = k)
           I == {i \in 1 .. Len(keys) : keys[i] = k}
<1>1. PICK p \in 1 .. 2, q \in 1 .. 2 :
        /\ p # q /\ DOMAIN file.strls = 1 .. 2
        /\ file.strls[p] = x /\ file.strls[q] = y
  <2>1. CASE file.strls = <<x, y>>
    BY <2>1
  <2>2. CASE file.strls = <<y, x>>
    BY <2>2
  <2> QED
    BY <2>1, <2>2 DEF Either
<1>2. ResolveStrL(file, Low(ref.v, n), Low(ref.o, 8 - n)) =
        IF last = 0 THEN <<>> ELSE Content(file.release, file.strls[last])
  BY Zenon DEF ResolveStrL
<1>3. k = KeyOf(n, ref)
  BY KeyFacts, Zenon
<1>4. GSOKey(file, p) = KeyOf(n, ref) /\ GSOKey(file, q) = KeyOf(n, other)
  BY <1>1, GSOKeyFacts, Zenon
<1>5. KeyOf(n, other) # KeyOf(n, ref)
  <2>1. n \in 2 .. 4
    BY VBytesFacts
  <2> QED
    BY <2>1, KeysTellApart, Zenon
<1>6. Len(keys) = 2 /\ \A i \in 1 .. 2 : keys[i] = GSOKey(file, i)
  BY <1>1
<1>7. last = IF I # {} THEN Max(I) ELSE 0
  BY Zenon DEF SelectLastInSeq
<1> HIDE DEF keys, k, last, n
<1>8. keys[p] = k /\ keys[q] # k
  BY <1>3, <1>4, <1>5, <1>6, Zenon
<1>9. \A i \in 1 .. 2 : i = p \/ i = q
  BY <1>1
<1>10. I = {p}
  BY <1>6, <1>8, <1>9
<1>11. last = p
  <2>1. Max({p}) = p
    BY DEF Max
  <2> HIDE DEF I
  <2> QED
    BY <1>7, <1>10, <2>1
<1> QED
  BY <1>1, <1>2, <1>11 DEF n

\* What is made of the 8 bytes of a cell.
Zeros(w) == \A i \in DOMAIN w : w[i] = 0
HeadOf(file, bits) == InOrder(file.msf, SubSeq(bits, 1, VBytes(file.release)))
RestOf(file, bits) == InOrder(file.msf, SubSeq(bits, VBytes(file.release) + 1, 8))

LEMMA ShownStrLFacts ==
  ASSUME NEW file, file.release \in 117 .. 121, NEW bits
  PROVE  ShownStrL(file, bits) =
           IF Zeros(HeadOf(file, bits)) /\ Zeros(RestOf(file, bits)) THEN Null
           ELSE ResolveStrL(file, HeadOf(file, bits), RestOf(file, bits))
<1>1. StrLVBytes(file.release) = VBytes(file.release)
  BY VBytesFacts
<1> QED
  BY <1>1 DEF ShownStrL, InOrder, HeadOf, RestOf, Zeros

\* A cell shows what the strL that it refers to holds.
LEMMA CellFindsItsStrL ==
  ASSUME NEW file, file.release \in 117 .. 121, file.msf \in BOOLEAN,
         NEW ref \in Refs, NEW other \in Refs, ref # other,
         Fits(ref, VBytes(file.release)), Fits(other, VBytes(file.release)),
         NEW x, IsStrLOf(x, file.release, file.msf, ref),
         NEW y, IsStrLOf(y, file.release, file.msf, other),
         Either(file.strls, x, y)
  PROVE  ShownStrL(file, RefBytes(file.msf, ref, VBytes(file.release)))
           = Content(file.release, x)
<1> DEFINE n == VBytes(file.release)
           bits == RefBytes(file.msf, ref, n)
           v == Low(ref.v, n)
           o == Low(ref.o, 8 - n)
<1>1. n \in 2 .. 4 /\ n \in Nat /\ 8 - n \in Nat
  BY VBytesFacts
<1>2. HeadOf(file, bits) = v /\ RestOf(file, bits) = o
  <2>1. IsBytes(v, n) /\ IsBytes(o, 8 - n)
    BY <1>1, LowIsBytes
  <2>2. InOrder(file.msf, InOrder(file.msf, v)) = v /\ InOrder(file.msf, InOrder(file.msf, o)) = o
    BY <1>1, <2>1, OrderFacts
  <2>3. SubSeq(bits, 1, n) = InOrder(file.msf, v) /\ SubSeq(bits, n + 1, 8) = InOrder(file.msf, o)
    BY <1>1, RefParts
  <2> QED
    BY <2>2, <2>3, Zenon DEF HeadOf, RestOf
<1>3. ShownStrL(file, bits) =
        IF Zeros(HeadOf(file, bits)) /\ Zeros(RestOf(file, bits)) THEN Null
        ELSE ResolveStrL(file, HeadOf(file, bits), RestOf(file, bits))
  BY ShownStrLFacts, Zenon
<1>4. ~ Zeros(v)
  BY <1>1, KeyNotZero, Zenon DEF Zeros
<1>5. ResolveStrL(file, v, o) = Content(file.release, x)
  BY FindsItsStrL, Zenon
<1> HIDE DEF v, o, bits, n
<1>6. ShownStrL(file, bits) = Content(file.release, x)
  BY <1>2, <1>3, <1>4, <1>5, Zenon
<1> QED
  BY <1>6 DEF bits, n

\* The NUL that ends a text in a strL is not read; a binary strL has no such NUL.
LEMMA ContentFacts ==
  ASSUME NEW release, NEW gso
  PROVE  /\ gso.binary => Content(release, gso) = gso.content
         /\ \A s \in Seq(0 .. 255) :
              ~ gso.binary /\ gso.content = Append(s, 0) =>
                Content(release, gso) = ShownText(release, s)
<1> DEFINE last == Len(gso.content)
           ended == last > 0 /\ gso.content[last] = 0
           text == IF ended THEN SubSeq(gso.content, 1, last - 1) ELSE gso.content
<1>1. Content(release, gso) = IF gso.binary THEN gso.content ELSE ShownText(release, text)
  BY Zenon DEF Content
<1>2. ASSUME NEW s \in Seq(0 .. 255), gso.content = Append(s, 0) PROVE text = s
  <2> DEFINE content == Append(s, 0)
  <2>1. /\ content \in Seq(0 .. 255) /\ Len(content) = Len(s) + 1
        /\ \A i \in 1 .. Len(s) : content[i] = s[i]
        /\ content[Len(s) + 1] = 0 /\ Len(s) \in Nat
    OBVIOUS
  <2>2. gso.content = content
    BY <1>2
  <2> HIDE DEF content
  <2>3. ended /\ last - 1 = Len(s)
    BY <2>1, <2>2
  <2>4. text = SubSeq(content, 1, Len(s))
    BY <2>2, <2>3
  <2> HIDE DEF ended, last, text
  <2> DEFINE front == SubSeq(content, 1, Len(s))
  <2>5. /\ front \in Seq(0 .. 255) /\ Len(front) = Len(s)
        /\ \A i \in 1 .. Len(s) : front[i] = content[i]
    BY <2>1
  <2> HIDE DEF front
  <2>6. front = s
    BY <2>1, <2>5
  <2> QED
    BY <2>4, <2>6 DEF front
<1> HIDE DEF text
<1> QED
  BY <1>1, <1>2, Zenon

-----------------------------------------------------------------------------
(***************************************************************************)
(* The strLs and the cells of COPY, and their file: format 119, of this    *)
(* machine's byte order.                                                   *)
(***************************************************************************)
CopiedStrL(ref, text) == StrL(119, FALSE, ref, FALSE, Append(text, 0))
CopiedCell(bits, strls) == TextCell("strL", 119, FALSE, bits, strls)

\* A text comes back whichever of the two strLs is first in the file.
LEMMA TextReadsBack ==
  ASSUME NEW ref \in Refs, NEW other \in Refs, Fits(ref, 3), Fits(other, 3), ref # other,
         NEW s \in Seq(0 .. 255), NEW t,
         NEW written, Either(written, CopiedStrL(ref, s), CopiedStrL(other, t))
  PROVE  TextDecoding(CopiedCell(CopiedRef(ref), written)) = s
<1> DEFINE x == CopiedCell(CopiedRef(ref), written)
           file == x.file
<1>1. /\ x.code = "strL" /\ x.bits = CopiedRef(ref)
      /\ file.release = 119 /\ file.msf = FALSE /\ file.strls = written
  BY DEF CopiedCell, TextCell
<1>2. TextDecoding(x) = ShownStrL(file, CopiedRef(ref))
  BY <1>1, Zenon DEF TextDecoding
<1> HIDE DEF x, file
<1>3. file.release \in 117 .. 121 /\ VBytes(file.release) = 3 /\ file.msf \in BOOLEAN
  <2>1. VBytes(119) = 3 /\ 119 \in 117 .. 121
    BY SMT DEF VBytes
  <2> QED
    BY <1>1, <2>1, Zenon
<1>4. CopiedRef(ref) = RefBytes(file.msf, ref, VBytes(file.release))
  <2>1. 8 - 3 = 5
    OBVIOUS
  <2> QED
    BY <1>1, <1>3, <2>1, Zenon DEF CopiedRef, RefBytes, InOrder
<1>5. /\ IsStrLOf(CopiedStrL(ref, s), file.release, file.msf, ref)
      /\ IsStrLOf(CopiedStrL(other, t), file.release, file.msf, other)
  <2>1. \A r, u : IsStrLOf(CopiedStrL(r, u), 119, FALSE, r)
    BY StrLFacts DEF CopiedStrL
  <2> QED
    BY <1>1, <2>1, Zenon
<1>6. Either(file.strls, CopiedStrL(ref, s), CopiedStrL(other, t))
  BY <1>1, Zenon
<1>7. ShownStrL(file, CopiedRef(ref)) = Content(file.release, CopiedStrL(ref, s))
  BY <1>3, <1>4, <1>5, <1>6, CellFindsItsStrL, Zenon
<1>8. Content(file.release, CopiedStrL(ref, s)) = ShownText(file.release, s)
  <2>1. ~ CopiedStrL(ref, s).binary /\ CopiedStrL(ref, s).content = Append(s, 0)
    BY DEF CopiedStrL, StrL
  <2> QED
    BY <2>1, ContentFacts, Zenon
<1>9. ShownText(file.release, s) = s
  BY <1>1 DEF ShownText
<1> QED
  BY <1>2, <1>7, <1>8, <1>9, Zenon DEF x

\* A reference of zeros is NULL.
LEMMA NoTextReadsBack ==
  ASSUME NEW written
  PROVE  TextDecoding(CopiedCell(NoRef, written)) = Null
<1> DEFINE x == CopiedCell(NoRef, written)
           file == x.file
           v == SubSeq(NoRef, 1, 3)
           o == SubSeq(NoRef, 4, 8)
<1>1. x.code = "strL" /\ x.bits = NoRef /\ file.release = 119 /\ file.msf = FALSE
  BY DEF CopiedCell, TextCell
<1>2. TextDecoding(x) = ShownStrL(file, NoRef)
  BY <1>1, Zenon DEF TextDecoding
<1>3. Zeros(v) /\ Zeros(o)
  <2>1. v = [i \in 1 .. 3 |-> NoRef[i]] /\ o = [i \in 1 .. 5 |-> NoRef[3 + i]]
    BY DEF NoRef
  <2> HIDE DEF v, o
  <2> QED
    BY <2>1 DEF NoRef, Zeros
<1> HIDE DEF x, file
<1>4. ShownStrL(file, NoRef) = IF Zeros(v) /\ Zeros(o) THEN Null ELSE ResolveStrL(file, v, o)
  <2>1. VBytes(119) = 3 /\ 3 + 1 = 4 /\ 119 \in 117 .. 121
    BY SMT DEF VBytes
  <2>2. HeadOf(file, NoRef) = v /\ RestOf(file, NoRef) = o
    BY <1>1, <2>1, Zenon DEF InOrder, HeadOf, RestOf
  <2>3. file.release \in 117 .. 121
    BY <1>1, <2>1, Zenon
  <2> QED
    BY <2>2, <2>3, ShownStrLFacts, Zenon
<1> QED
  BY <1>2, <1>3, <1>4, Zenon DEF x

-----------------------------------------------------------------------------
(***************************************************************************)
(* Latin-1 and UTF-8.                                                      *)
(***************************************************************************)
\* The first n items of a list.
FrontOf(s, n) == [i \in 1 .. n |-> s[i]]

LEMMA FrontFacts ==
  ASSUME NEW s, NEW n \in Nat
  PROVE  IsList(FrontOf(s, n)) /\ Len(FrontOf(s, n)) = n
         /\ \A i \in 1 .. n : FrontOf(s, n)[i] = s[i]
  BY DEF FrontOf, IsList

LEMMA FlattenFront ==
  ASSUME NEW s, NEW n \in Nat
  PROVE  FlattenSeq(FrontOf(s, n + 1)) =
           IF n = 0 THEN s[1] ELSE FlattenSeq(FrontOf(s, n)) \o s[n + 1]
<1> DEFINE t == FrontOf(s, n + 1)
           u == FrontOf(s, n)
<1>1. /\ IsList(t) /\ Len(t) = n + 1 /\ \A i \in 1 .. n + 1 : t[i] = s[i]
      /\ IsList(u) /\ Len(u) = n /\ \A i \in 1 .. n : u[i] = s[i]
  BY FrontFacts
<1> HIDE DEF t, u
<1>2. CASE n = 0
  <2>1. FlattenSeq(t) = t[1] /\ t[1] = s[1]
    BY <1>1, <1>2, FlattenOne
  <2> QED
    BY <1>2, <2>1 DEF t
<1>3. CASE n # 0
  <2>1. Len(u) > 0 /\ Len(t) = Len(u) + 1 /\ \A i \in 1 .. Len(u) : u[i] = t[i]
    BY <1>1, <1>3
  <2>2. FlattenSeq(t) = FlattenSeq(u) \o t[Len(t)]
    BY <1>1, <2>1, FlattenSnoc
  <2>3. t[Len(t)] = s[n + 1]
    BY <1>1
  <2>4. FlattenSeq(t) = FlattenSeq(u) \o s[n + 1]
    BY <2>2, <2>3, Zenon
  <2> QED
    BY <1>3, <2>4 DEF t, u
<1> QED
  BY <1>2, <1>3

\* Each byte by itself is the text again.
LEMMA FlattenBytes ==
  ASSUME NEW s \in Seq(0 .. 255)
  PROVE  FlattenSeq([i \in DOMAIN s |-> <<s[i]>>]) = s
<1> DEFINE e == [i \in DOMAIN s |-> <<s[i]>>]
           S == {n \in Nat : n <= Len(s) => FlattenSeq(FrontOf(e, n)) = FrontOf(s, n)}
<1>1. Len(s) \in Nat /\ DOMAIN s = 1 .. Len(s) /\ s = FrontOf(s, Len(s))
  BY DEF FrontOf
<1>2. e = FrontOf(e, Len(s)) /\ \A i \in 1 .. Len(s) : e[i] = <<s[i]>>
  BY <1>1 DEF FrontOf
<1> HIDE DEF e
<1>3. 0 \in S
  <2>1. FrontOf(e, 0) = FrontOf(s, 0)
    BY DEF FrontOf
  <2>2. FlattenSeq(FrontOf(e, 0)) = FrontOf(e, 0)
    BY FrontFacts, FlattenEmpty
  <2> QED
    BY <2>1, <2>2
<1>4. ASSUME NEW n \in Nat, n \in S PROVE n + 1 \in S
  <2>1. SUFFICES ASSUME n + 1 <= Len(s)
                 PROVE  FlattenSeq(FrontOf(e, n + 1)) = FrontOf(s, n + 1)
    OBVIOUS
  <2>2. FlattenSeq(FrontOf(e, n)) = FrontOf(s, n)
    BY <1>1, <1>4, <2>1
  <2>3. e[n + 1] = <<s[n + 1]>>
    BY <1>1, <1>2, <2>1
  <2>4. FlattenSeq(FrontOf(e, n + 1)) =
          IF n = 0 THEN e[1] ELSE FlattenSeq(FrontOf(e, n)) \o e[n + 1]
    BY FlattenFront
  <2>5. CASE n = 0
    <3>1. FrontOf(s, 1) = <<s[1]>>
      BY DEF FrontOf
    <3> QED
      BY <2>3, <2>4, <2>5, <3>1
  <2>6. CASE n # 0
    <3> DEFINE front == FrontOf(s, n)
               one == <<s[n + 1]>>
    <3>1. FlattenSeq(FrontOf(e, n + 1)) = front \o one
      BY <2>2, <2>3, <2>4, <2>6, Zenon
    <3>2. Len(front) = n /\ IsList(front) /\ \A i \in 1 .. n : front[i] = s[i]
      BY FrontFacts
    <3> HIDE DEF front
    <3>3. front \o one = [i \in 1 .. n + 1 |-> IF i <= n THEN front[i] ELSE s[n + 1]]
      BY <3>2 DEF IsList
    <3>4. front \o one = FrontOf(s, n + 1)
      BY <3>2, <3>3 DEF FrontOf
    <3> QED
      BY <3>1, <3>4
  <2> QED
    BY <2>5, <2>6
<1> HIDE DEF S
<1>5. Len(s) \in S
  BY <1>1, <1>3, <1>4, SetInduction
<1>6. FlattenSeq(FrontOf(e, Len(s))) = FrontOf(s, Len(s))
  BY <1>1, <1>5 DEF S
<1>7. FlattenSeq(e) = s
  BY <1>1, <1>2, <1>6, Zenon
<1> QED
  BY <1>7 DEF e

\* What a list of texts has in one of them, its flattening has.
LEMMA FlattenKeeps ==
  ASSUME NEW s, NEW m \in Nat, \A i \in 1 .. m : IsList(s[i]),
         NEW k \in 1 .. m, NEW j \in 1 .. Len(s[k])
  PROVE  LET all == FlattenSeq(FrontOf(s, m))
         IN  IsList(all) /\ \E i \in 1 .. Len(all) : all[i] = s[k][j]
<1> DEFINE Flat(n) == FlattenSeq(FrontOf(s, n))
           S == {n \in Nat : n \in 1 .. m =>
                   /\ IsList(Flat(n))
                   /\ k <= n => \E i \in 1 .. Len(Flat(n)) : Flat(n)[i] = s[k][j]}
<1>1. 0 \in S
  OBVIOUS
<1>2. ASSUME NEW n \in Nat, n \in S PROVE n + 1 \in S
  <2>1. SUFFICES ASSUME n + 1 \in 1 .. m
                 PROVE  /\ IsList(Flat(n + 1))
                        /\ k <= n + 1 =>
                             \E i \in 1 .. Len(Flat(n + 1)) : Flat(n + 1)[i] = s[k][j]
    OBVIOUS
  <2>2. Flat(n + 1) = IF n = 0 THEN s[1] ELSE Flat(n) \o s[n + 1]
    BY FlattenFront
  <2>3. IsList(s[n + 1])
    BY <2>1
  <2>4. n # 0 => /\ IsList(Flat(n))
                 /\ k <= n => \E i \in 1 .. Len(Flat(n)) : Flat(n)[i] = s[k][j]
    BY <1>2, <2>1
  <2> HIDE DEF Flat
  <2>5. CASE n = 0
    <3>1. Flat(n + 1) = s[1] /\ IsList(s[1]) /\ (k <= n + 1 => k = 1)
      BY <2>2, <2>3, <2>5
    <3> QED
      BY <3>1
  <2>6. CASE n # 0
    <3> DEFINE a == Flat(n)
               b == s[n + 1]
    <3>1. Flat(n + 1) = a \o b /\ IsList(a) /\ IsList(b)
      BY <2>2, <2>3, <2>4, <2>6
    <3>2. k <= n => \E i \in 1 .. Len(a) : a[i] = s[k][j]
      BY <2>4, <2>6
    <3>3. k = n + 1 => j \in 1 .. Len(b) /\ b[j] = s[k][j]
      OBVIOUS
    <3> HIDE DEF a, b
    <3>4. /\ IsList(a \o b) /\ Len(a \o b) = Len(a) + Len(b)
          /\ \A i \in 1 .. Len(a) : (a \o b)[i] = a[i]
          /\ \A i \in 1 .. Len(b) : (a \o b)[Len(a) + i] = b[i]
      BY <3>1, ListConcat
    <3>5. Len(a) \in Nat /\ Len(b) \in Nat
      BY <3>1 DEF IsList
    <3> DEFINE all == a \o b
    <3> HIDE DEF all
    <3>6. ASSUME k <= n + 1 PROVE \E i \in 1 .. Len(all) : all[i] = s[k][j]
      <4>1. CASE k <= n
        <5>1. PICK i \in 1 .. Len(a) : a[i] = s[k][j]
          BY <3>2, <4>1
        <5>2. i \in 1 .. Len(all) /\ all[i] = s[k][j]
          BY <3>4, <3>5, <5>1 DEF all
        <5> QED
          BY <5>2
      <4>2. CASE k = n + 1
        <5>1. Len(a) + j \in 1 .. Len(all)
          BY <3>3, <3>4, <3>5, <4>2 DEF all
        <5>2. all[Len(a) + j] = s[k][j]
          BY <3>3, <3>4, <4>2 DEF all
        <5> QED
          BY <5>1, <5>2
      <4> QED
        BY <3>6, <4>1, <4>2
    <3> QED
      BY <3>1, <3>4, <3>6 DEF all
  <2> QED
    BY <2>5, <2>6
<1> HIDE DEF S
<1>3. m \in S
  BY <1>1, <1>2, SetInduction
<1> QED
  BY <1>3 DEF S

\* The pair whose bits are those of the character, and no other, is what the
\* reader makes of it.
LEMMA Utf8Facts ==
  ASSUME NEW c \in 0 .. 255
  PROVE  Utf8(c) = IF c < 128 THEN <<c>> ELSE <<192 + (c \div 64), 128 + (c % 64)>>
<1>1. CASE c < 128
  BY <1>1 DEF Utf8
<1>2. CASE ~ (c < 128)
  <2> DEFINE Pairs == (192 .. 223) \X (128 .. 191)
             Codes(pair) == 64 * (pair[1] - 192) + (pair[2] - 128) = c
             q == c \div 64
             r == c % 64
             own == <<192 + q, 128 + r>>
  <2>1. q \in 0 .. 3 /\ r \in 0 .. 63 /\ 64 * q + r = c
    OBVIOUS
  <2> HIDE DEF q, r
  <2>2. own \in Pairs /\ Codes(own)
    BY <2>1
  <2>3. ASSUME NEW pair \in Pairs, Codes(pair) PROVE pair = own
    <3>1. PICK a \in 192 .. 223, b \in 128 .. 191 : pair = <<a, b>>
      OBVIOUS
    <3>2. 64 * (a - 192) + (b - 128) = c
      BY <2>3, <3>1
    <3>3. a = 192 + q /\ b = 128 + r
      BY <2>1, <3>2
    <3> QED
      BY <3>1, <3>3
  <2>4. Utf8(c) = CHOOSE pair \in Pairs : Codes(pair)
    BY <1>2, Zenon DEF Utf8
  <2> HIDE DEF Pairs, Codes, own
  <2>5. Utf8(c) = own
    BY <2>2, <2>3, <2>4, Zenon
  <2> QED
    BY <1>2, <2>5 DEF own, q, r
<1> QED
  BY <1>1, <1>2

LEMMA TextFacts ==
  ASSUME NEW text \in Texts
  PROVE  /\ text.latin1 \in Seq(0 .. 255) /\ text.utf8 \in Seq(0 .. 255)
         /\ text.utf8 = FlattenSeq([i \in DOMAIN text.latin1 |-> Utf8(text.latin1[i])])
         /\ \A i \in DOMAIN text.latin1 : text.latin1[i] \in 0 .. 255
<1>1. text.latin1 \in Seq(0 .. 255) /\ text.utf8 \in Seq(0 .. 255)
  BY ValuesAssumption
<1>2. text.utf8 = FlattenSeq([i \in DOMAIN text.latin1 |-> Utf8(text.latin1[i])])
  BY TextAssumption, Zenon
<1>3. ASSUME NEW w \in Seq(0 .. 255) PROVE \A i \in DOMAIN w : w[i] \in 0 .. 255
  <2>1. DOMAIN w = 1 .. Len(w) /\ \A i \in 1 .. Len(w) : w[i] \in 0 .. 255
    BY SeqList, Zenon DEF IsList
  <2> QED
    BY <2>1, Zenon
<1> QED
  BY <1>1, <1>2, <1>3, Zenon

\* Text of any format is shown in UTF-8.
LEMMA EncodedIsShown ==
  ASSUME NEW text \in Texts, NEW release
  PROVE  ShownText(release, Encoded(release, text)) = text.utf8
<1> DEFINE w == text.latin1
           pairs == [i \in DOMAIN w |-> IF w[i] < 128 THEN <<w[i]>>
                                        ELSE <<192 + (w[i] \div 64), 128 + (w[i] % 64)>>]
           chars == [i \in DOMAIN w |-> Utf8(w[i])]
<1>1. w \in Seq(0 .. 255) /\ text.utf8 = FlattenSeq(chars) /\ \A i \in DOMAIN w : w[i] \in 0 .. 255
  BY TextFacts
<1>2. Latin1ToUtf8(w) = FlattenSeq(pairs)
  BY Zenon DEF Latin1ToUtf8
<1> HIDE DEF w
<1>3. pairs = chars
  <2>1. ASSUME NEW i \in DOMAIN w PROVE pairs[i] = chars[i]
    BY <1>1, Utf8Facts
  <2> QED
    BY <2>1
<1>4. CASE release < 118 /\ NeedsUtf8Transcode(w)
  <2>1. ShownText(release, w) = FlattenSeq(chars) /\ Encoded(release, text) = w
    BY <1>2, <1>3, <1>4 DEF ShownText, Encoded, w
  <2> QED
    BY <1>1, <2>1
<1>5. CASE release < 118 /\ ~ NeedsUtf8Transcode(w)
  <2>1. \A i \in DOMAIN w : chars[i] = <<w[i]>>
    <3>1. \A i \in DOMAIN w : w[i] < 128
      <4>1. ASSUME NEW i \in DOMAIN w PROVE ~ (w[i] >= 128) /\ w[i] \in 0 .. 255
        BY <1>1, <1>5, Zenon DEF NeedsUtf8Transcode
      <4> QED
        BY <4>1
    <3> QED
      BY <1>1, <3>1, Utf8Facts
  <2>2. chars = [i \in DOMAIN w |-> <<w[i]>>]
    BY <2>1
  <2> HIDE DEF chars
  <2>3. FlattenSeq(chars) = w
    BY <1>1, <2>2, FlattenBytes
  <2>4. ShownText(release, w) = w /\ Encoded(release, text) = w
    BY <1>5 DEF ShownText, Encoded, w
  <2> QED
    BY <1>1, <2>3, <2>4
<1>6. CASE ~ (release < 118)
  BY <1>6 DEF ShownText, Encoded
<1> QED
  BY <1>4, <1>5, <1>6

-----------------------------------------------------------------------------
(***************************************************************************)
(* A str# field is read as far as the first NUL.                           *)
(***************************************************************************)
NoNul(s) == \A i \in 1 .. Len(s) : s[i] # 0
NulsOf(s) == {i \in 1 .. Len(s) : s[i] = 0}

LEMMA UntilNulFacts ==
  ASSUME NEW s
  PROVE  /\ NoNul(s) => UntilNul(s) = s
         /\ \A p \in NulsOf(s) :
              (\A i \in NulsOf(s) : p <= i) /\ NulsOf(s) \subseteq Nat \ {0} =>
                UntilNul(s) = SubSeq(s, 1, p - 1)
<1> DEFINE first == SelectInSeq(s, LAMBDA byte : byte = 0)
           I == {i \in 1 .. Len(s) : s[i] = 0}
<1>1. first = IF I # {} THEN Min(I) ELSE 0
  BY Zenon DEF SelectInSeq
<1>2. UntilNul(s) = IF first = 0 THEN s ELSE SubSeq(s, 1, first - 1)
  BY Zenon DEF UntilNul
<1>3. I = NulsOf(s)
  BY DEF NulsOf
<1> HIDE DEF first, I
<1>4. ASSUME NoNul(s) PROVE UntilNul(s) = s
  <2>1. I = {}
    BY <1>3, <1>4 DEF NoNul, NulsOf
  <2> QED
    BY <1>1, <1>2, <2>1
<1>5. ASSUME NEW p \in I, \A i \in I : p <= i, I \subseteq Nat \ {0}
      PROVE  UntilNul(s) = SubSeq(s, 1, p - 1)
  <2>1. \A q \in I : (\A i \in I : q <= i) => q = p
    BY <1>5
  <2>2. Min(I) = p
    BY <1>5, <2>1, Zenon DEF Min
  <2>3. first = p /\ p # 0
    BY <1>1, <1>5, <2>2
  <2> QED
    BY <1>2, <2>3
<1> QED
  BY <1>3, <1>4, <1>5, Zenon

LEMMA WithoutNul ==
  ASSUME NEW s \in Seq(0 .. 255), UntilNul(s) = s PROVE NoNul(s)
<1>1. SUFFICES ASSUME ~ NoNul(s) PROVE FALSE
  OBVIOUS
<1>2. NulsOf(s) \subseteq Nat \ {0} /\ NulsOf(s) \subseteq Nat /\ NulsOf(s) # {}
  BY <1>1 DEF NulsOf, NoNul
<1>3. PICK p \in NulsOf(s) : \A i \in NulsOf(s) : p <= i
  BY <1>2, LeastExists
<1>4. UntilNul(s) = SubSeq(s, 1, p - 1)
  BY <1>2, <1>3, UntilNulFacts
<1>5. p \in 1 .. Len(s)
  BY DEF NulsOf
<1>6. Len(SubSeq(s, 1, p - 1)) = p - 1 /\ Len(s) \in Nat
  BY <1>5
<1> QED
  BY <1>4, <1>5, <1>6

LEMMA FieldIsText ==
  ASSUME NEW s \in Seq(0 .. 255), NoNul(s),
         NEW rest \in Seq(0 .. 255), rest = <<>> \/ rest[1] = 0
  PROVE  UntilNul(s \o rest) = s
<1> DEFINE field == s \o rest
<1>1. CASE rest = <<>>
  <2>1. field = s
    BY <1>1
  <2> QED
    BY <2>1, UntilNulFacts
<1>2. CASE rest # <<>>
  <2> DEFINE p == Len(s) + 1
  <2>1. /\ field \in Seq(0 .. 255) /\ Len(field) = Len(s) + Len(rest)
        /\ Len(s) \in Nat /\ Len(rest) \in Nat /\ Len(rest) > 0
        /\ \A i \in 1 .. Len(s) : field[i] = s[i]
        /\ field[p] = rest[1]
    BY <1>2
  <2> HIDE DEF field
  <2>2. p \in NulsOf(field)
    BY <1>2, <2>1 DEF NulsOf
  <2>3. NulsOf(field) \subseteq Nat \ {0} /\ \A i \in NulsOf(field) : p <= i
    <3>1. ASSUME NEW i \in NulsOf(field) PROVE i \in Nat \ {0} /\ p <= i
      <4>1. i \in 1 .. Len(field) /\ field[i] = 0
        BY DEF NulsOf
      <4>2. i \in 1 .. Len(s) => field[i] # 0
        BY <2>1 DEF NoNul
      <4> QED
        BY <2>1, <4>1, <4>2
    <3> QED
      BY <3>1
  <2>4. UntilNul(field) = SubSeq(field, 1, p - 1) /\ p - 1 = Len(s)
    BY <2>1, <2>2, <2>3, UntilNulFacts
  <2> DEFINE front == SubSeq(field, 1, Len(s))
  <2>5. /\ front \in Seq(0 .. 255) /\ Len(front) = Len(s)
        /\ \A i \in 1 .. Len(s) : front[i] = field[i]
    <3>1. ASSUME NEW n \in Nat, n <= Len(field)
          PROVE  /\ SubSeq(field, 1, n) \in Seq(0 .. 255) /\ Len(SubSeq(field, 1, n)) = n
                 /\ \A i \in 1 .. n : SubSeq(field, 1, n)[i] = field[i]
      <4>1. \A i \in 1 .. n : field[i] \in 0 .. 255
        <5>1. \A i \in 1 .. Len(field) : field[i] \in 0 .. 255
          BY <2>1, SeqList, Zenon
        <5>2. \A i \in 1 .. n : i \in 1 .. Len(field)
          BY <2>1, <3>1
        <5> QED
          BY <5>1, <5>2, Zenon
      <4>2. SubSeq(field, 1, n) = [i \in 1 .. n |-> field[i]]
        BY <2>1, <3>1
      <4> HIDE DEF field
      <4>3. [i \in 1 .. n |-> field[i]] \in Seq(0 .. 255)
        BY <4>1
      <4> QED
        BY <4>2, <4>3
    <3>2. Len(s) <= Len(field)
      BY <2>1
    <3> QED
      BY <2>1, <3>1, <3>2
  <2> HIDE DEF front
  <2>6. front = s
    BY <2>1, <2>5
  <2> QED
    BY <2>4, <2>6 DEF field, front
<1> QED
  BY <1>1, <1>2

\* A NUL is a NUL in either encoding.
LEMMA EncodedHasNoNul ==
  ASSUME NEW text \in Texts, NoNul(text.utf8), NEW release
  PROVE  Encoded(release, text) \in Seq(0 .. 255) /\ NoNul(Encoded(release, text))
<1> DEFINE w == text.latin1
           chars == [i \in DOMAIN w |-> Utf8(w[i])]
           m == Len(w)
<1>1. /\ w \in Seq(0 .. 255) /\ text.utf8 \in Seq(0 .. 255) /\ text.utf8 = FlattenSeq(chars)
      /\ \A i \in DOMAIN w : w[i] \in 0 .. 255
  BY TextFacts
<1>2. m \in Nat /\ DOMAIN w = 1 .. m
  BY <1>1
<1>3. chars = FrontOf(chars, m) /\ \A i \in 1 .. m : chars[i] = Utf8(w[i])
  BY <1>2 DEF FrontOf
<1>4. \A i \in 1 .. m : IsList(chars[i])
  <2>1. ASSUME NEW c \in 0 .. 255 PROVE IsList(Utf8(c))
    <3>1. CASE c < 128
      <4>1. Utf8(c) = <<c>>
        BY <3>1, Utf8Facts, Zenon
      <4> QED
        BY <4>1 DEF IsList
    <3>2. CASE ~ (c < 128)
      <4>1. PICK a, b : Utf8(c) = <<a, b>>
        BY <3>2, Utf8Facts, Zenon
      <4> QED
        BY <4>1 DEF IsList
    <3> QED
      BY <3>1, <3>2
  <2> QED
    BY <1>1, <1>2, <1>3, <2>1
<1> HIDE DEF w, chars, m
<1>5. ASSUME NEW k \in 1 .. m, w[k] = 0 PROVE FALSE
  <2>1. chars[k] = <<0>>
    <3>1. 0 \in 0 .. 255 /\ 0 < 128
      OBVIOUS
    <3> QED
      BY <1>3, <1>5, <3>1, Utf8Facts
  <2>2. 1 \in 1 .. Len(chars[k]) /\ chars[k][1] = 0
    BY <2>1
  <2>3. \E i \in 1 .. Len(FlattenSeq(FrontOf(chars, m))) :
          FlattenSeq(FrontOf(chars, m))[i] = chars[k][1]
    BY <1>2, <1>4, <2>2, FlattenKeeps
  <2>4. \E i \in 1 .. Len(text.utf8) : text.utf8[i] = 0
    BY <1>1, <1>3, <2>2, <2>3, Zenon
  <2> QED
    BY <2>4 DEF NoNul
<1>6. NoNul(w)
  BY <1>5 DEF NoNul, m
<1> QED
  BY <1>1, <1>6 DEF Encoded, w

-----------------------------------------------------------------------------
(***************************************************************************)
(* The invariant: whatever read_dta may make of the cell that was written, *)
(* undefined sums included, is right for the value it stands for.          *)
(***************************************************************************)
Readings(x) == IF x.code \in {"str", "strL"} THEN {TextDecoding(x)} ELSE Decodings(x)

VInv ==
  /\ column = Null \/ (column \in ColumnsTried /\ value \in ValuesOf(column))
  /\ step = "rejected" => column # Null /\ ~Accepted(column, value)
  /\ step = "written" /\ column # Null =>
       \A r \in Readings(cell) : Right(column, value, r)
  /\ step = "read" /\ column # Null => Right(column, value, result)

\* The cell of a number, a date or a timestamp.
LEMMA CellReadsBack ==
  ASSUME NEW c \in ColumnsTried, c.type # "VARCHAR", NEW v \in ValuesOf(c),
         Accepted(c, v), NEW bits \in Encodings(c, v),
         NEW r \in Readings(CellOf(c, bits))
  PROVE  Right(c, v, r)
<1>1. r \in Decodings(CellOf(c, bits))
  BY CodeFacts, CellFields DEF Readings, NumericCodes
<1>2. CASE v = Null
  <2>1. Decodings(CellOf(c, bits)) = {Null}
    BY <1>2, NullReadsBack, Zenon
  <2> QED
    BY <1>1, <1>2, <2>1 DEF Right, Survives
<1>3. CASE v # Null /\ c.type \in IntegerTypes
  <2>1. Decodings(CellOf(c, bits)) = {v}
    BY <1>3, IntegerReadsBack, Zenon
  <2>2. c.type # "TIMESTAMP" /\ r = v
    BY <1>1, <1>3, <2>1 DEF IntegerTypes
  <2> QED
    BY <2>2, Zenon DEF Right, Survives
<1>4. CASE v # Null /\ c.type \in {"FLOAT", "DOUBLE"}
  <2>1. r = v \/ (r = Null /\ (v >= MissingFrom \/ v <= -MissingFrom))
    BY <1>1, <1>4, FloatReadsBack, Zenon
  <2>2. c.type # "TIMESTAMP"
    BY <1>4
  <2> QED
    BY <1>4, <2>1, <2>2, Zenon DEF Right, Survives
<1>5. CASE v # Null /\ c.type = "DATE"
  <2>1. v \in Day
    BY <1>5, SMT DEF ValuesOf
  <2>2. v \in Int /\ EpochOffset \in Nat /\ DayLimit \in Nat
    BY <2>1, ConstantFacts DEF Day
  <2>3. v + EpochOffset <= DayLimit \/ v + EpochOffset > DayLimit
    BY <2>2
  <2>4. CASE v + EpochOffset <= DayLimit
    BY <1>1, <1>5, <2>1, <2>4, DateReadsBack DEF Right, Survives
  <2>5. CASE v + EpochOffset > DayLimit
    BY <1>5, <2>5 DEF Right, Survives
  <2> QED
    BY <2>3, <2>4, <2>5
<1>6. CASE v # Null /\ c.type \in {"UINTEGER", "BIGINT", "UBIGINT"}
  <2>1. \/ r = v
        \/ /\ c.type \in {"BIGINT", "UBIGINT"} /\ Magnitude(v) > Exact /\ r # Null
           /\ 2 * Magnitude(r - v) <= Spacing(v)
    BY <1>1, <1>6, LargeReadsBack, Zenon
  <2>2. c.type # "TIMESTAMP"
    BY <1>6
  <2> QED
    BY <2>1, <2>2, Zenon DEF Right, Survives
<1>7. CASE v # Null /\ c.type = "TIMESTAMP"
  <2>1. v \in MicroSamples
    BY <1>7, SMT DEF ValuesOf
  <2>2. KeepsMilliseconds(v, r)
    BY <1>1, <1>7, <2>1, TimestampReadsBack, Zenon
  <2> QED
    BY <1>7, <2>2, Zenon DEF Right
<1> QED
  BY <1>2, <1>3, <1>4, <1>5, <1>6, <1>7, ColumnFacts DEF PlainTypes, IntegerTypes

LEMMA VInvInit == Init => VInv
  BY DEF Init, VInv

LEMMA WriteCellStep ==
  ASSUME VInv, WriteCell PROVE VInv'
<1>1. PICK bits \in Encodings(column, value) : cell' = CellOf(column, bits)
  BY DEF WriteCell, CellOf
<1>2. /\ column # Null /\ column.type # "VARCHAR" /\ Accepted(column, value)
      /\ step' = "written" /\ column' = column /\ value' = value
  BY DEF WriteCell
<1>3. column \in ColumnsTried /\ value \in ValuesOf(column)
  BY <1>2 DEF VInv
<1>4. \A r \in Readings(CellOf(column, bits)) : Right(column, value, r)
  BY <1>2, <1>3, CellReadsBack, Zenon
<1>5. \A r \in Readings(cell') : Right(column', value', r)
  BY <1>1, <1>2, <1>4, Zenon
<1> QED
  BY <1>2, <1>3, <1>5 DEF VInv, Readings, Right, Survives, KeepsMilliseconds

LEMMA WriteTextStep ==
  ASSUME VInv, WriteText PROVE VInv'
<1>1. /\ column # Null /\ column.type = "VARCHAR" /\ step' = "written"
      /\ column' = column /\ value' = value
  BY DEF WriteText
<1>2. column \in ColumnsTried /\ value \in ValuesOf(column)
  BY <1>1 DEF VInv
<1>3. value = Null \/ value \in Seq(0 .. 255)
  <2>1. value \in {Null} \cup {text.utf8 : text \in Texts}
    BY <1>1, <1>2, SMT DEF ValuesOf
  <2> QED
    BY <2>1, ValuesAssumption
<1> DEFINE Empty == value \in {Null, <<>>}
<1>4. PICK ref, other \in {r \in Refs : Fits(r, 3)}, text \in ValuesOf(column) :
        /\ ref # other /\ text \notin {Null, <<>>, value}
        /\ \E written \in IF Empty THEN {<<CopiedStrL(other, text)>>}
                          ELSE {<<CopiedStrL(other, text), CopiedStrL(ref, value)>>,
                                <<CopiedStrL(ref, value), CopiedStrL(other, text)>>} :
             cell' = CopiedCell(IF Empty THEN NoRef ELSE CopiedRef(ref), written)
  BY Zenon DEF WriteText, CopiedStrL, CopiedCell
<1>5. cell'.code = "strL"
  BY <1>4 DEF CopiedCell, TextCell
<1>6. Readings(cell') = {TextDecoding(cell')}
  BY <1>5 DEF Readings
<1>7. Right(column, value, TextDecoding(cell'))
  <2>1. CASE Empty
    <3>1. TextDecoding(cell') = Null
      BY <1>4, <2>1, NoTextReadsBack, Zenon
    <3> QED
      BY <1>1, <2>1, <3>1 DEF Right, Survives
  <2>2. CASE ~ Empty
    <3>1. value \in Seq(0 .. 255)
      BY <1>3, <2>2
    <3>2. PICK written :
            /\ Either(written, CopiedStrL(ref, value), CopiedStrL(other, text))
            /\ cell' = CopiedCell(CopiedRef(ref), written)
      BY <1>4, <2>2 DEF Either
    <3>3. ref \in Refs /\ other \in Refs /\ Fits(ref, 3) /\ Fits(other, 3)
      OBVIOUS
    <3>4. TextDecoding(cell') = value
      BY <1>4, <3>1, <3>2, <3>3, TextReadsBack, Zenon
    <3> QED
      BY <1>1, <3>4 DEF Right, Survives
  <2> QED
    BY <2>1, <2>2
<1>8. \A r \in Readings(cell') : Right(column', value', r)
  BY <1>1, <1>6, <1>7, Zenon
<1> QED
  BY <1>1, <1>2, <1>8 DEF VInv, Readings, Right, Survives, KeepsMilliseconds

\* Of another program's cells the invariant says nothing: there is no column.
LEMMA OtherSteps ==
  ASSUME VInv, ForeignCell \/ ForeignStrL \/ ForeignStr PROVE VInv'
<1>1. column = Null /\ column' = Null /\ step' = "written"
  BY DEF ForeignCell, ForeignStrL, ForeignStr
<1> QED
  BY <1>1 DEF VInv

LEMMA RejectCellStep ==
  ASSUME VInv, RejectCell PROVE VInv'
<1>1. /\ column # Null /\ ~Accepted(column, value) /\ step' = "rejected"
      /\ column' = column /\ value' = value
  BY DEF RejectCell
<1>2. ~Accepted(column', value')
  BY <1>1, Zenon
<1> QED
  BY <1>1, <1>2 DEF VInv

LEMMA ReadCellStep ==
  ASSUME VInv, ReadCell PROVE VInv'
<1>1. /\ step = "written" /\ step' = "read" /\ result' \in Readings(cell)
      /\ column' = column /\ value' = value
  BY DEF ReadCell, Readings
<1>2. column # Null => Right(column, value, result')
  BY <1>1, Zenon DEF VInv
<1>3. column' # Null => Right(column', value', result')
  BY <1>1, <1>2, Zenon
<1> QED
  BY <1>1, <1>3 DEF VInv

LEMMA VInvNext == VInv /\ [Next]_vars => VInv'
<1> SUFFICES ASSUME VInv, [Next]_vars PROVE VInv'
  OBVIOUS
<1>1. CASE WriteCell
  BY <1>1, WriteCellStep
<1>2. CASE WriteText
  BY <1>2, WriteTextStep
<1>3. CASE RejectCell
  BY <1>3, RejectCellStep
<1>4. CASE ForeignCell \/ ForeignStrL \/ ForeignStr
  BY <1>4, OtherSteps
<1>5. CASE ReadCell
  BY <1>5, ReadCellStep
<1>6. CASE UNCHANGED vars
  <2>1. /\ step' = step /\ column' = column /\ value' = value /\ cell' = cell
        /\ result' = result
    BY <1>6 DEF vars
  <2>2. VInv' = VInv
    BY <2>1 DEF VInv, Readings, Right, Survives, KeepsMilliseconds, Accepted
  <2> QED
    BY <2>2
<1>7. CASE Over
  <2>1. UNCHANGED vars
    BY <1>7 DEF Over
  <2> QED
    BY <1>6, <2>1
<1> QED
  BY <1>1, <1>2, <1>3, <1>4, <1>5, <1>6, <1>7 DEF Next

\* Whatever COPY writes, every reading of it is right; whatever it rejects was
\* out of range.
THEOREM CellsInvariant == Spec => []VInv
  BY VInvInit, VInvNext, PTL DEF Spec

(***************************************************************************)
(* What COPY accepts read_dta returns, NULL included, for every type and   *)
(* every value; the exceptions are those ValuesSurvive names.              *)
(***************************************************************************)
THEOREM CellsReadBack == Spec => []ValuesSurvive
<1>1. VInv => ValuesSurvive
  BY DEF VInv, ValuesSurvive, RoundTripped, Right, Survives
<1> QED
  BY <1>1, CellsInvariant, PTL

(***************************************************************************)
(* A timestamp that COPY writes loses less than a millisecond, and less    *)
(* than two where doubles hold only even ones.                             *)
(***************************************************************************)
THEOREM TimestampsReadBack == Spec => []TimestampsKeepMilliseconds
<1>1. VInv => TimestampsKeepMilliseconds
  BY DEF VInv, TimestampsKeepMilliseconds, RoundTripped, Right, KeepsMilliseconds
<1> QED
  BY <1>1, CellsInvariant, PTL

(***************************************************************************)
(* The cast that COPY advises cures the error: the value is in range of    *)
(* the type code of the wider type.                                        *)
(***************************************************************************)
THEOREM RejectedCellsHaveRemedy ==
  ASSUME EnumsFit PROVE Spec => []RejectionHasRemedy
<1>1. VInv => RejectionHasRemedy
  <2>1. SUFFICES ASSUME VInv, step = "rejected"
                 PROVE  /\ column.type \in {"TINYINT", "SMALLINT", "INTEGER"}
                        /\ Accepted(Column(AdvisedType(column.type)), value)
    BY Zenon DEF RejectionHasRemedy
  <2>2. column \in ColumnsTried /\ value \in ValuesOf(column) /\ ~Accepted(column, value)
    BY <2>1 DEF VInv
  <2> QED
    BY <2>2, RejectedHasRemedy, Zenon
<1> QED
  BY <1>1, CellsInvariant, PTL

-----------------------------------------------------------------------------
(***************************************************************************)
(* Texts of another program's files.  The invariant: a cell that has been  *)
(* written is shown as what it means.                                      *)
(***************************************************************************)
HoldsText(x) == x.code \in {"str", "strL"}

TInv ==
  column = Null /\ HoldsText(cell) =>
    /\ step = "written" => TextDecoding(cell) = value
    /\ step = "read" => result = value

\* What a strL means that the file holds, text or binary.
Stored(release, binary, text) ==
  IF binary THEN text.latin1 ELSE Append(Encoded(release, text), 0)
Meant(binary, text) == IF binary THEN text.latin1 ELSE text.utf8

LEMMA StoredIsShown ==
  ASSUME NEW text \in Texts, NEW release, NEW msf, NEW ref, NEW binary \in BOOLEAN
  PROVE  Content(release, StrL(release, msf, ref, binary, Stored(release, binary, text)))
           = Meant(binary, text)
<1> DEFINE gso == StrL(release, msf, ref, binary, Stored(release, binary, text))
<1>1. gso.binary = binary /\ gso.content = Stored(release, binary, text)
  BY DEF StrL
<1> HIDE DEF gso
<1>2. CASE binary
  <2>1. gso.binary /\ gso.content = text.latin1 /\ Meant(binary, text) = text.latin1
    BY <1>1, <1>2 DEF Stored, Meant
  <2> QED
    BY <2>1, ContentFacts, Zenon DEF gso
<1>3. CASE ~ binary
  <2>1. /\ ~ gso.binary /\ gso.content = Append(Encoded(release, text), 0)
        /\ Meant(binary, text) = text.utf8
    BY <1>1, <1>3 DEF Stored, Meant
  <2>2. Encoded(release, text) \in Seq(0 .. 255)
    BY TextFacts DEF Encoded
  <2>3. Content(release, gso) = ShownText(release, Encoded(release, text))
    BY <2>1, <2>2, ContentFacts, Zenon
  <2> QED
    BY <2>1, <2>3, EncodedIsShown, Zenon DEF gso
<1> QED
  BY <1>2, <1>3

LEMMA ForeignStrLShown ==
  ASSUME NEW release \in 117 .. 121, NEW msf \in BOOLEAN,
         NEW ref \in Refs, NEW other \in Refs, ref # other,
         Fits(ref, VBytes(release)), Fits(other, VBytes(release)),
         NEW own, IsStrLOf(own, release, msf, ref),
         NEW beside, IsStrLOf(beside, release, msf, other),
         NEW strls, Either(strls, own, beside)
  PROVE  TextDecoding(TextCell("strL", release, msf,
                               RefBytes(msf, ref, VBytes(release)), strls))
           = Content(release, own)
<1> DEFINE bits == RefBytes(msf, ref, VBytes(release))
           x == TextCell("strL", release, msf, bits, strls)
           file == x.file
<1>1. /\ x.code = "strL" /\ x.bits = bits
      /\ file.release = release /\ file.msf = msf /\ file.strls = strls
  BY DEF TextCell
<1>2. TextDecoding(x) = ShownStrL(file, bits)
  BY <1>1, Zenon DEF TextDecoding
<1> HIDE DEF x, file
<1>3. Either(file.strls, own, beside)
  BY <1>1, Zenon
<1>4. /\ file.release \in 117 .. 121 /\ file.msf \in BOOLEAN
      /\ Fits(ref, VBytes(file.release)) /\ Fits(other, VBytes(file.release))
      /\ IsStrLOf(own, file.release, file.msf, ref)
      /\ IsStrLOf(beside, file.release, file.msf, other)
  BY <1>1, Zenon
<1>5. ShownStrL(file, RefBytes(file.msf, ref, VBytes(file.release)))
        = Content(file.release, own)
  BY <1>3, <1>4, CellFindsItsStrL, Zenon
<1> QED
  BY <1>1, <1>2, <1>5, Zenon DEF x

LEMMA ForeignStrLStep ==
  ASSUME ForeignStrL PROVE TInv'
<1>1. PICK release \in 117 .. 121, msf \in BOOLEAN, binary \in BOOLEAN,
           text \in Texts, second \in Texts :
        \E ref, other \in {r \in Refs : Fits(r, VBytes(release))} :
          /\ ref # other /\ text # second
          /\ LET stored == IF binary THEN text.latin1
                           ELSE Append(Encoded(release, text), 0)
                 strls == {StrL(release, msf, ref, binary, stored),
                           StrL(release, msf, other, FALSE, Encoded(release, second))}
             IN  \E first \in strls, next \in strls :
                   /\ first # next
                   /\ cell' = TextCell("strL", release, msf,
                                RefBytes(msf, ref, VBytes(release)), <<first, next>>)
          /\ value' = IF binary THEN text.latin1 ELSE text.utf8
  BY Zenon DEF ForeignStrL
<1>2. PICK ref \in Refs, other \in Refs :
        /\ Fits(ref, VBytes(release)) /\ Fits(other, VBytes(release)) /\ ref # other
        /\ \E first, next \in
                {StrL(release, msf, ref, binary, Stored(release, binary, text)),
                 StrL(release, msf, other, FALSE, Encoded(release, second))} :
              /\ first # next
              /\ cell' = TextCell("strL", release, msf,
                           RefBytes(msf, ref, VBytes(release)), <<first, next>>)
        /\ value' = Meant(binary, text)
  BY <1>1, Zenon DEF Stored, Meant
<1> DEFINE own == StrL(release, msf, ref, binary, Stored(release, binary, text))
           beside == StrL(release, msf, other, FALSE, Encoded(release, second))
           bits == RefBytes(msf, ref, VBytes(release))
<1>3. PICK first \in {own, beside}, next \in {own, beside} :
        first # next /\ cell' = TextCell("strL", release, msf, bits, <<first, next>>)
  BY <1>2, Zenon
<1>4. Either(<<first, next>>, own, beside)
  <2> HIDE DEF own, beside
  <2>1. (first = own /\ next = beside) \/ (first = beside /\ next = own)
    BY <1>3, Zenon
  <2> QED
    BY <2>1, Zenon DEF Either
<1>5. Content(release, own) = value'
  BY <1>2, StoredIsShown, Zenon
<1>6. IsStrLOf(own, release, msf, ref) /\ IsStrLOf(beside, release, msf, other)
  BY StrLFacts, Zenon
<1> HIDE DEF own, beside
<1>7. TextDecoding(cell') = Content(release, own)
  <2>1. TextDecoding(TextCell("strL", release, msf, RefBytes(msf, ref, VBytes(release)),
                              <<first, next>>)) = Content(release, own)
    BY <1>2, <1>4, <1>6, ForeignStrLShown
  <2> QED
    BY <1>3, <2>1, Zenon
<1>8. step' = "written"
  BY DEF ForeignStrL
<1> QED
  BY <1>5, <1>7, <1>8, Zenon DEF TInv

LEMMA ForeignStrStep ==
  ASSUME ForeignStr PROVE TInv'
<1>1. PICK release \in {113, 114, 115, 117, 118, 119, 120, 121}, text \in Texts,
           rest \in {<<>>, <<0>>, <<0, 65, 233>>} :
        /\ UntilNul(text.utf8) = text.utf8 /\ text.utf8 \o rest # <<>>
        /\ cell' = TextCell("str", release, FALSE, Encoded(release, text) \o rest, <<>>)
        /\ value' = text.utf8
  BY Zenon DEF ForeignStr
<1> DEFINE stored == Encoded(release, text)
<1>2. stored \in Seq(0 .. 255) /\ NoNul(stored)
  <2>1. NoNul(text.utf8)
    BY <1>1, TextFacts, WithoutNul
  <2> QED
    BY <2>1, EncodedHasNoNul
<1>3. rest \in Seq(0 .. 255) /\ (rest = <<>> \/ rest[1] = 0)
  <2>1. CASE rest = <<>>
    BY <2>1
  <2>2. CASE rest = <<0>>
    BY <2>2
  <2>3. CASE rest = <<0, 65, 233>>
    BY <2>3
  <2> QED
    BY <2>1, <2>2, <2>3
<1> HIDE DEF stored
<1>4. UntilNul(stored \o rest) = stored
  BY <1>2, <1>3, FieldIsText
<1>5. /\ cell'.code = "str" /\ cell'.bits = stored \o rest
      /\ cell'.file.release = release
  BY <1>1 DEF TextCell, stored
<1>6. TextDecoding(cell') = ShownText(release, stored)
  BY <1>4, <1>5, Zenon DEF TextDecoding
<1>7. TextDecoding(cell') = value'
  BY <1>1, <1>6, EncodedIsShown, Zenon DEF stored
<1>8. step' = "written"
  BY DEF ForeignStr
<1> QED
  BY <1>7, <1>8, Zenon DEF TInv

LEMMA TInvNext == TInv /\ [Next]_vars => TInv'
<1> SUFFICES ASSUME TInv, [Next]_vars PROVE TInv'
  OBVIOUS
<1>1. CASE WriteCell \/ WriteText \/ RejectCell
  <2>1. column' # Null
    BY <1>1 DEF WriteCell, WriteText, RejectCell
  <2> QED
    BY <2>1, Zenon DEF TInv
<1>2. CASE ForeignCell
  <2>1. cell' \in ForeignCells
    BY <1>2, Zenon DEF ForeignCell
  <2>2. cell'.code \in {"byte", "int", "long", "float", "double"}
    BY <2>1 DEF ForeignCells, Floating
  <2>3. ~ HoldsText(cell')
    BY <2>2 DEF HoldsText
  <2> QED
    BY <2>3, Zenon DEF TInv
<1>3. CASE ForeignStrL
  BY <1>3, ForeignStrLStep
<1>4. CASE ForeignStr
  BY <1>4, ForeignStrStep
<1>5. CASE ReadCell
  <2>1. /\ step = "written" /\ step' = "read" /\ column' = column /\ value' = value
        /\ cell' = cell
        /\ result' \in IF HoldsText(cell) THEN {TextDecoding(cell)} ELSE Decodings(cell)
    BY <1>5 DEF ReadCell, HoldsText
  <2>2. SUFFICES ASSUME column = Null, HoldsText(cell) PROVE result' = value
    BY <2>1 DEF TInv
  <2>3. TextDecoding(cell) = value
    BY <2>1, <2>2, Zenon DEF TInv
  <2> QED
    BY <2>1, <2>2, <2>3, Zenon
<1>6. CASE UNCHANGED vars
  <2>1. /\ step' = step /\ column' = column /\ value' = value /\ cell' = cell
        /\ result' = result
    BY <1>6 DEF vars
  <2> QED
    BY <2>1 DEF TInv
<1>7. CASE Over
  <2>1. UNCHANGED vars
    BY <1>7 DEF Over
  <2> QED
    BY <1>6, <2>1
<1> QED
  BY <1>1, <1>2, <1>3, <1>4, <1>5, <1>6, <1>7 DEF Next

(***************************************************************************)
(* Every text of another program's file is shown in its own characters, in *)
(* every format and either byte order: its reference finds its strL, and   *)
(* Latin-1 becomes UTF-8.                                                  *)
(***************************************************************************)
THEOREM ForeignTextsAreShown == Spec => []TextsAreShown
<1>1. Init => TInv
  BY DEF Init, TInv
<1>2. TInv => TextsAreShown
  BY DEF TInv, TextsAreShown, HoldsText
<1> QED
  BY <1>1, <1>2, TInvNext, PTL DEF Spec
=============================================================================
