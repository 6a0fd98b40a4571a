------------------------------ MODULE Values ------------------------------
(***************************************************************************)
(* LiteralValue and the ways a literal leaves the process and comes back:  *)
(* as text with its data type (D-Bus, Redland, Sesame, SPARQL results), on *)
(* the socket (DataStream), and as N3.                                     *)
(*                                                                         *)
(* Texts are tokens: numbers in halves, written plainly or with an         *)
(* exponent; words; dates and times in days of DayHours hours.  A value is *)
(* its exact text.  The width of int also bounds the hours of a time_t.    *)
(***************************************************************************)
EXTENDS Integers

CONSTANTS
  IntBits, LongBits,   \* the width of int and of qlonglong
  DayHours,            \* the hours of a day
  DoubleDigits,        \* halves survive QString::number(.., 'e', 10) up to here
  VaTexts              \* the texts that are parsed

ASSUME ValuesAssumption ==
  /\ IntBits \in Nat \ {0} /\ LongBits \in Nat /\ LongBits >= IntBits
  /\ DayHours \in Nat \ {0} /\ DoubleDigits \in Nat

VARIABLES
  vaLit,       \* the literal
  vaBy,        \* how it was made
  vaTypeHash   \* literalToN3: the type written for each kind (one is cached: a bound)

vaVars == <<vaLit, vaBy, vaTypeHash>>

Num(n) == [form |-> "num", n |-> n]
Exp(n) == [form |-> "exp", n |-> n]
Word(w) == [form |-> "word", w |-> w]
TimeText(h, frac, tz) == [form |-> "time", h |-> h, frac |-> frac, tz |-> tz]
DateText(d) == [form |-> "date", d |-> d]
DateTimeText(d, h, frac, tz) == [form |-> "dateTime", d |-> d, h |-> h, frac |-> frac, tz |-> tz]
Bytes(w) == [form |-> "base64", w |-> w]
NoValue == [form |-> "none"]

Kinds == {"Int", "LongLong", "UInt", "ULongLong", "Bool", "Double", "String",
          "Date", "Time", "DateTime", "ByteArray"}

typeFromDataTypeUri(uri) ==
  CASE uri \in {"int", "integer", "negativeInteger", "decimal", "short"} -> "Int"
    [] uri = "long" -> "LongLong"
    [] uri \in {"unsignedInt", "nonNegativeInteger", "unsignedShort"} -> "UInt"
    [] uri = "unsignedLong" -> "ULongLong"
    [] uri = "boolean" -> "Bool"
    [] uri \in {"double", "float"} -> "Double"
    [] uri \in {"string", "XMLLiteral"} -> "String"
    [] uri = "date" -> "Date"
    [] uri = "time" -> "Time"
    [] uri = "dateTime" -> "DateTime"
    [] uri = "base64Binary" -> "ByteArray"
    [] OTHER -> "Invalid"
DataTypes ==
  {"int", "integer", "decimal", "long", "nonNegativeInteger", "unsignedInt", "unsignedLong", "boolean",
   "double", "string", "XMLLiteral", "date", "time", "dateTime", "base64Binary", "unknown"}

\* A bug: the unsigned kinds share the types of the signed ones.
dataTypeUriFromType_Signed(kind) ==
  CASE kind \in {"Int", "UInt"} -> "int"
    [] kind \in {"LongLong", "ULongLong"} -> "long"
    [] kind = "Bool" -> "boolean"
    [] kind = "Double" -> "double"
    [] kind = "String" -> "string"
    [] kind = "Date" -> "date"
    [] kind = "Time" -> "time"
    [] kind = "DateTime" -> "dateTime"
    [] kind = "ByteArray" -> "base64Binary"

dataTypeUriFromType(kind) ==
  CASE kind = "Int" -> "int"
    [] kind = "LongLong" -> "long"
    [] kind = "UInt" -> "unsignedInt"
    [] kind = "ULongLong" -> "unsignedLong"
    [] kind = "Bool" -> "boolean"
    [] kind = "Double" -> "double"
    [] kind = "String" -> "string"
    [] kind = "Date" -> "date"
    [] kind = "Time" -> "time"
    [] kind = "DateTime" -> "dateTime"
    [] kind = "ByteArray" -> "base64Binary"

Pow2[n \in Nat] == IF n = 0 THEN 1 ELSE 2 * Pow2[n - 1]
Range_(kind) ==
  CASE kind = "Int" -> (-Pow2[IntBits - 1])..(Pow2[IntBits - 1] - 1)
    [] kind = "UInt" -> 0..(Pow2[IntBits] - 1)
    [] kind = "LongLong" -> (-Pow2[LongBits - 1])..(Pow2[LongBits - 1] - 1)
    [] kind = "ULongLong" -> 0..(Pow2[LongBits] - 1)
Numeric == {"Int", "LongLong", "UInt", "ULongLong"}
\* A conversion to a narrower kind keeps the low bits.
Wrap(n, kind) ==
  LET size == Pow2[IF kind \in {"Int", "UInt"} THEN IntBits ELSE LongBits]
  IN CHOOSE m \in Range_(kind) : (m - n) % size = 0

Invalid == [plain |-> FALSE, dt |-> "", kind |-> "Invalid", val |-> NoValue]
\* dataTypeUri() fills in the type of the kind when there is none.
LiteralOf(kind, val, dt) ==
  [plain |-> FALSE, kind |-> kind, val |-> val, dt |-> IF dt = "" THEN dataTypeUriFromType(kind) ELSE dt]
createPlainLiteral(text) == [plain |-> TRUE, dt |-> "", kind |-> "String", val |-> text]

VaInit == vaLit = Invalid /\ vaBy = [how |-> "none"] /\ vaTypeHash = [kind |-> "Invalid", dt |-> ""]
-----------------------------------------------------------------------------
(* DateTime *)

\* The fraction is read as a number of milliseconds: one of more than three
\* digits makes the time invalid.  The hours of a time zone are added within the
\* day, in Qt 4 to midnight when the time was invalid.
fromTimeString(h, frac, tz) ==
  IF frac = "long" THEN (IF tz = 0 THEN NoValue ELSE TimeText((-tz) % DayHours, "", 0))
  ELSE TimeText((h - tz) % DayHours, frac, 0)

\* What follows the day is not looked at.
fromDateString(text) == IF text.form \in {"date", "dateTime"} THEN DateText(text.d) ELSE NoValue

\* A date alone is midnight; the time zone does not change the date.
fromDateTimeString(text) ==
  IF text.form = "date" THEN DateTimeText(text.d, 0, "", 0)
  ELSE IF text.form # "dateTime" THEN NoValue
  ELSE LET time == fromTimeString(text.h, text.frac, text.tz)
       IN IF time = NoValue THEN NoValue ELSE DateTimeText(text.d, time.h, time.frac, 0)

\* QDateTime::toTime_t: the hours since day 0, all bits set when there are more
\* than an uint holds or fewer than none.
toTime_t(val) ==
  LET hours == val.d * DayHours + val.h
  IN IF hours \in Range_("UInt") THEN hours ELSE Pow2[IntBits] - 1
fromTime_t(t) == DateTimeText(t \div DayHours, t % DayHours, "", 0)
-----------------------------------------------------------------------------
(* LiteralValue *)

\* QString::toInt and the like
Whole(text, kind) == text.form = "num" /\ text.n % 2 = 0 /\ text.n \div 2 \in Range_(kind)

Truth(text) ==
  IF Whole(text, "Int") THEN Word(IF text.n # 0 THEN "true" ELSE "false")
  ELSE IF text \in {Word("true"), Word("yes")} THEN Word("true")
  ELSE IF text \in {Word("false"), Word("no")} THEN Word("false")
  ELSE NoValue

\* fromString( value, QVariant::Type )
Parsed(text, kind) ==
  CASE kind \in Numeric -> IF Whole(text, kind) THEN text ELSE NoValue
    [] kind = "Double" -> IF text.form \in {"num", "exp"} THEN Num(text.n) ELSE NoValue
    [] kind = "Bool" -> Truth(text)
    [] kind = "Date" -> fromDateString(text)
    [] kind = "Time" -> IF text.form = "time" THEN fromTimeString(text.h, text.frac, text.tz) ELSE NoValue
    [] kind = "DateTime" -> fromDateTimeString(text)
    [] kind = "ByteArray" -> IF text.form = "base64" THEN text ELSE Bytes("of something")
    [] OTHER -> text

fromString(text, dt) ==
  LET known == typeFromDataTypeUri(dt)
      kind == IF known = "Invalid" THEN "String" ELSE known
      val == Parsed(text, kind)
  IN IF val = NoValue THEN Invalid ELSE LiteralOf(kind, val, dt)

\* A double is written with the digits that 'e', 10 keeps.
Rounded(n) == IF n \in (-DoubleDigits)..DoubleDigits THEN n ELSE 2 * (n \div 2)
toString(lit) == IF lit.kind = "Double" THEN Exp(Rounded(lit.val.n)) ELSE lit.val

\* QVariant::canConvert and the conversions of a variant
canConvert(kind, to) ==
  \/ kind = to
  \/ to \in Numeric \cup {"Double", "Bool"} /\ kind \in Numeric \cup {"Double", "Bool", "String", "ByteArray"}
  \/ to = "String" /\ kind \in Kinds
  \/ to \in {"Date", "Time"} /\ kind \in {"DateTime", "String"}
  \/ to = "DateTime" /\ kind \in {"Date", "String"}
  \/ to = "ByteArray" /\ kind \in Numeric \cup {"Double", "String"}

Converted(variant, to) ==
  CASE variant.kind \in Numeric ->
         IF to = "Double" THEN variant.val ELSE Num(2 * Wrap(variant.val.n \div 2, to))
    [] variant.kind = "Double" ->
         IF to = "Double" THEN variant.val ELSE Num(2 * Wrap((variant.val.n + 1) \div 2, to))
    [] variant.kind = "Bool" -> Num(IF variant.val = Word("true") THEN 2 ELSE 0)
    [] OTHER -> Parsed(variant.val, to)

fromVariant(variant, dt) ==
  LET known == typeFromDataTypeUri(dt)
      time == IF canConvert(variant.kind, "Int") THEN Converted(variant, "Int") ELSE NoValue
      number == IF known \in {"Int", "UInt", "Double"} /\ canConvert(variant.kind, known)
                THEN Converted(variant, known) ELSE NoValue
  IN CASE dt = "dateTime" /\ time # NoValue -> LiteralOf("DateTime", fromTime_t(Wrap(time.n \div 2, "UInt")), "")
       [] dt # "dateTime" /\ number # NoValue -> LiteralOf(known, number, dt)
       [] (dt # "dateTime" \/ time = NoValue) /\ number = NoValue ->
            IF variant.kind = known THEN LiteralOf(known, variant.val, dt) ELSE fromString(variant.val, dt)
-----------------------------------------------------------------------------
(* The ways out and back *)

\* An invalid literal becomes an empty node.
ThroughText(lit) == IF lit.plain THEN lit ELSE fromString(toString(lit), lit.dt)

\* Five kinds go as they are, without their data type; the others as text.
writeLiteralValue(lit) ==
  CASE lit.plain -> <<TRUE, lit.val>>
    [] ~lit.plain /\ lit.kind \in {"String", "Int", "Bool", "ByteArray"} -> <<FALSE, lit.kind, lit.val>>
    [] lit.kind = "DateTime" -> <<FALSE, lit.kind, toTime_t(lit.val)>>
    [] OTHER -> <<FALSE, lit.kind, toString(lit), lit.dt>>

readLiteralValue(fields) ==
  CASE fields[1] -> createPlainLiteral(fields[2])
    [] ~fields[1] /\ fields[2] \in {"String", "Int", "Bool", "ByteArray"} -> LiteralOf(fields[2], fields[3], "")
    [] ~fields[1] /\ fields[2] = "DateTime" -> LiteralOf("DateTime", fromTime_t(fields[3]), "")
    [] OTHER -> fromString(fields[3], fields[4])

\* A tab is written as a backslash and a t; what is read are these two.
Escaped(text) == IF text = Word("a tab") THEN Word("\\t") ELSE text
decodeLiteral(text) == text

\* The type is the one the first literal of the kind was written with.
TypeOf(lit) == IF vaTypeHash.kind = lit.kind THEN vaTypeHash.dt ELSE lit.dt
literalToN3(lit) == [val |-> Escaped(toString(lit)), dt |-> IF lit.plain THEN "" ELSE TypeOf(lit)]
parseNode(n3) ==
  IF n3.dt = "" THEN createPlainLiteral(decodeLiteral(n3.val)) ELSE fromString(decodeLiteral(n3.val), n3.dt)

\* A token without quotes is a double or plain text, whatever came before.
ParsedToken(text) ==
  IF text.form \in {"num", "exp"} THEN LiteralOf("Double", Num(text.n), "") ELSE createPlainLiteral(text)

Trip(channel, lit) ==
  CASE channel = "text" -> ThroughText(lit)
    [] channel = "wire" -> readLiteralValue(writeLiteralValue(lit))
    [] channel = "n3" -> parseNode(literalToN3(lit))
-----------------------------------------------------------------------------
Make(lit, by) == vaLit' = lit /\ vaBy' = by

\* Literals do not depend on one another but for the types cached by N3.
NewLiteral == vaBy.how = "none"

destroyLiteral ==
  /\ vaBy.how = "travel" /\ vaBy.channel = "n3"
  /\ Make(Invalid, [how |-> "none"])
  /\ UNCHANGED vaTypeHash

parse(text, dt) ==
  /\ NewLiteral
  /\ Make(fromString(text, dt), [how |-> "parse", text |-> text, dt |-> dt])
  /\ UNCHANGED vaTypeHash
plain(text) == NewLiteral /\ Make(createPlainLiteral(text), [how |-> "plain"]) /\ UNCHANGED vaTypeHash
bareToken(text) == NewLiteral /\ Make(ParsedToken(text), [how |-> "token"]) /\ UNCHANGED vaTypeHash

\* The constructors and operator=; an int or an uint keeps a data type it fits.
assign(kind, text) ==
  LET val == Parsed(text, kind)
      kept == kind \in {"Int", "UInt"} /\ typeFromDataTypeUri(vaLit.dt) = kind
  IN /\ val # NoValue
     /\ vaBy.how = "none" \/ (vaBy.how = "parse" /\ kind \in {"Int", "UInt"})   \* only these look back
     /\ Make(LiteralOf(kind, val, IF kept THEN vaLit.dt ELSE ""), [how |-> "assign"])
     /\ UNCHANGED vaTypeHash

convert(dt) ==
  /\ vaLit # Invalid /\ vaBy.how \in {"parse", "assign"}
  /\ Make(fromVariant([kind |-> vaLit.kind, val |-> vaLit.val], dt), [how |-> "convert"])
  /\ UNCHANGED vaTypeHash

travel(channel) ==
  /\ vaLit # Invalid /\ vaBy.how # "travel"
  /\ Make(Trip(channel, vaLit), [how |-> "travel", channel |-> channel, sent |-> vaLit])
  /\ IF channel = "n3" /\ ~vaLit.plain /\ vaTypeHash.kind = "Invalid"
     THEN vaTypeHash' = [kind |-> vaLit.kind, dt |-> vaLit.dt]
     ELSE UNCHANGED vaTypeHash

VaNext ==
  \/ \E text \in VaTexts, dt \in DataTypes : parse(text, dt)
  \/ \E text \in VaTexts : plain(text) \/ bareToken(text)
  \/ \E text \in VaTexts, kind \in Kinds : assign(kind, text)
  \/ \E dt \in DataTypes : convert(dt)
  \/ \E channel \in {"text", "wire", "n3"} : travel(channel)
  \/ destroyLiteral
-----------------------------------------------------------------------------
\* What XML Schema says a text means, in UTC; NoValue when it is no text of the
\* type.  A text of more than three digits of a second is rounded to milliseconds.
Meaning(text, dt) ==
  LET kind == typeFromDataTypeUri(dt)
      hours == text.h - text.tz
      frac == IF text.frac = "long" THEN "ms" ELSE text.frac
  IN CASE dt = "decimal" /\ text.form = "num" -> text
       [] dt # "decimal" /\ kind \in Numeric /\ text.form = "num" -> IF text.n % 2 = 0 THEN text ELSE NoValue
       [] kind = "Double" /\ text.form \in {"num", "exp"} -> Num(text.n)
       [] kind = "Bool" /\ text \in {Word("true"), Num(2)} -> Word("true")
       [] kind = "Bool" /\ text \in {Word("false"), Num(0)} -> Word("false")
       [] kind = "Date" /\ text.form = "date" -> text
       [] kind = "Time" /\ text.form = "time" -> TimeText(hours % DayHours, frac, 0)
       [] kind = "DateTime" /\ text.form = "dateTime" ->
            DateTimeText(text.d + (hours \div DayHours), hours % DayHours, frac, 0)
       [] kind = "ByteArray" /\ text.form = "base64" -> text
       [] kind \in {"String", "Invalid"} -> text
       [] OTHER -> NoValue

\* The texts the code gets wrong: a time zone that leads to another day, and one
\* after a long fraction.
Misread(text, dt) ==
  \/ text.form = "dateTime" /\ typeFromDataTypeUri(dt) = "DateTime" /\ (text.h - text.tz) \notin 0..(DayHours - 1)
  \/ /\ text.form \in {"time", "dateTime"} /\ typeFromDataTypeUri(dt) \in {"Time", "DateTime"}
     /\ text.frac = "long" /\ text.tz # 0

\* What a way loses of a value: digits of a double; on the socket parts of a second
\* and what no uint of seconds holds; in N3 the tab.
LostValue(channel, lit) ==
  \/ channel \in {"text", "n3"} /\ lit.kind = "Double" /\ Rounded(lit.val.n) # lit.val.n
  \/ channel = "wire" /\ lit.kind = "Double" /\ Rounded(lit.val.n) # lit.val.n
  \/ channel = "wire" /\ lit.kind = "DateTime" /\ (lit.val.frac # "" \/ fromTime_t(toTime_t(lit.val)) # lit.val)
  \/ channel = "n3" /\ lit.val = Word("a tab")

\* And of its data type: on the socket that of the five kinds that go without it,
\* in N3 one other than the first of its kind had.
LostType(channel, lit) ==
  \/ /\ channel = "wire" /\ ~lit.plain /\ lit.kind \in {"String", "Int", "Bool", "ByteArray", "DateTime"}
     /\ lit.dt # dataTypeUriFromType(lit.kind)
  \/ channel = "n3" /\ ~lit.plain /\ TypeOf(lit) # lit.dt

(***************************************************************************)
(* literalvalue.h:381: XML schema types are converted.  A text is read as  *)
(* what it means or refused, a literal comes back valid and of its kind,   *)
(* and equal as LiteralValue::operator== compares: plain or not, with its  *)
(* value and its data type.  Whatever a way loses it loses once: a second  *)
(* trip changes nothing.  What the code misreads, and the values and types *)
(* it loses, are named.                                                    *)
(***************************************************************************)
ValuesTravel ==
  /\ vaBy.how = "parse" /\ Meaning(vaBy.text, vaBy.dt) # NoValue /\ ~Misread(vaBy.text, vaBy.dt) =>
       vaLit = Invalid \/ vaLit.val = Meaning(vaBy.text, vaBy.dt)
  /\ vaBy.how = "travel" =>
       LET sent == vaBy.sent
       IN /\ vaLit.kind = sent.kind /\ vaLit.plain = sent.plain
          /\ vaLit.val = sent.val \/ LostValue(vaBy.channel, sent)
          /\ vaLit.dt = sent.dt \/ LostType(vaBy.channel, sent)
          /\ Trip(vaBy.channel, vaLit) = vaLit
  /\ vaLit # Invalid /\ ~vaLit.plain =>
       typeFromDataTypeUri(vaLit.dt) \in {vaLit.kind, "Invalid"}
=============================================================================
