------------------------------ MODULE Temporal ------------------------------
(***************************************************************************)
(* TDate, TTime and TTimestamp (types/type_date.cc, type_time.cc,          *)
(* type_timestamp.cc): a moment that is converted from one to another,     *)
(* through its text, and through the structures the ODBC and the Firebird  *)
(* engine give their libraries, in any order.                              *)
(***************************************************************************)
EXTENDS Decimal

CONSTANTS
  Moments,     \* the timestamps it may start from
  Unreadable   \* ConvertException of a text

DateFields == {"year", "month", "day"}
TimeFields == {"hour", "minute", "second"}

Fields(t) == CASE t = "date" -> DateFields [] t = "time" -> TimeFields
               [] t = "timestamp" -> DateFields \union TimeFields \union {"fraction"}

TemporalTypes == {"date", "time", "timestamp"}

Make(t, values) == [type |-> t, fields |-> [f \in Fields(t) |-> values[f]]]

-----------------------------------------------------------------------------
(* Conversions                                                             *)

\* The constructors of one type from another, where a Variant knows the cast:
\* what the other does not have is zero.
Convertible(x, t) == t = x.type \/ "timestamp" \in {t, x.type}

Converted(x, t) ==
  Make(t, [f \in Fields(t) |-> IF f \in Fields(x.type) THEN x.fields[f] ELSE 0])

\* A number as "%0wd" prints it.
Padded(w, n) ==
  LET sign   == IF n < 0 THEN <<"-">> ELSE <<>>
      digits == Chars(DigitsOf(IF n < 0 THEN -n ELSE n))
      zeros  == w - Len(sign) - Len(digits)
  IN  sign \o Chars(Zeros(IF zeros > 0 THEN zeros ELSE 0)) \o digits

DateText(d) == Padded(4, d["year"]) \o <<"-">> \o Padded(2, d["month"]) \o <<"-">> \o Padded(2, d["day"])
TimeText(d) == Padded(2, d["hour"]) \o <<":">> \o Padded(2, d["minute"]) \o <<":">> \o Padded(2, d["second"])

\* str()
MomentStr(x) ==
  CASE x.type = "date" -> DateText(x.fields)
    [] x.type = "time" -> TimeText(x.fields)
    [] x.type = "timestamp" ->
         DateText(x.fields) \o <<" ">> \o TimeText(x.fields) \o <<".">> \o Padded(3, x.fields["fraction"])

IsDigit(c) == \E i \in DOMAIN DigitChars : DigitChars[i] = c

\* Variant(String).asInt(), of no more digits than an int has.
ToInt(text) ==
  LET digits == IF text # <<>> /\ text[1] = "-" THEN Tail(text) ELSE text
      value  == AsInteger([i \in DOMAIN digits |-> DigitOf(digits[i])])
  IN  IF digits = <<>> \/ \E i \in DOMAIN digits : ~IsDigit(digits[i]) THEN Unreadable
      ELSE IF digits = text THEN value ELSE -value

\* utils::split(): an empty part at the end is none.
Split(text, del) ==
  LET With(parts, c) ==
        IF c = del THEN Append(parts, <<>>) ELSE [parts EXCEPT ![Len(parts)] = Append(@, c)]
      parts[i \in 0 .. Len(text)] == IF i = 0 THEN <<<<>>>> ELSE With(parts[i - 1], text[i])
      all == parts[Len(text)]
  IN  IF all[Len(all)] = <<>> THEN SubSeq(all, 1, Len(all) - 1) ELSE all

Unread(numbers) == \E i \in DOMAIN numbers : numbers[i] = Unreadable

\* A bug: the length is limited to that of a text without a time zone.
IsTimestamp_Short(text) ==
  /\ Len(text) \in 19 .. 23
  /\ text[5] = "-" /\ text[8] = "-" /\ text[11] \in {"T", " "} /\ text[14] = ":" /\ text[17] = ":"

\* isTimestamp(): as long as "YYYY-MM-DDTHH:MM:SS" at least and as
\* "YYYY-MM-DDTHH:MM:SS.SSS+00:00" at most, with the separators in place.
IsTimestamp(text) ==
  /\ Len(text) \in 19 .. 29
  /\ text[5] = "-" /\ text[8] = "-" /\ text[11] \in {"T", " "} /\ text[14] = ":" /\ text[17] = ":"

\* TTimestamp(str): the numbers are taken from their places, whatever they are.
\* The fraction is read from behind the next character, be it a point or the
\* sign of a time zone; what follows its digits is ignored.
ReadTimestamp(text) ==
  LET rest    == SubSeq(text, 21, Len(text))
      digits  == CHOOSE n \in 0 .. Len(rest) :
                   (\A i \in 1 .. n : IsDigit(rest[i])) /\ (n < Len(rest) => ~IsDigit(rest[n + 1]))
      numbers == <<ToInt(SubSeq(text, 1, 4)), ToInt(SubSeq(text, 6, 7)), ToInt(SubSeq(text, 9, 10)),
                   ToInt(SubSeq(text, 12, 13)), ToInt(SubSeq(text, 15, 16)), ToInt(SubSeq(text, 18, 19)),
                   IF rest = <<>> THEN 0 ELSE ToInt(SubSeq(rest, 1, digits))>>
  IN  IF ~IsTimestamp(text) \/ Unread(numbers) THEN Unreadable
      ELSE Make("timestamp", [year |-> numbers[1], month |-> numbers[2], day |-> numbers[3], hour |-> numbers[4],
                              minute |-> numbers[5], second |-> numbers[6], fraction |-> numbers[7]])

OfTimestamp(text, t) ==
  LET ts == ReadTimestamp(text) IN IF ts = Unreadable THEN ts ELSE Converted(ts, t)

\* TDate(str)
ReadDate(text) ==
  LET parts   == Split(text, "-")
      numbers == [i \in DOMAIN parts |-> ToInt(parts[i])]
  IN  IF IsTimestamp(text) THEN OfTimestamp(text, "date")
      ELSE IF Len(parts) # 3 \/ Unread(numbers) THEN Unreadable
      ELSE IF numbers[2] \in 1 .. 12 /\ numbers[3] \in 1 .. 31
        THEN Make("date", [year |-> numbers[1], month |-> numbers[2], day |-> numbers[3]])
      ELSE Unreadable

\* TTime(str): of the seconds, the first two characters.
ReadTime(text) ==
  LET parts   == Split(text, ":")
      numbers == [i \in DOMAIN parts |-> ToInt(IF i = 3 THEN SubSeq(parts[i], 1, 2) ELSE parts[i])]
      second  == IF Len(parts) = 3 THEN numbers[3] ELSE 0
  IN  IF IsTimestamp(text) THEN OfTimestamp(text, "time")
      ELSE IF Len(parts) \notin 2 .. 3 \/ Unread(numbers) THEN Unreadable
      ELSE IF numbers[1] \in 0 .. 23 /\ numbers[2] \in 0 .. 59 /\ second \in 0 .. 61
        THEN Make("time", [hour |-> numbers[1], minute |-> numbers[2], second |-> second])
      ELSE Unreadable

Read(text, t) ==
  CASE t = "date" -> ReadDate(text) [] t = "time" -> ReadTime(text) [] t = "timestamp" -> ReadTimestamp(text)

-----------------------------------------------------------------------------
(* The structures of the libraries                                         *)

\* operator tm() and the constructors from a tm, which has no fraction.
TmOf(x) ==
  [f \in Fields(x.type) \ {"fraction"} |->
     CASE f = "year" -> x.fields[f] - 1900 [] f = "month" -> x.fields[f] - 1 [] OTHER -> x.fields[f]]

\* A bug: the months of a tm are taken as they are.
FromTm_Month(tm, t) ==
  Make(t, [f \in Fields(t) |->
     CASE f = "year" -> tm[f] + 1900 [] f = "fraction" -> 0 [] OTHER -> tm[f]])

FromTm(tm, t) ==
  Make(t, [f \in Fields(t) |->
     CASE f = "year" -> tm[f] + 1900 [] f = "month" -> tm[f] + 1 [] f = "fraction" -> 0
       [] OTHER -> tm[f]])

\* What a database takes for a date and a time.
Valid(x) ==
  \A f \in Fields(x.type) :
    CASE f = "year" -> x.fields[f] \in 1 .. 9999
      [] f = "month" -> x.fields[f] \in 1 .. 12
      [] f = "day" -> x.fields[f] \in 1 .. 28
      [] f = "hour" -> x.fields[f] \in 0 .. 23
      [] OTHER -> x.fields[f] >= 0

\* date2iscdate() and its like, and getDate() and its like of the same value.
ThroughFirebird(x) == FromTm(TmOf(x), x.type)

\* tdate2odbc() and its like, and the getters: member by member.
ThroughOdbc(x) == Make(x.type, x.fields)

-----------------------------------------------------------------------------
(* Comparison                                                              *)

\* The members in the order they are looked at.
Significant(t) == CASE t = "date" -> <<"year", "month", "day">>
                    [] t = "time" -> <<"hour", "minute", "second">>
                    [] t = "timestamp" -> <<"year", "month", "day", "hour", "minute", "second">>

\* operator<, of two moments of the same type.
Earlier(x, y) ==
  \E i \in DOMAIN Significant(x.type) :
    /\ x.fields[Significant(x.type)[i]] < y.fields[Significant(x.type)[i]]
    /\ \A j \in 1 .. i - 1 : x.fields[Significant(x.type)[j]] = y.fields[Significant(x.type)[j]]

Same(x, y)  == x.fields = y.fields
Later(x, y) == ~Earlier(x, y) /\ ~Same(x, y)

-----------------------------------------------------------------------------
VARIABLES
  moment,   \* the date, time or timestamp
  original, \* the timestamp it was
  lost      \* history: the members it has lost on its way

temporalVars == <<moment, original, lost>>

TemporalInit ==
  /\ original \in Moments
  /\ moment = Make("timestamp", original)
  /\ lost = {}

Without(fields) == lost' = lost \union fields /\ UNCHANGED original

convert(t) ==
  /\ Convertible(moment, t)
  /\ moment' = Converted(moment, t)
  /\ Without(Fields("timestamp") \ Fields(t))

throughText(t) ==
  /\ Read(MomentStr(moment), t) # Unreadable
  /\ moment' = Read(MomentStr(moment), t)
  /\ Without(Fields("timestamp") \ Fields(t))

throughOdbc ==
  /\ Valid(moment)
  /\ moment' = ThroughOdbc(moment)
  /\ Without({})

throughFirebird ==
  /\ Valid(moment)
  /\ moment' = ThroughFirebird(moment)
  /\ Without({"fraction"})

TemporalNext ==
  \/ \E t \in TemporalTypes : convert(t) \/ throughText(t)
  \/ throughOdbc \/ throughFirebird

-----------------------------------------------------------------------------
\* Each member is what it was at first, or zero if a type or a structure on the
\* way does not have it.
MembersKept ==
  \A f \in Fields(moment.type) : moment.fields[f] = IF f \in lost THEN 0 ELSE original[f]

\* What a database can have is read from its own text, with a fraction of up to
\* nine digits, as its own type, and a timestamp as a date and a time too.
TextsRead ==
  Valid(moment) =>
    \A t \in TemporalTypes : t = moment.type \/ moment.type = "timestamp" => Read(MomentStr(moment), t) # Unreadable

\* Of two moments exactly one comes before the other, unless they are the same:
\* the one whose first member that differs is less.  Timestamps that differ in
\* their fractions only are left out: each is greater than the other.
Together(x, y) == x.type = y.type /\ \A i \in DOMAIN Significant(x.type) :
                    x.fields[Significant(x.type)[i]] = y.fields[Significant(x.type)[i]]

OneOrder ==
  \A m \in Moments :
    LET y == Converted(Make("timestamp", m), moment.type)
    IN  ~Together(moment, y) =>
          /\ Earlier(moment, y) = Later(y, moment) /\ Earlier(moment, y) # Earlier(y, moment)
          /\ ~Same(moment, y)

\* A moment keeps its members through the conversions of the databases and of the
\* types, its text is read back, and moments that differ have one order.
MomentKept == MembersKept /\ TextsRead /\ OneOrder
=============================================================================
