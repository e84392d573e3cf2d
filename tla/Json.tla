-------------------------------- MODULE Json --------------------------------
(***************************************************************************)
(* The JSON parser of core/src/json.rs.  A text is a sequence of symbols: a *)
(* punctuation mark, blank space, a literal, a numeral, and inside of       *)
(* strings a run of characters, an escape letter or the four digits of \u.  *)
(* Errors are one outcome, Err; their kind and offset go to a message only. *)
(*                                                                          *)
(* Numbers are f64: they are held in halves, so that 1.5 is 3, with a       *)
(* mantissa of MantissaBits; u64 ends at U64Max.                            *)
(***************************************************************************)
EXTENDS Integers, Sequences

CONSTANTS
    MAX_DEPTH,      \* of arrays and objects
    MantissaBits,   \* of a number, 53 for f64 (here counting halves)
    U64Max,         \* u64::MAX
    Numerals,       \* what the numerals stand for, in halves and exact
    Runs            \* runs of other characters

\* The marks.
Quote == "\""
Comma == ","
Space == " "
OpenBrace == "{"
CloseBrace == "}"

Whitespace == {Space, "\t", "\n", "\r"}
Literals == {"true", "false", "null"}
Marks == {OpenBrace, CloseBrace, "[", "]", Comma, ":", Quote, "\\", "/"} \cup Whitespace \cup Literals

\* What a text is made of.  "END" stands for the end behind it.
Symbol ==
    Marks \cup DOMAIN Numerals \cup Runs
      \cup {"b", "f", "n", "r", "t", "u", "0041", "0001", "0008", "000c", "d83d", "de00"}
      \cup {"A", "SOH", "BS", "FF", "SMILE"}

ASSUME JsonAssumption ==
    /\ MAX_DEPTH \in Nat /\ MantissaBits \in Nat /\ U64Max \in Nat
    /\ DOMAIN Numerals \cap Marks = {} /\ "END" \notin DOMAIN Numerals \cup Runs
    /\ \A numeral \in DOMAIN Numerals : Numerals[numeral] \in Int

\* What is read from a position: the value and the position behind it, or nothing.
Err == {}
Ok(value, pos) == {[value |-> value, pos |-> pos]}

Null == [kind |-> "null"]
Bool(b) == [kind |-> "bool", value |-> b]
Number(n) == [kind |-> "number", value |-> n]
String(s) == [kind |-> "string", value |-> s]
Array(items) == [kind |-> "array", value |-> items]
Object(members) == [kind |-> "object", value |-> members]     \* of <<key, value>>

-----------------------------------------------------------------------------
(* Numbers. *)

\* The nearest number with that mantissa, ties to even.
F64(n) ==
    LET unit == 2 ^ (CHOOSE k \in 0..31 : /\ n < 2 ^ (MantissaBits + k)
                                          /\ \A j \in 0..(k - 1) : n >= 2 ^ (MantissaBits + j))
        below == n \div unit
        rest == 2 * (n % unit)
    IN  IF rest < unit \/ (rest = unit /\ below % 2 = 0) THEN below * unit
        ELSE (below + 1) * unit

\* str::parse::<f64>.
Parsed == [numeral \in DOMAIN Numerals |-> F64(Numerals[numeral])]

\* The numerals are small enough for F64 to be defined.
ASSUME NumeralAssumption == \A numeral \in DOMAIN Numerals : Parsed[numeral] \in Int

\* Faulty variant: the bound is compared as an integer, and the number kept as it is.
as_u64_unrounded(json) ==
    IF json.kind = "number" /\ json.value >= 0 THEN {json.value \div 2} ELSE {}

\* The cast to u64 saturates, and u64::MAX as f64 is the power of two above it.
as_u64(json) ==
    LET n == json.value
        truncated == IF n \div 2 > U64Max THEN U64Max ELSE n \div 2
    IN  IF /\ json.kind = "number"
           /\ n >= 0 /\ n <= F64(2 * U64Max)
           /\ F64(2 * truncated) = n
        THEN {truncated} ELSE {}

-----------------------------------------------------------------------------
(* Reading on. *)

Peek(text, pos) == IF pos \in DOMAIN text THEN text[pos] ELSE "END"

Positions(text) == 1..(Len(text) + 1)

skip_ws(text, pos) ==
    CHOOSE q \in pos..(Len(text) + 1) :
        /\ Peek(text, q) \notin Whitespace
        /\ \A r \in pos..(q - 1) : Peek(text, r) \in Whitespace

\* A loop that reads one item behind the other.  item says, for a position,
\* which values are added there, where the item ends, and if the loop goes on;
\* the result is everything added from a position on.
Prefixed(values, rests) == {[value |-> values \o rest.value, pos |-> rest.pos] : rest \in rests}

Loop(text, item) ==
    LET from[pos \in Positions(text)] ==
          UNION {IF one.more THEN Prefixed(one.values, from[one.pos]) ELSE Ok(one.values, one.pos) :
                   one \in item[pos]}
    IN  from

Item(values, pos, more) == [values |-> values, pos |-> pos, more |-> more]

-----------------------------------------------------------------------------
(* Strings. *)

Escapes ==
    [letter \in {Quote, "\\", "/", "b", "f", "n", "r", "t"} |->
        CASE letter = "b" -> "BS" [] letter = "f" -> "FF" [] letter = "n" -> "\n"
          [] letter = "r" -> "\r" [] letter = "t" -> "\t" [] OTHER -> letter]
Controls == {"BS", "FF", "\n", "\r", "\t", "SOH"}

\* The four digits that occur, and the characters of the scalars that do.
Hex4 ==
    [digits \in {"0041", "0001", "0008", "000c", "d83d", "de00"} |->
        CASE digits = "0041" -> 65 [] digits = "0001" -> 1 [] digits = "0008" -> 8
          [] digits = "000c" -> 12 [] digits = "d83d" -> 55357 [] digits = "de00" -> 56832]
Chars ==
    [scalar \in {65, 1, 8, 12, 128512} |->
        CASE scalar = 65 -> "A" [] scalar = 1 -> "SOH" [] scalar = 8 -> "BS"
          [] scalar = 12 -> "FF" [] scalar = 128512 -> "SMILE"]

IsHex4(text, pos) == Peek(text, pos) \in DOMAIN Hex4

\* The character of the \u escape whose digits are at pos.
parse_unicode_escape(text, pos) ==
    LET first == Hex4[text[pos]]
        low == Hex4[text[pos + 3]]
    IN  IF ~IsHex4(text, pos) \/ first \in 56320..57343 THEN Err
        ELSE IF first \notin 55296..56319 THEN Ok(Chars[first], pos + 1)
        ELSE IF /\ Peek(text, pos + 1) = "\\" /\ Peek(text, pos + 2) = "u"
                /\ IsHex4(text, pos + 3) /\ low \in 56320..57343
             THEN Ok(Chars[65536 + (first - 55296) * 1024 + (low - 56320)], pos + 4)
             ELSE Err

parse_escape(text, pos) ==
    IF Peek(text, pos) = "u" THEN parse_unicode_escape(text, pos + 1)
    ELSE IF Peek(text, pos) \in DOMAIN Escapes THEN Ok(Escapes[text[pos]], pos + 1)
    ELSE Err

\* One character of a string, escaped or not.
NextChar(text, pos) ==
    IF Peek(text, pos) = "\\" THEN parse_escape(text, pos + 1)
    ELSE IF Peek(text, pos) \in Controls \cup {"END"} THEN Err
    ELSE Ok(text[pos], pos + 1)

Characters(text) ==
    Loop(text, [pos \in Positions(text) |->
            IF Peek(text, pos) = Quote THEN {Item(<<>>, pos + 1, FALSE)}
            ELSE {Item(<<char.value>>, char.pos, TRUE) : char \in NextChar(text, pos)}])

parse_string(text, pos) ==
    IF Peek(text, pos) = Quote THEN Characters(text)[pos + 1] ELSE Err

-----------------------------------------------------------------------------
(* Values.  Below, value has what parse_value reads from each position one  *)
(* level further down.                                                      *)

\* After an element: the position behind a comma, or behind the closing mark.
Separator(text, pos, close) ==
    LET at == skip_ws(text, pos)
    IN  CASE Peek(text, at) = Comma   -> {[more |-> TRUE, pos |-> at + 1]}
          [] Peek(text, at) = close -> {[more |-> FALSE, pos |-> at + 1]}
          [] OTHER                  -> Err

\* The value that a closing mark completes.
Closing == [open \in {OpenBrace, "["} |-> IF open = OpenBrace THEN CloseBrace ELSE "]"]
Collection(close, items) == IF close = "]" THEN Array(items) ELSE Object(items)

\* The rest of a member, from the colon.
Member(text, key, colon, value) ==
    IF Peek(text, colon) # ":" THEN Err
    ELSE {[value |-> <<key, v.value>>, pos |-> v.pos] : v \in value[skip_ws(text, colon + 1)]}

\* An element of an array, or a member of an object with its key.
Element(text, pos, close, value) ==
    IF close = "]" THEN value[pos]
    ELSE UNION {Member(text, key.value, skip_ws(text, key.pos), value) : key \in parse_string(text, pos)}

\* A comma before the closing mark asks for another element and is refused.
ElementItem(text, pos, close, value) ==
    UNION {{Item(<<element.value>>, after.pos, after.more) : after \in Separator(text, element.pos, close)} :
             element \in Element(text, skip_ws(text, pos), close, value)}

\* parse_object and parse_array, from the opening mark at pos.
Elements(text, pos, close, value) ==
    LET first == skip_ws(text, pos + 1)
        items == Loop(text, [p \in Positions(text) |-> ElementItem(text, p, close, value)])
    IN  IF Peek(text, first) = close THEN Ok(Collection(close, <<>>), first + 1)
        ELSE {[value |-> Collection(close, all.value), pos |-> all.pos] : all \in items[first]}

\* What stands for itself.
Scalar(text, pos) ==
    LET symbol == Peek(text, pos)
    IN  CASE symbol = Quote -> {[value |-> String(s.value), pos |-> s.pos] : s \in parse_string(text, pos)}
          [] symbol \in {"true", "false"} -> Ok(Bool(symbol = "true"), pos + 1)
          [] symbol = "null" -> Ok(Null, pos + 1)
          [] symbol \in DOMAIN Parsed -> Ok(Number(Parsed[symbol]), pos + 1)
          [] OTHER -> Err

\* What is read from each position where so many levels may still be opened.
Values(text) ==
    LET levels[left \in 0..MAX_DEPTH] ==
          [pos \in Positions(text) |->
             IF Peek(text, pos) \notin DOMAIN Closing THEN Scalar(text, pos)
             ELSE IF left = 0 THEN Err
             ELSE Elements(text, pos, Closing[text[pos]], levels[left - 1])]
    IN  levels

parse_value(text, pos, depth) == Values(text)[MAX_DEPTH - depth][pos]

\* The whole text is one value.
parse(text) ==
    {v.value : v \in {w \in parse_value(text, skip_ws(text, 1), 0) :
                        skip_ws(text, w.pos) = Len(text) + 1}}

\* JsonValue::get: the first member of that key, if this is an object.
Get(json, key) ==
    LET members == IF json.kind = "object" THEN json.value ELSE <<>>
        found == {i \in DOMAIN members : members[i][1] = key}
    IN  {members[i][2] : i \in {j \in found : \A k \in found : j <= k}}
=============================================================================
