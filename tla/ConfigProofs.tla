---------------------------- MODULE ConfigProofs ----------------------------
(***************************************************************************)
(* Proofs about modules Json, Config and ConfigFile.                        *)
(***************************************************************************)
EXTENDS ConfigFile, NaturalFacts, SequenceTheorems

-----------------------------------------------------------------------------
(* Reading on. *)

\* The marks and the other symbols that the parser looks for are different.
LEMMA MarkFacts ==
    /\ Quote \notin {"END", "\\", "]", "true", "false", "null", "\n", "\r", "\t"} \cup Controls
    /\ OpenBrace \notin {"END", "[", "]", ":", "\\", "\t", "\n", "\r", Quote, CloseBrace, Space, "true", "false", "null"}
    /\ CloseBrace \notin {"END", "[", "]", ":", "\\", "\t", "\n", "\r", Quote, Comma, Space, "true", "false", "null"}
    /\ Comma \notin {"END", "[", "]", ":", "\\", "\t", "\n", "\r", Quote, Space}
    /\ Space \notin {"END", "[", "]", ":", "\\", "\t", "\n", "\r", Quote, "true", "false", "null"} \cup Controls
BY Zenon DEF Quote, OpenBrace, CloseBrace, Comma, Space, Controls

LEMMA SymbolFacts ==
    /\ "END" \notin Symbol /\ "END" \notin Whitespace
    /\ Marks \subseteq Symbol /\ Quote \in Marks /\ Quote \in Symbol
    /\ Whitespace \cap {OpenBrace, CloseBrace, "[", "]", Comma, ":", Quote, "\\", "true", "false", "null"} = {}
<1>1. "END" \notin Whitespace
  BY MarkFacts DEF Whitespace
<1>2. "END" \notin Marks /\ Quote \in Marks
  BY MarkFacts, <1>1 DEF Marks, Literals
<1>3. "END" \notin Symbol /\ Marks \subseteq Symbol
  BY JsonAssumption, <1>2 DEF Symbol
<1>4. Whitespace \cap {OpenBrace, CloseBrace, "[", "]", Comma, ":", Quote, "\\", "true", "false", "null"} = {}
  BY MarkFacts DEF Whitespace
<1>5. QED
  BY <1>1, <1>2, <1>3, <1>4

LEMMA PositionFacts ==
    ASSUME NEW text \in Seq(Symbol)
    PROVE  /\ Len(text) \in Nat /\ Positions(text) \subseteq Nat
           /\ Positions(text) = 1 .. (Len(text) + 1)
           /\ \A pos \in Positions(text) :
                /\ Peek(text, pos) # "END" =>
                     /\ pos \in 1 .. Len(text) /\ pos + 1 \in Positions(text)
                     /\ Peek(text, pos) = text[pos]
                /\ pos \in 1 .. Len(text) => Peek(text, pos) = text[pos] /\ text[pos] \in Symbol
           /\ Peek(text, Len(text) + 1) = "END"
<1>1. Len(text) \in Nat /\ DOMAIN text = 1 .. Len(text) /\ \A i \in 1 .. Len(text) : text[i] \in Symbol
  OBVIOUS
<1>2. QED
  BY <1>1, SymbolFacts DEF Positions, Peek

LEMMA SkipType ==
    ASSUME NEW text \in Seq(Symbol), NEW pos \in Positions(text)
    PROVE  /\ skip_ws(text, pos) \in pos .. (Len(text) + 1)
           /\ skip_ws(text, pos) \in Positions(text)
           /\ Peek(text, skip_ws(text, pos)) \notin Whitespace
           /\ \A r \in pos .. (skip_ws(text, pos) - 1) : Peek(text, r) \in Whitespace
<1> DEFINE N == Len(text) + 1
           T == {q \in pos .. N : Peek(text, q) \notin Whitespace}
           S(q) == /\ Peek(text, q) \notin Whitespace
                   /\ \A r \in pos .. (q - 1) : Peek(text, r) \in Whitespace
<1>1. Len(text) \in Nat /\ pos \in Nat /\ pos >= 1 /\ pos <= N
  BY DEF Positions
<1>2. N \in T
  BY <1>1, PositionFacts, SymbolFacts
<1>3. PICK q \in T : \A y \in T : q <= y
  <2>1. T \subseteq Nat
    BY <1>1
  <2> HIDE DEF T
  <2>2. QED
    BY <1>2, <2>1, Least
<1>4. q \in pos .. N /\ S(q)
  BY <1>1, <1>3
<1>5. skip_ws(text, pos) \in pos .. N /\ S(skip_ws(text, pos))
  <2> HIDE DEF S, N
  <2>1. skip_ws(text, pos) = CHOOSE x \in pos .. N : S(x)
    BY DEF skip_ws, S, N
  <2>2. QED
    BY <1>4, <2>1
<1>6. QED
  BY <1>1, <1>5 DEF Positions

\* Nothing to skip, and one blank.
LEMMA SkipNone ==
    ASSUME NEW text \in Seq(Symbol), NEW pos \in Positions(text), Peek(text, pos) \notin Whitespace
    PROVE  skip_ws(text, pos) = pos
<1>1. skip_ws(text, pos) \in pos .. (Len(text) + 1) /\ pos \in Nat /\ Len(text) \in Nat
  BY SkipType, PositionFacts
<1>2. skip_ws(text, pos) > pos => pos \in pos .. (skip_ws(text, pos) - 1)
  BY <1>1
<1>3. QED
  BY <1>1, <1>2, SkipType

LEMMA SkipOne ==
    ASSUME NEW text \in Seq(Symbol), NEW pos \in Positions(text), Peek(text, pos) = Space,
           Peek(text, pos + 1) \notin Whitespace
    PROVE  skip_ws(text, pos) = pos + 1
<1>1. skip_ws(text, pos) \in pos .. (Len(text) + 1) /\ pos \in Nat /\ Len(text) \in Nat
  BY SkipType, PositionFacts
<1>2. skip_ws(text, pos) > pos + 1 => pos + 1 \in pos .. (skip_ws(text, pos) - 1)
  BY <1>1
<1>3. skip_ws(text, pos) # pos
  BY SkipType DEF Whitespace
<1>4. QED
  BY <1>1, <1>2, <1>3, SkipType

-----------------------------------------------------------------------------
(* Loops. *)

\* Every item that goes on ends further on.
Advances(text, item) ==
    \A pos \in Positions(text) : \A one \in item[pos] : one.more => one.pos \in (pos + 1) .. (Len(text) + 1)

\* What a loop adds from a position on, if from has it for the positions behind.
LoopBody(from, item, pos) ==
    UNION {IF one.more THEN Prefixed(one.values, from[one.pos]) ELSE Ok(one.values, one.pos) :
             one \in item[pos]}

LEMMA PrefixedOne ==
    ASSUME NEW values, NEW value, NEW pos
    PROVE  Prefixed(values, Ok(value, pos)) = Ok(values \o value, pos)
BY DEF Prefixed, Ok

\* The recursive definition of Loop has a solution, and Loop is one.
LEMMA LoopEquation ==
    ASSUME NEW text \in Seq(Symbol), NEW item, Advances(text, item)
    PROVE  \A pos \in Positions(text) : Loop(text, item)[pos] = LoopBody(Loop(text, item), item, pos)
<1> DEFINE N == Len(text) + 1
           Solves(f, k) == \A pos \in Positions(text) : pos > N - k => f[pos] = LoopBody(f, item, pos)
           S == {k \in Nat : k <= N => \E f : Solves(f, k)}
<1>1. N \in Nat /\ Positions(text) = 1 .. N
  BY PositionFacts
<1>2. 0 \in S
  BY <1>1
<1>3. ASSUME NEW k \in Nat, k \in S PROVE k + 1 \in S
  <2>1. SUFFICES ASSUME k + 1 <= N PROVE \E f : Solves(f, k + 1)
    OBVIOUS
  <2>2. PICK f : Solves(f, k)
    BY <1>1, <1>3, <2>1
  <2> DEFINE p == N - k
             g == [pos \in Positions(text) |-> IF pos = p THEN LoopBody(f, item, p) ELSE f[pos]]
  <2>3. p \in Positions(text)
    BY <1>1, <2>1
  <2>4. ASSUME NEW pos \in Positions(text), pos >= p
        PROVE  LoopBody(g, item, pos) = LoopBody(f, item, pos)
    <3>1. ASSUME NEW one \in item[pos], one.more PROVE g[one.pos] = f[one.pos]
      <4>1. one.pos \in (pos + 1) .. N
        BY <3>1 DEF Advances
      <4>2. one.pos \in Positions(text) /\ one.pos # p
        BY <1>1, <2>1, <2>4, <4>1
      <4>3. QED
        BY <4>2
    <3> HIDE DEF g
    <3>2. QED
      BY <3>1 DEF LoopBody
  <2>5. ASSUME NEW pos \in Positions(text), pos > N - (k + 1)
        PROVE  g[pos] = LoopBody(g, item, pos)
    <3>1. pos >= p
      BY <1>1, <2>1, <2>5
    <3>2. CASE pos = p
      BY <2>3, <2>4, <3>1, <3>2
    <3>3. CASE pos # p
      <4>1. g[pos] = f[pos] /\ pos > N - k
        BY <1>1, <2>1, <3>1, <3>3
      <4>2. f[pos] = LoopBody(f, item, pos)
        BY <2>2, <4>1
      <4>3. QED
        BY <2>4, <3>1, <4>1, <4>2
    <3>4. QED
      BY <3>2, <3>3
  <2>6. Solves(g, k + 1)
    BY <2>5
  <2>7. QED
    BY <2>6
<1>4. N \in S
  <2> HIDE DEF S
  <2>1. QED
    BY <1>1, <1>2, <1>3, Induction
<1>5. PICK f : Solves(f, N)
  BY <1>1, <1>4
<1> DEFINE h == [pos \in Positions(text) |-> f[pos]]
<1>6. ASSUME NEW pos \in Positions(text) PROVE h[pos] = LoopBody(h, item, pos)
  <2>1. f[pos] = LoopBody(f, item, pos)
    BY <1>1, <1>5
  <2>2. ASSUME NEW one \in item[pos], one.more PROVE h[one.pos] = f[one.pos]
    <3>1. one.pos \in (pos + 1) .. N
      BY <2>2 DEF Advances
    <3>2. one.pos \in Positions(text)
      BY <1>1, <3>1
    <3>3. QED
      BY <3>2
  <2>3. LoopBody(h, item, pos) = LoopBody(f, item, pos)
    <3> HIDE DEF h
    <3>1. QED
      BY <2>2 DEF LoopBody
  <2>4. QED
    BY <2>1, <2>3
<1> DEFINE Sol(from) == from = [pos \in Positions(text) |-> LoopBody(from, item, pos)]
<1>7. Sol(h)
  BY <1>6
<1>8. Loop(text, item) = CHOOSE from : Sol(from)
  BY DEF Loop, LoopBody
<1>9. Sol(Loop(text, item))
  <2> HIDE DEF Sol
  <2>1. QED
    BY <1>7, <1>8
<1>10. QED
  BY <1>9

\* Outcomes with a value in V, that end behind pos and inside the text.
Within(outcomes, V, pos, text) ==
    \A one \in outcomes : one.value \in V /\ one.pos \in (pos + 1) .. (Len(text) + 1)

\* What a loop collects from well-typed items is well typed.
LEMMA LoopType ==
    ASSUME NEW text \in Seq(Symbol), NEW V, NEW item,
           \A pos \in Positions(text) : \A one \in item[pos] :
              one.values \in Seq(V) /\ one.pos \in (pos + 1) .. (Len(text) + 1)
    PROVE  \A pos \in Positions(text) : Within(Loop(text, item)[pos], Seq(V), pos, text)
<1> DEFINE N == Len(text) + 1
           L == Loop(text, item)
           S == {k \in Nat : \A pos \in Positions(text) : pos > N - k => Within(L[pos], Seq(V), pos, text)}
<1>1. N \in Nat /\ Positions(text) = 1 .. N
  BY PositionFacts
<1>2. Advances(text, item)
  BY DEF Advances
<1>3. \A pos \in Positions(text) : L[pos] = LoopBody(L, item, pos)
  BY <1>2, LoopEquation
<1> HIDE DEF L
<1>4. 0 \in S
  BY <1>1
<1>5. ASSUME NEW k \in Nat, k \in S PROVE k + 1 \in S
  <2>1. SUFFICES ASSUME NEW pos \in Positions(text), pos > N - (k + 1), NEW r \in L[pos]
                 PROVE  r.value \in Seq(V) /\ r.pos \in (pos + 1) .. N
    BY DEF Within
  <2>2. PICK one \in item[pos] :
            r \in IF one.more THEN Prefixed(one.values, L[one.pos]) ELSE Ok(one.values, one.pos)
    <3>1. r \in LoopBody(L, item, pos)
      BY <1>3, <2>1
    <3>2. QED
      BY <3>1 DEF LoopBody
  <2>3. one.values \in Seq(V) /\ one.pos \in (pos + 1) .. N
    OBVIOUS
  <2>4. CASE ~ one.more
    <3>1. r = [value |-> one.values, pos |-> one.pos]
      BY <2>2, <2>4 DEF Ok
    <3>2. QED
      BY <2>3, <3>1
  <2>5. CASE one.more
    <3>1. PICK rest \in L[one.pos] : r = [value |-> one.values \o rest.value, pos |-> rest.pos]
      BY <2>2, <2>5 DEF Prefixed
    <3>2. one.pos \in Positions(text) /\ one.pos > N - k
      BY <1>1, <2>1, <2>3
    <3>3. rest.value \in Seq(V) /\ rest.pos \in (one.pos + 1) .. N
      BY <1>5, <3>2 DEF Within
    <3>4. r.value = one.values \o rest.value /\ r.pos = rest.pos
      BY <3>1
    <3>5. one.values \o rest.value \in Seq(V)
      BY <2>3, <3>3
    <3>6. rest.pos \in (pos + 1) .. N
      BY <1>1, <2>3, <3>3
    <3>7. QED
      BY <3>4, <3>5, <3>6
  <2>6. QED
    BY <2>4, <2>5
<1>6. N \in S
  <2> HIDE DEF S
  <2>1. QED
    BY <1>1, <1>4, <1>5, Induction
<1>7. QED
  BY <1>1, <1>6 DEF L

\* The items of a loop are known one by one: the i-th begins at at[i] and adds
\* adds[i].
ItemsAt(text, item, m, at, adds) ==
    \A i \in 1 .. m : at[i] \in Positions(text) /\ item[at[i]] = {Item(adds[i], at[i + 1], i < m)}

\* From the i-th on they add tails[i].
Collected(m, adds, tails) ==
    tails[m] = adds[m] /\ \A i \in 1 .. (m - 1) : tails[i] = adds[i] \o tails[i + 1]

\* And this is what the loop has from there.
LoopAt(text, item, m, at, tails) == \A i \in 1 .. m : Loop(text, item)[at[i]] = Ok(tails[i], at[m + 1])

LEMMA LoopRun ==
    ASSUME NEW text \in Seq(Symbol), NEW item, Advances(text, item),
           NEW m \in Nat \ {0}, NEW at, NEW adds, NEW tails,
           ItemsAt(text, item, m, at, adds), Collected(m, adds, tails)
    PROVE  LoopAt(text, item, m, at, tails)
<1> DEFINE L == Loop(text, item)
           S == {k \in Nat : k < m => L[at[m - k]] = Ok(tails[m - k], at[m + 1])}
<1>1. \A pos \in Positions(text) : L[pos] = LoopBody(L, item, pos)
  BY LoopEquation
<1> HIDE DEF L
<1>2. ASSUME NEW i \in 1 .. m
      PROVE  L[at[i]] = IF i < m THEN Prefixed(adds[i], L[at[i + 1]]) ELSE Ok(adds[i], at[i + 1])
  <2>1. L[at[i]] = LoopBody(L, item, at[i]) /\ item[at[i]] = {Item(adds[i], at[i + 1], i < m)}
    BY <1>1 DEF ItemsAt
  <2> DEFINE one == Item(adds[i], at[i + 1], i < m)
  <2>2. one.values = adds[i] /\ one.pos = at[i + 1] /\ (one.more <=> i < m)
    BY DEF Item
  <2> HIDE DEF one
  <2>3. LoopBody(L, item, at[i]) =
          IF one.more THEN Prefixed(one.values, L[one.pos]) ELSE Ok(one.values, one.pos)
    <3>1. item[at[i]] = {one}
      BY <2>1 DEF one
    <3>2. QED
      BY <3>1 DEF LoopBody
  <2>4. CASE i < m
    BY <2>1, <2>2, <2>3, <2>4
  <2>5. CASE ~ (i < m)
    BY <2>1, <2>2, <2>3, <2>5
  <2>6. QED
    BY <2>4, <2>5
<1>3. 0 \in S
  <2>1. m \in 1 .. m /\ ~ (m < m) /\ m - 0 = m
    OBVIOUS
  <2>2. tails[m] = adds[m]
    BY DEF Collected
  <2>3. QED
    BY <1>2, <2>1, <2>2
<1>4. ASSUME NEW k \in Nat, k \in S PROVE k + 1 \in S
  <2>1. SUFFICES ASSUME k + 1 < m PROVE L[at[m - (k + 1)]] = Ok(tails[m - (k + 1)], at[m + 1])
    OBVIOUS
  <2> DEFINE i == m - (k + 1)
  <2>2. i \in 1 .. (m - 1) /\ i \in 1 .. m /\ i < m /\ i + 1 = m - k
    BY <2>1
  <2> HIDE DEF i
  <2>3. L[at[i + 1]] = Ok(tails[i + 1], at[m + 1])
    BY <1>4, <2>1, <2>2
  <2>4. L[at[i]] = Prefixed(adds[i], L[at[i + 1]])
    BY <1>2, <2>2
  <2>5. tails[i] = adds[i] \o tails[i + 1]
    BY <2>2 DEF Collected
  <2>6. L[at[i]] = Ok(adds[i] \o tails[i + 1], at[m + 1])
    BY <2>3, <2>4, PrefixedOne
  <2>7. L[at[i]] = Ok(tails[i], at[m + 1])
    BY <2>5, <2>6
  <2>8. QED
    BY <2>7 DEF i
<1>5. \A k \in Nat : k \in S
  <2> HIDE DEF S
  <2>1. QED
    BY <1>3, <1>4, Induction
<1>6. ASSUME NEW i \in 1 .. m PROVE L[at[i]] = Ok(tails[i], at[m + 1])
  <2>1. m - i \in Nat /\ m - i < m /\ m - (m - i) = i
    OBVIOUS
  <2>2. QED
    BY <1>5, <2>1
<1>7. QED
  BY <1>6 DEF L, LoopAt

-----------------------------------------------------------------------------
(* Strings. *)

LEMMA HexFacts ==
    /\ DOMAIN Hex4 = {"0041", "0001", "0008", "000c", "d83d", "de00"}
    /\ Hex4["0041"] = 65 /\ Hex4["0001"] = 1 /\ Hex4["0008"] = 8
    /\ Hex4["000c"] = 12 /\ Hex4["d83d"] = 55357 /\ Hex4["de00"] = 56832
    /\ DOMAIN Chars = {65, 1, 8, 12, 128512}
    /\ Chars[65] = "A" /\ Chars[1] = "SOH" /\ Chars[8] = "BS" /\ Chars[12] = "FF" /\ Chars[128512] = "SMILE"
BY DEF Hex4, Chars

LEMMA EscapeFacts ==
    /\ DOMAIN Escapes = {Quote, "\\", "/", "b", "f", "n", "r", "t"}
    /\ Escapes[Quote] = Quote /\ Escapes["\\"] = "\\" /\ Escapes["/"] = "/"
    /\ Escapes["b"] = "BS" /\ Escapes["f"] = "FF" /\ Escapes["n"] = "\n"
    /\ Escapes["r"] = "\r" /\ Escapes["t"] = "\t"
<1>1. Quote \notin {"b", "f", "n", "r", "t", "/"}
  BY Zenon DEF Quote
<1>2. QED
  BY <1>1 DEF Escapes

\* The halves of a surrogate pair, and the scalar of the one pair that occurs.
IsLow(n) == n \in 56320 .. 57343
IsHigh(n) == n \in 55296 .. 56319
PairScalar(high, low) == 65536 + (high - 55296) * 1024 + (low - 56320)

LEMMA Halves ==
    /\ ~ IsLow(65) /\ ~ IsLow(1) /\ ~ IsLow(8) /\ ~ IsLow(12) /\ ~ IsLow(55357) /\ IsLow(56832)
    /\ ~ IsHigh(65) /\ ~ IsHigh(1) /\ ~ IsHigh(8) /\ ~ IsHigh(12) /\ IsHigh(55357) /\ ~ IsHigh(56832)
    /\ PairScalar(55357, 56832) = 128512
BY DEF IsLow, IsHigh, PairScalar

\* The four digits of a second \u.
IsPaired(text, p) ==
    /\ Peek(text, p + 1) = "\\" /\ Peek(text, p + 2) = "u"
    /\ IsHex4(text, p + 3) /\ IsLow(Hex4[text[p + 3]])

LEMMA UnicodeForm ==
    ASSUME NEW text, NEW p
    PROVE  parse_unicode_escape(text, p) =
             IF ~ IsHex4(text, p) \/ IsLow(Hex4[text[p]]) THEN Err
             ELSE IF ~ IsHigh(Hex4[text[p]]) THEN Ok(Chars[Hex4[text[p]]], p + 1)
             ELSE IF IsPaired(text, p) THEN Ok(Chars[PairScalar(Hex4[text[p]], Hex4[text[p + 3]])], p + 4)
             ELSE Err
BY DEF parse_unicode_escape, IsLow, IsHigh, IsPaired, PairScalar

\* Digits stand in the text, and for one of the scalars that occur.
LEMMA DigitsAt ==
    ASSUME NEW text, NEW p, IsHex4(text, p)
    PROVE  /\ Peek(text, p) = text[p] /\ Peek(text, p) # "END" /\ text[p] \in DOMAIN Hex4
           /\ Hex4[text[p]] \in {65, 1, 8, 12, 55357, 56832}
<1>1. "END" \notin DOMAIN Hex4
  BY HexFacts
<1>2. Peek(text, p) \in DOMAIN Hex4
  BY DEF IsHex4
<1>3. Peek(text, p) = text[p]
  BY <1>1, <1>2 DEF Peek
<1>4. \A digits \in DOMAIN Hex4 : Hex4[digits] \in {65, 1, 8, 12, 55357, 56832}
  BY HexFacts
<1>5. QED
  BY <1>1, <1>2, <1>3, <1>4

LEMMA UnicodeShort ==
    ASSUME NEW text, NEW p, IsHex4(text, p), Hex4[text[p]] \in {65, 1, 8, 12}
    PROVE  parse_unicode_escape(text, p) = Ok(Chars[Hex4[text[p]]], p + 1)
<1>1. ~ IsLow(Hex4[text[p]]) /\ ~ IsHigh(Hex4[text[p]])
  BY Halves
<1>2. QED
  BY <1>1, UnicodeForm, Zenon

LEMMA UnicodeOutcome ==
    ASSUME NEW text, NEW p, NEW one \in parse_unicode_escape(text, p)
    PROVE  /\ IsHex4(text, p)
           /\ \/ one = [value |-> Chars[Hex4[text[p]]], pos |-> p + 1] /\ Hex4[text[p]] \in {65, 1, 8, 12}
              \/ one = [value |-> "SMILE", pos |-> p + 4] /\ IsPaired(text, p)
<1> DEFINE first == Hex4[text[p]]
           low == Hex4[text[p + 3]]
<1>1. \A v, q : one \in Ok(v, q) => one = [value |-> v, pos |-> q]
  BY Zenon DEF Ok
<1>2. one \notin Err
  BY Zenon DEF Err
<1>3. IsHex4(text, p) /\ ~ IsLow(first)
  BY <1>2, UnicodeForm, Zenon
<1>4. first \in {65, 1, 8, 12, 55357, 56832}
  BY <1>3, DigitsAt
<1>5. CASE ~ IsHigh(first)
  <2>1. one \in Ok(Chars[first], p + 1)
    BY <1>3, <1>5, UnicodeForm, Zenon
  <2>2. one = [value |-> Chars[first], pos |-> p + 1]
    BY <1>1, <2>1, Zenon
  <2> HIDE DEF first
  <2>3. first \in {65, 1, 8, 12}
    BY <1>3, <1>4, <1>5, Halves
  <2>4. QED
    BY <1>3, <2>2, <2>3, Zenon DEF first
<1>6. CASE IsHigh(first)
  <2>1. IsPaired(text, p) /\ one \in Ok(Chars[PairScalar(first, low)], p + 4)
    BY <1>2, <1>3, <1>6, UnicodeForm, Zenon
  <2>2. one = [value |-> Chars[PairScalar(first, low)], pos |-> p + 4]
    BY <1>1, <2>1, Zenon
  <2>3. IsHex4(text, p + 3) /\ IsLow(low)
    BY <2>1, Zenon DEF IsPaired
  <2>4. low \in {65, 1, 8, 12, 55357, 56832}
    BY <2>3, DigitsAt
  <2> HIDE DEF first, low
  <2>5. first = 55357
    BY <1>4, <1>6, Halves
  <2>6. low = 56832
    BY <2>3, <2>4, Halves
  <2>7. Chars[PairScalar(first, low)] = "SMILE"
    BY <2>5, <2>6, Halves, HexFacts
  <2>8. QED
    BY <1>3, <2>1, <2>2, <2>7, Zenon DEF first
<1>7. QED
  BY <1>5, <1>6

\* Reading on by a few symbols.
LEMMA Onward ==
    ASSUME NEW p \in Nat
    PROVE  /\ (p + 1) + 1 = p + 2 /\ (p + 2) + 1 = p + 3 /\ (p + 3) + 1 = p + 4
           /\ p < p + 1 /\ p < p + 2 /\ p < p + 3 /\ p < p + 4
OBVIOUS

LEMMA NextCharType ==
    ASSUME NEW text \in Seq(Symbol), NEW pos \in Positions(text)
    PROVE  Within(NextChar(text, pos), Symbol, pos, text)
<1> DEFINE N == Len(text) + 1
<1>1. N \in Nat /\ Positions(text) = 1 .. N
  BY PositionFacts
<1>2. SUFFICES ASSUME NEW one \in NextChar(text, pos)
               PROVE  one.value \in Symbol /\ one.pos \in (pos + 1) .. N
  BY DEF Within
<1>3. Peek(text, pos) # "END"
  <2>1. "END" # "\\"
    OBVIOUS
  <2>2. QED
    BY <1>2, <2>1 DEF NextChar, Err
<1>4. pos + 1 \in Positions(text) /\ pos + 1 \in Nat
  BY <1>1, <1>3, PositionFacts
<1>5. CASE Peek(text, pos) # "\\"
  <2>1. one = [value |-> text[pos], pos |-> pos + 1]
    BY <1>2, <1>5 DEF NextChar, Ok, Err
  <2>2. text[pos] \in Symbol
    BY <1>3, PositionFacts
  <2>3. QED
    BY <1>1, <1>4, <2>1, <2>2
<1>6. CASE Peek(text, pos) = "\\" /\ Peek(text, pos + 1) # "u"
  <2>1. one \in parse_escape(text, pos + 1)
    BY <1>2, <1>6 DEF NextChar
  <2>2. Peek(text, pos + 1) \in DOMAIN Escapes /\ one \in Ok(Escapes[text[pos + 1]], (pos + 1) + 1)
    BY <1>6, <2>1 DEF parse_escape, Err
  <2>3. "END" \notin DOMAIN Escapes
    BY EscapeFacts, MarkFacts
  <2>4. pos + 1 \in 1 .. Len(text) /\ (pos + 1) + 1 \in Positions(text) /\ Peek(text, pos + 1) = text[pos + 1]
    BY <1>4, <2>2, <2>3, PositionFacts
  <2>5. one = [value |-> Escapes[text[pos + 1]], pos |-> (pos + 1) + 1]
    BY <2>2 DEF Ok
  <2>6. \A letter \in DOMAIN Escapes : Escapes[letter] \in Symbol
    <3>1. {"\\", "/", "\n", "\r", "\t", Quote, "BS", "FF"} \subseteq Symbol
      BY SymbolFacts DEF Symbol, Marks, Whitespace
    <3>2. QED
      BY <3>1, EscapeFacts
  <2>7. QED
    BY <1>1, <2>2, <2>4, <2>5, <2>6
<1>7. CASE Peek(text, pos) = "\\" /\ Peek(text, pos + 1) = "u"
  <2> DEFINE p == (pos + 1) + 1
  <2>1. one \in parse_unicode_escape(text, p)
    <3>1. one \in parse_escape(text, pos + 1)
      BY <1>2, <1>7 DEF NextChar
    <3>2. QED
      BY <1>7, <3>1 DEF parse_escape
  <2>2. p \in Positions(text)
    <3>1. Peek(text, pos + 1) # "END"
      BY <1>7
    <3>2. QED
      BY <1>4, <3>1, PositionFacts
  <2>3. pos + 1 < p
    BY <1>4, Onward
  <2>4. {"A", "SOH", "BS", "FF", "SMILE"} \subseteq Symbol
    BY DEF Symbol
  <2> HIDE DEF p
  <2>5. \A q \in Positions(text) : Peek(text, q) # "END" => q \in Nat /\ q + 1 \in Positions(text)
    BY PositionFacts
  <2>6. \A q : IsHex4(text, q) => Peek(text, q) # "END"
    BY DigitsAt
  <2>7. IsHex4(text, p) /\ p \in Nat /\ p + 1 \in Positions(text)
    BY <2>1, <2>2, <2>5, <2>6, UnicodeOutcome
  <2>8. \A q \in Positions(text) : p < q => q \in (pos + 1) .. N
    BY <1>1, <1>4, <2>3, <2>7
  <2>9. CASE one = [value |-> Chars[Hex4[text[p]]], pos |-> p + 1] /\ Hex4[text[p]] \in {65, 1, 8, 12}
    <3>1. \A scalar \in {65, 1, 8, 12} : Chars[scalar] \in Symbol
      BY <2>4, HexFacts
    <3>2. one.value \in Symbol /\ one.pos = p + 1
      BY <2>9, <3>1, Zenon
    <3>3. p + 1 \in (pos + 1) .. N
      BY <2>7, <2>8, Onward
    <3>4. QED
      BY <3>2, <3>3
  <2>10. CASE one = [value |-> "SMILE", pos |-> p + 4] /\ IsPaired(text, p)
    <3>1. Peek(text, p + 1) = "\\" /\ Peek(text, p + 2) = "u" /\ IsHex4(text, p + 3)
      BY <2>10, Zenon DEF IsPaired
    <3>2. Peek(text, p + 1) # "END" /\ Peek(text, p + 2) # "END" /\ Peek(text, p + 3) # "END"
      BY <2>6, <3>1
    <3>3. (p + 1) + 1 = p + 2 /\ (p + 2) + 1 = p + 3 /\ (p + 3) + 1 = p + 4 /\ p < p + 4
      BY <2>7, Onward
    <3>4. p + 2 \in Positions(text)
      BY <2>5, <2>7, <3>2, <3>3, Zenon
    <3>5. p + 3 \in Positions(text)
      BY <2>5, <3>2, <3>3, <3>4, Zenon
    <3>6. p + 4 \in Positions(text)
      BY <2>5, <3>2, <3>3, <3>5, Zenon
    <3>7. p + 4 \in (pos + 1) .. N
      BY <2>8, <3>3, <3>6, Zenon
    <3>8. one.value = "SMILE" /\ one.pos = p + 4
      BY <2>10, Zenon
    <3>9. QED
      BY <2>4, <3>7, <3>8
  <2>11. QED
    BY <2>1, <2>9, <2>10, UnicodeOutcome
<1>8. QED
  BY <1>5, <1>6, <1>7

\* The items of a string's loop.
CharacterItem(text, pos) ==
    IF Peek(text, pos) = Quote THEN {Item(<<>>, pos + 1, FALSE)}
    ELSE {Item(<<char.value>>, char.pos, TRUE) : char \in NextChar(text, pos)}

LEMMA CharactersType ==
    ASSUME NEW text \in Seq(Symbol)
    PROVE  /\ Advances(text, [pos \in Positions(text) |-> CharacterItem(text, pos)])
           /\ Characters(text) = Loop(text, [pos \in Positions(text) |-> CharacterItem(text, pos)])
           /\ \A pos \in Positions(text) : Within(Characters(text)[pos], Seq(Symbol), pos, text)
<1> DEFINE item == [pos \in Positions(text) |-> CharacterItem(text, pos)]
<1>1. ASSUME NEW pos \in Positions(text), NEW one \in item[pos]
      PROVE  one.values \in Seq(Symbol) /\ one.pos \in (pos + 1) .. (Len(text) + 1)
  <2>1. one \in CharacterItem(text, pos)
    OBVIOUS
  <2>2. CASE Peek(text, pos) = Quote
    <3>1. one.values = <<>> /\ one.pos = pos + 1
      BY <2>1, <2>2 DEF CharacterItem, Item
    <3>2. pos + 1 \in Positions(text) /\ Positions(text) = 1 .. (Len(text) + 1) /\ Len(text) \in Nat
      BY <2>2, MarkFacts, PositionFacts
    <3>3. QED
      BY <3>1, <3>2
  <2>3. CASE Peek(text, pos) # Quote
    <3>1. PICK char \in NextChar(text, pos) : one = Item(<<char.value>>, char.pos, TRUE)
      BY <2>1, <2>3 DEF CharacterItem
    <3>2. char.value \in Symbol /\ char.pos \in (pos + 1) .. (Len(text) + 1)
      BY NextCharType DEF Within
    <3>3. one.values = <<char.value>> /\ one.pos = char.pos
      BY <3>1 DEF Item
    <3>4. QED
      BY <3>2, <3>3
  <2>4. QED
    BY <2>2, <2>3
<1>2. Advances(text, item)
  BY <1>1 DEF Advances
<1>3. Characters(text) = Loop(text, item)
  BY DEF Characters, CharacterItem
<1> HIDE DEF item
<1>4. \A pos \in Positions(text) : Within(Loop(text, item)[pos], Seq(Symbol), pos, text)
  BY <1>1, LoopType
<1>5. QED
  BY <1>2, <1>3, <1>4 DEF item

LEMMA StringType ==
    ASSUME NEW text \in Seq(Symbol), NEW pos \in Positions(text)
    PROVE  Within(parse_string(text, pos), Seq(Symbol), pos, text)
<1>1. CASE Peek(text, pos) = Quote
  <2>1. pos + 1 \in Positions(text) /\ pos \in Nat /\ Len(text) \in Nat
    BY <1>1, MarkFacts, PositionFacts
  <2>2. Within(Characters(text)[pos + 1], Seq(Symbol), pos + 1, text)
    BY <2>1, CharactersType
  <2>3. parse_string(text, pos) = Characters(text)[pos + 1]
    BY <1>1 DEF parse_string
  <2>4. QED
    BY <2>1, <2>2, <2>3 DEF Within
<1>2. CASE Peek(text, pos) # Quote
  BY <1>2 DEF parse_string, Err, Within
<1>3. QED
  BY <1>1, <1>2

-----------------------------------------------------------------------------
(* The values that are read. *)

\* A JSON value whose elements and members are of J.
IsJson(json, J) ==
    \/ json = Null
    \/ \E b \in BOOLEAN : json = Bool(b)
    \/ \E n \in Int : json = Number(n)
    \/ \E s \in Seq(Symbol) : json = String(s)
    \/ \E items \in Seq(J) : json = Array(items)
    \/ \E members \in Seq(Seq(Symbol) \X J) : json = Object(members)

\* A set of JSON values that has their elements and members too.
ClosedJson(J) == \A json \in J : IsJson(json, J)

LEMMA IsJsonGrows ==
    ASSUME NEW J, NEW K, J \subseteq K, NEW json, IsJson(json, J)
    PROVE  IsJson(json, K)
<1>1. Seq(J) \subseteq Seq(K) /\ Seq(Seq(Symbol) \X J) \subseteq Seq(Seq(Symbol) \X K)
  OBVIOUS
<1>2. QED
  BY <1>1 DEF IsJson

LEMMA ScalarCases ==
    ASSUME NEW text, NEW pos
    PROVE  /\ Peek(text, pos) = Quote =>
                Scalar(text, pos) = {[value |-> String(s.value), pos |-> s.pos] : s \in parse_string(text, pos)}
           /\ Peek(text, pos) \in {"true", "false"} =>
                Scalar(text, pos) = Ok(Bool(Peek(text, pos) = "true"), pos + 1)
           /\ Peek(text, pos) = "null" => Scalar(text, pos) = Ok(Null, pos + 1)
           /\ Peek(text, pos) \in DOMAIN Parsed =>
                Scalar(text, pos) = Ok(Number(Parsed[Peek(text, pos)]), pos + 1)
           /\ Peek(text, pos) \notin {Quote, "true", "false", "null"} \cup DOMAIN Parsed =>
                Scalar(text, pos) = Err
<1> DEFINE symbol == Peek(text, pos)
<1>1. {Quote, "true", "false", "null"} \subseteq Marks
  BY DEF Marks, Literals
<1>2. {Quote, "true", "false", "null"} \cap DOMAIN Parsed = {}
  BY <1>1, JsonAssumption DEF Parsed
<1>3. Quote \notin {"true", "false", "null"}
  BY MarkFacts
<1>4. Scalar(text, pos) =
        CASE symbol = Quote -> {[value |-> String(s.value), pos |-> s.pos] : s \in parse_string(text, pos)}
          [] symbol \in {"true", "false"} -> Ok(Bool(symbol = "true"), pos + 1)
          [] symbol = "null" -> Ok(Null, pos + 1)
          [] symbol \in DOMAIN Parsed -> Ok(Number(Parsed[symbol]), pos + 1)
          [] OTHER -> Err
  BY DEF Scalar
<1> HIDE DEF symbol
<1>5. /\ symbol = Quote =>
           Scalar(text, pos) = {[value |-> String(s.value), pos |-> s.pos] : s \in parse_string(text, pos)}
      /\ symbol \in {"true", "false"} => Scalar(text, pos) = Ok(Bool(symbol = "true"), pos + 1)
      /\ symbol = "null" => Scalar(text, pos) = Ok(Null, pos + 1)
      /\ symbol \in DOMAIN Parsed => Scalar(text, pos) = Ok(Number(Parsed[symbol]), pos + 1)
      /\ symbol \notin {Quote, "true", "false", "null"} \cup DOMAIN Parsed => Scalar(text, pos) = Err
  <2>1. CASE symbol = Quote
    BY <1>2, <1>3, <1>4, <2>1
  <2>2. CASE symbol \in {"true", "false"}
    BY <1>2, <1>3, <1>4, <2>2
  <2>3. CASE symbol = "null"
    BY <1>2, <1>3, <1>4, <2>3
  <2>4. CASE symbol \in DOMAIN Parsed
    BY <1>2, <1>3, <1>4, <2>4
  <2>5. CASE symbol \notin {Quote, "true", "false", "null"} \cup DOMAIN Parsed
    BY <1>4, <2>5
  <2>6. QED
    BY <2>1, <2>2, <2>3, <2>4, <2>5
<1>6. QED
  BY <1>5 DEF symbol

LEMMA ScalarType ==
    ASSUME NEW text \in Seq(Symbol), NEW pos \in Positions(text), NEW one \in Scalar(text, pos)
    PROVE  IsJson(one.value, {}) /\ one.pos \in (pos + 1) .. (Len(text) + 1)
<1> DEFINE symbol == Peek(text, pos)
<1>1. symbol # "END" => pos + 1 \in (pos + 1) .. (Len(text) + 1)
  BY PositionFacts
<1>2. "END" \notin {"true", "false", "null"} /\ "END" \notin DOMAIN Parsed
  BY JsonAssumption DEF Parsed
<1> HIDE DEF symbol
<1>3. CASE symbol = Quote
  <2>1. PICK s \in parse_string(text, pos) : one = [value |-> String(s.value), pos |-> s.pos]
    BY <1>3, ScalarCases DEF symbol
  <2>2. s.value \in Seq(Symbol) /\ s.pos \in (pos + 1) .. (Len(text) + 1)
    BY StringType DEF Within
  <2>3. one.value = String(s.value) /\ one.pos = s.pos
    BY <2>1
  <2>4. QED
    BY <2>2, <2>3 DEF IsJson
<1>4. CASE symbol # Quote /\ symbol \in {"true", "false"}
  <2>1. one = [value |-> Bool(symbol = "true"), pos |-> pos + 1]
    BY <1>4, ScalarCases DEF symbol, Ok
  <2>2. one.value = Bool(symbol = "true") /\ one.pos = pos + 1
    BY <2>1
  <2>3. \E b \in BOOLEAN : one.value = Bool(b)
    BY <2>2
  <2>4. QED
    BY <1>1, <1>2, <1>4, <2>2, <2>3 DEF IsJson
<1>5. CASE symbol \notin {Quote, "true", "false"} /\ symbol = "null"
  <2>1. one = [value |-> Null, pos |-> pos + 1]
    BY <1>5, ScalarCases DEF symbol, Ok
  <2>2. QED
    BY <1>1, <1>2, <1>5, <2>1 DEF IsJson
<1>6. CASE symbol \notin {Quote, "true", "false", "null"}
  <2>1. symbol \in DOMAIN Parsed /\ one = [value |-> Number(Parsed[symbol]), pos |-> pos + 1]
    BY <1>6, ScalarCases DEF symbol, Ok, Err
  <2>2. Parsed[symbol] \in Int
    BY <2>1, NumeralAssumption DEF Parsed
  <2>3. QED
    BY <1>1, <1>2, <2>1, <2>2 DEF IsJson
<1>7. QED
  BY <1>3, <1>4, <1>5, <1>6

LEMMA SeparatorType ==
    ASSUME NEW text \in Seq(Symbol), NEW pos \in Positions(text), NEW close, close # "END",
           NEW after \in Separator(text, pos, close)
    PROVE  after.pos \in (pos + 1) .. (Len(text) + 1)
<1> DEFINE at == skip_ws(text, pos)
<1>1. at \in pos .. (Len(text) + 1) /\ at \in Positions(text) /\ pos \in Nat /\ Len(text) \in Nat
  BY SkipType, PositionFacts
<1> HIDE DEF at
<1>2. Peek(text, at) \in {Comma, close} /\ after.pos = at + 1
  BY DEF Separator, at, Err
<1>3. at + 1 \in Positions(text)
  BY <1>1, <1>2, MarkFacts, PositionFacts
<1>4. QED
  BY <1>1, <1>2, <1>3 DEF Positions

LEMMA ClosingFacts ==
    /\ DOMAIN Closing = {OpenBrace, "["}
    /\ Closing[OpenBrace] = CloseBrace /\ Closing["["] = "]"
    /\ CloseBrace # "]" /\ CloseBrace # "END" /\ OpenBrace # "END" /\ OpenBrace # "["
BY MarkFacts DEF Closing

\* What the elements of an array, and the members of an object, are taken from.
Parts(close, J) == IF close = "]" THEN J ELSE Seq(Symbol) \X J

LEMMA ElementType ==
    ASSUME NEW text \in Seq(Symbol), NEW J, NEW value, NEW close,
           \A q \in Positions(text) : Within(value[q], J, q, text),
           NEW pos \in Positions(text)
    PROVE  Within(Element(text, pos, close, value), Parts(close, J), pos, text)
<1>1. CASE close = "]"
  BY <1>1 DEF Element, Parts
<1>2. CASE close # "]"
  <2>1. SUFFICES ASSUME NEW one \in Element(text, pos, close, value)
                 PROVE  one.value \in Seq(Symbol) \X J /\ one.pos \in (pos + 1) .. (Len(text) + 1)
    BY <1>2 DEF Within, Parts
  <2>2. PICK key \in parse_string(text, pos) : one \in Member(text, key.value, skip_ws(text, key.pos), value)
    BY <1>2, <2>1 DEF Element
  <2>3. key.value \in Seq(Symbol) /\ key.pos \in (pos + 1) .. (Len(text) + 1)
    BY StringType DEF Within
  <2>4. pos \in Nat /\ pos >= 1 /\ Len(text) \in Nat /\ Positions(text) = 1 .. (Len(text) + 1)
    BY PositionFacts
  <2> DEFINE colon == skip_ws(text, key.pos)
             start == skip_ws(text, colon + 1)
  <2>5. colon \in Positions(text) /\ colon \in key.pos .. (Len(text) + 1)
    BY <2>3, <2>4, SkipType
  <2>6. Peek(text, colon) = ":"
    BY <2>2 DEF Member, Err
  <2>7. colon + 1 \in Positions(text)
    <3>1. Peek(text, colon) # "END"
      BY <2>6
    <3> HIDE DEF colon
    <3>2. QED
      BY <2>5, <3>1, PositionFacts
  <2>8. start \in Positions(text) /\ start \in (colon + 1) .. (Len(text) + 1)
    <3> HIDE DEF colon
    <3>1. QED
      BY <2>7, SkipType
  <2>9. PICK v \in value[start] : one = [value |-> <<key.value, v.value>>, pos |-> v.pos]
    BY <2>2, <2>6 DEF Member
  <2> HIDE DEF colon, start
  <2>10. v.value \in J /\ v.pos \in (start + 1) .. (Len(text) + 1)
    BY <2>8 DEF Within
  <2>11. one.value = <<key.value, v.value>> /\ one.pos = v.pos
    BY <2>9
  <2>12. v.pos \in (pos + 1) .. (Len(text) + 1)
    BY <2>3, <2>4, <2>5, <2>8, <2>10
  <2>13. QED
    BY <2>3, <2>10, <2>11, <2>12
<1>3. QED
  BY <1>1, <1>2

LEMMA ElementsType ==
    ASSUME NEW text \in Seq(Symbol), NEW J, NEW value, NEW close, close # "END",
           \A q \in Positions(text) : Within(value[q], J, q, text)
    PROVE  /\ Advances(text, [p \in Positions(text) |-> ElementItem(text, p, close, value)])
           /\ \A pos \in Positions(text) : Peek(text, pos) # "END" =>
                \A one \in Elements(text, pos, close, value) :
                   /\ \/ one.value = Collection(close, <<>>)
                      \/ \E all \in Seq(Parts(close, J)) : one.value = Collection(close, all)
                   /\ one.pos \in (pos + 1) .. (Len(text) + 1)
<1> DEFINE N == Len(text) + 1
           V == Parts(close, J)
           item == [p \in Positions(text) |-> ElementItem(text, p, close, value)]
<1>1. N \in Nat /\ Positions(text) = 1 .. N
  BY PositionFacts
<1>2. ASSUME NEW pos \in Positions(text), NEW one \in item[pos]
      PROVE  one.values \in Seq(V) /\ one.pos \in (pos + 1) .. N
  <2> DEFINE start == skip_ws(text, pos)
  <2>1. start \in Positions(text) /\ start \in pos .. N
    BY SkipType
  <2>2. PICK element \in Element(text, start, close, value) :
            \E after \in Separator(text, element.pos, close) :
               one = Item(<<element.value>>, after.pos, after.more)
    <3>1. one \in ElementItem(text, pos, close, value)
      OBVIOUS
    <3>2. QED
      BY <3>1 DEF ElementItem
  <2>3. PICK after \in Separator(text, element.pos, close) :
            one = Item(<<element.value>>, after.pos, after.more)
    BY <2>2
  <2> HIDE DEF start, V
  <2>4. element.value \in V /\ element.pos \in (start + 1) .. N
    BY <2>1, ElementType DEF Within, V
  <2>5. element.pos \in Positions(text)
    BY <1>1, <2>1, <2>4
  <2>6. after.pos \in (element.pos + 1) .. N
    BY <2>5, SeparatorType
  <2>7. one.values = <<element.value>> /\ one.pos = after.pos
    BY <2>3 DEF Item
  <2>8. QED
    BY <1>1, <2>1, <2>4, <2>6, <2>7
<1>3. Advances(text, item)
  BY <1>2 DEF Advances
<1>4. \A pos \in Positions(text) : Within(Loop(text, item)[pos], Seq(V), pos, text)
  <2> HIDE DEF item, V
  <2>1. QED
    BY <1>2, LoopType
<1>5. ASSUME NEW pos \in Positions(text), Peek(text, pos) # "END", NEW one \in Elements(text, pos, close, value)
      PROVE  /\ \/ one.value = Collection(close, <<>>)
                \/ \E all \in Seq(V) : one.value = Collection(close, all)
             /\ one.pos \in (pos + 1) .. N
  <2> DEFINE first == skip_ws(text, pos + 1)
  <2>1. pos + 1 \in Positions(text)
    BY <1>5, PositionFacts
  <2>2. first \in Positions(text) /\ first \in (pos + 1) .. N
    BY <2>1, SkipType
  <2> HIDE DEF V, item
  <2>3. CASE Peek(text, first) = close
    <3>1. one = [value |-> Collection(close, <<>>), pos |-> first + 1]
      BY <1>5, <2>3 DEF Elements, Ok
    <3>2. first + 1 \in Positions(text)
      <4> HIDE DEF first
      <4>1. QED
        BY <2>2, <2>3, PositionFacts
    <3> HIDE DEF first
    <3>3. one.value = Collection(close, <<>>) /\ one.pos = first + 1
      BY <3>1
    <3>4. QED
      BY <1>1, <2>2, <3>2, <3>3
  <2>4. CASE Peek(text, first) # close
    <3>1. PICK all \in Loop(text, item)[first] : one = [value |-> Collection(close, all.value), pos |-> all.pos]
      BY <1>5, <2>4 DEF Elements, item
    <3> HIDE DEF first
    <3>2. all.value \in Seq(V) /\ all.pos \in (first + 1) .. N
      BY <1>4, <2>2 DEF Within
    <3>3. one.value = Collection(close, all.value) /\ one.pos = all.pos
      BY <3>1
    <3>4. QED
      BY <1>1, <2>2, <3>2, <3>3
  <2>5. QED
    BY <2>3, <2>4
<1>6. QED
  BY <1>3, <1>5

\* What is read from every position where so many levels may be opened, if
\* below has what is read one level further down.
LevelBody(text, left, below) ==
    [pos \in Positions(text) |->
       IF Peek(text, pos) \notin DOMAIN Closing THEN Scalar(text, pos)
       ELSE IF left = 0 THEN Err
       ELSE Elements(text, pos, Closing[text[pos]], below)]

LEMMA LevelEquation ==
    ASSUME NEW text
    PROVE  \A left \in 0 .. MAX_DEPTH : Values(text)[left] = LevelBody(text, left, Values(text)[left - 1])
<1> DEFINE Solves(f, k) == \A left \in 0 .. MAX_DEPTH : left < k => f[left] = LevelBody(text, left, f[left - 1])
           S == {k \in Nat : k <= MAX_DEPTH + 1 => \E f : Solves(f, k)}
<1>1. MAX_DEPTH \in Nat
  BY JsonAssumption
<1>2. 0 \in S
  BY <1>1
<1>3. ASSUME NEW k \in Nat, k \in S PROVE k + 1 \in S
  <2>1. SUFFICES ASSUME k + 1 <= MAX_DEPTH + 1 PROVE \E f : Solves(f, k + 1)
    OBVIOUS
  <2>2. PICK f : Solves(f, k)
    BY <1>1, <1>3, <2>1
  <2> DEFINE g == [left \in 0 .. MAX_DEPTH |-> IF left = k THEN LevelBody(text, k, f[k - 1]) ELSE f[left]]
  <2>3. ASSUME NEW left \in 0 .. MAX_DEPTH, left < k + 1 PROVE g[left] = LevelBody(text, left, g[left - 1])
    <3>1. CASE left = 0
      <4>1. \A below, other : LevelBody(text, 0, below) = LevelBody(text, 0, other)
        BY DEF LevelBody
      <4>2. CASE k = 0
        BY <3>1, <4>1, <4>2
      <4>3. CASE k # 0
        <5>1. g[left] = f[0] /\ f[0] = LevelBody(text, 0, f[0 - 1])
          BY <1>1, <2>2, <3>1, <4>3
        <5> HIDE DEF g
        <5>2. QED
          BY <3>1, <4>1, <5>1
      <4>4. QED
        BY <4>2, <4>3
    <3>2. CASE left # 0
      <4>1. g[left - 1] = f[left - 1]
        BY <1>1, <2>3, <3>2
      <4>2. CASE left = k
        <5>1. g[left] = LevelBody(text, k, f[k - 1])
          BY <4>2
        <5> HIDE DEF g
        <5>2. QED
          BY <4>1, <4>2, <5>1
      <4>3. CASE left # k
        <5>1. g[left] = f[left] /\ f[left] = LevelBody(text, left, f[left - 1])
          BY <2>2, <2>3, <4>3
        <5> HIDE DEF g
        <5>2. QED
          BY <4>1, <5>1
      <4>4. QED
        BY <4>2, <4>3
    <3>3. QED
      BY <3>1, <3>2
  <2>4. Solves(g, k + 1)
    BY <2>3
  <2>5. QED
    BY <2>4
<1>4. MAX_DEPTH + 1 \in S
  <2> HIDE DEF S
  <2>1. QED
    BY <1>1, <1>2, <1>3, Induction
<1>5. PICK f : Solves(f, MAX_DEPTH + 1)
  BY <1>1, <1>4
<1> DEFINE Sol(levels) == levels = [left \in 0 .. MAX_DEPTH |-> LevelBody(text, left, levels[left - 1])]
           h == [left \in 0 .. MAX_DEPTH |-> f[left]]
<1>6. \A below, other : LevelBody(text, 0, below) = LevelBody(text, 0, other)
  BY DEF LevelBody
<1>7. ASSUME NEW left \in 0 .. MAX_DEPTH PROVE h[left] = LevelBody(text, left, h[left - 1])
  <2>1. h[left] = f[left] /\ f[left] = LevelBody(text, left, f[left - 1])
    BY <1>1, <1>5
  <2>2. left # 0 => h[left - 1] = f[left - 1]
    BY <1>1
  <2> HIDE DEF h
  <2>3. CASE left = 0
    BY <1>6, <2>1, <2>3
  <2>4. CASE left # 0
    BY <2>1, <2>2, <2>4
  <2>5. QED
    BY <2>3, <2>4
<1>8. Sol(h)
  BY <1>7
<1>9. Values(text) = CHOOSE levels : Sol(levels)
  BY DEF Values, LevelBody
<1>10. Sol(Values(text))
  <2> HIDE DEF Sol
  <2>1. QED
    BY <1>8, <1>9
<1>11. QED
  BY <1>10

\* Whatever is read is a JSON value, all the way down, and ends further on.
LEMMA LevelType ==
    ASSUME NEW text \in Seq(Symbol)
    PROVE  \A left \in 0 .. MAX_DEPTH :
              \E J : ClosedJson(J) /\ \A pos \in Positions(text) : Within(Values(text)[left][pos], J, pos, text)
<1> DEFINE P(left) == \E J : /\ ClosedJson(J)
                             /\ \A pos \in Positions(text) : Within(Values(text)[left][pos], J, pos, text)
           S == {k \in Nat : k <= MAX_DEPTH => P(k)}
<1>1. MAX_DEPTH \in Nat
  BY JsonAssumption
\* One level from the next: the values of both together are closed.
<1>2. ASSUME NEW left \in 0 .. MAX_DEPTH, NEW J, ClosedJson(J),
             left # 0 => \A pos \in Positions(text) : Within(Values(text)[left - 1][pos], J, pos, text)
      PROVE  P(left)
  <2> DEFINE K == J \cup UNION {{one.value : one \in Values(text)[left][pos]} : pos \in Positions(text)}
  <2>1. ASSUME NEW pos \in Positions(text), NEW one \in Values(text)[left][pos]
        PROVE  IsJson(one.value, J) /\ one.pos \in (pos + 1) .. (Len(text) + 1)
    <3>1. one \in LevelBody(text, left, Values(text)[left - 1])[pos]
      BY <2>1, LevelEquation
    <3>2. CASE Peek(text, pos) \notin DOMAIN Closing
      <4>1. one \in Scalar(text, pos)
        BY <3>1, <3>2 DEF LevelBody
      <4>2. IsJson(one.value, {}) /\ one.pos \in (pos + 1) .. (Len(text) + 1)
        BY <4>1, ScalarType
      <4>3. QED
        BY <4>2, IsJsonGrows
    <3>3. CASE Peek(text, pos) \in DOMAIN Closing
      <4> DEFINE close == Closing[text[pos]]
                 below == Values(text)[left - 1]
      <4>1. left # 0 /\ one \in Elements(text, pos, close, below)
        BY <3>1, <3>3 DEF LevelBody, Err
      <4>2. Peek(text, pos) # "END"
        BY <3>3, ClosingFacts
      <4>3. text[pos] = Peek(text, pos)
        BY <4>2, PositionFacts
      <4>4. close \in {CloseBrace, "]"} /\ close # "END"
        BY <3>3, <4>3, ClosingFacts
      <4>5. \A q \in Positions(text) : Within(below[q], J, q, text)
        BY <1>2, <4>1
      <4> HIDE DEF close, below
      <4>6. /\ one.value = Collection(close, <<>>)
               \/ \E all \in Seq(Parts(close, J)) : one.value = Collection(close, all)
            /\ one.pos \in (pos + 1) .. (Len(text) + 1)
        BY <4>1, <4>2, <4>4, <4>5, ElementsType
      <4>7. PICK all \in Seq(Parts(close, J)) : one.value = Collection(close, all)
        <5>1. <<>> \in Seq(Parts(close, J))
          OBVIOUS
        <5>2. QED
          BY <4>6, <5>1
      <4>8. CASE close = "]"
        <5>1. all \in Seq(J) /\ one.value = Array(all)
          BY <4>7, <4>8 DEF Parts, Collection
        <5>2. QED
          BY <4>6, <5>1 DEF IsJson
      <4>9. CASE close # "]"
        <5>1. all \in Seq(Seq(Symbol) \X J) /\ one.value = Object(all)
          BY <4>7, <4>9 DEF Parts, Collection
        <5>2. QED
          BY <4>6, <5>1 DEF IsJson
      <4>10. QED
        BY <4>8, <4>9
    <3>4. QED
      BY <3>2, <3>3
  <2>2. ClosedJson(K)
    <3>1. SUFFICES ASSUME NEW json \in K PROVE IsJson(json, J)
      <4>1. J \subseteq K
        OBVIOUS
      <4> HIDE DEF K
      <4>2. QED
        BY <4>1, IsJsonGrows DEF ClosedJson
    <3>2. QED
      BY <1>2, <2>1 DEF ClosedJson
  <2>3. \A pos \in Positions(text) : Within(Values(text)[left][pos], K, pos, text)
    BY <2>1 DEF Within
  <2> HIDE DEF K
  <2>4. QED
    BY <2>2, <2>3
<1>3. 0 \in S
  <2>1. ClosedJson({})
    BY DEF ClosedJson
  <2> HIDE DEF P
  <2>2. QED
    BY <1>1, <1>2, <2>1
<1>4. ASSUME NEW k \in Nat, k \in S PROVE k + 1 \in S
  <2>1. SUFFICES ASSUME k + 1 <= MAX_DEPTH PROVE P(k + 1)
    OBVIOUS
  <2>2. PICK J : ClosedJson(J) /\ \A pos \in Positions(text) : Within(Values(text)[k][pos], J, pos, text)
    BY <1>1, <1>4, <2>1
  <2>3. k + 1 \in 0 .. MAX_DEPTH /\ (k + 1) - 1 = k
    BY <1>1, <2>1
  <2> HIDE DEF P
  <2>4. QED
    BY <1>2, <2>2, <2>3
<1>5. \A k \in Nat : k \in S
  <2> HIDE DEF S
  <2>1. QED
    BY <1>3, <1>4, Induction
<1>6. \A left \in 0 .. MAX_DEPTH : P(left)
  <2> HIDE DEF P
  <2>1. QED
    BY <1>1, <1>5
<1>7. QED
  BY <1>6

LEMMA ParseType ==
    ASSUME NEW text \in Seq(Symbol)
    PROVE  \E J : ClosedJson(J) /\ parse(text) \subseteq J
<1>1. MAX_DEPTH \in 0 .. MAX_DEPTH /\ MAX_DEPTH - 0 = MAX_DEPTH
  BY JsonAssumption
<1>2. PICK J : ClosedJson(J) /\ \A pos \in Positions(text) : Within(Values(text)[MAX_DEPTH][pos], J, pos, text)
  BY <1>1, LevelType
<1>3. 1 \in Positions(text)
  BY PositionFacts
<1>4. skip_ws(text, 1) \in Positions(text)
  BY <1>3, SkipType
<1>5. ASSUME NEW json \in parse(text) PROVE json \in J
  <2>1. PICK v \in parse_value(text, skip_ws(text, 1), 0) : json = v.value
    BY DEF parse
  <2>2. v \in Values(text)[MAX_DEPTH][skip_ws(text, 1)]
    BY <1>1, <2>1 DEF parse_value
  <2>3. QED
    BY <1>2, <1>4, <2>1, <2>2 DEF Within
<1>6. QED
  BY <1>2, <1>5

-----------------------------------------------------------------------------
(* The schema. *)

\* The numbers that a text can give a field: rounding keeps them.
Counts == {n \in 0 .. U64Max : as_u64(Number(F64(2 * n))) = {n}}

Kinds == {"bool", "u64", "u16", "string", "strings", "map"}

\* The values of a field of that kind.
ValuesOf ==
    [kind \in Kinds |->
       CASE kind = "bool" -> BOOLEAN [] kind = "u64" -> Counts
         [] kind = "u16" -> {n \in Counts : n <= U16Max} [] kind = "string" -> Seq(Symbol)
         [] kind = "strings" -> Seq(Seq(Symbol)) [] kind = "map" -> Seq(Seq(Symbol) \X Seq(Symbol))]

LEMMA ValuesOfFacts ==
    /\ ValuesOf["bool"] = BOOLEAN /\ ValuesOf["u64"] = Counts
    /\ ValuesOf["u16"] = {n \in Counts : n <= U16Max} /\ ValuesOf["string"] = Seq(Symbol)
    /\ ValuesOf["strings"] = Seq(Seq(Symbol)) /\ ValuesOf["map"] = Seq(Seq(Symbol) \X Seq(Symbol))
BY DEF ValuesOf, Kinds

LEMMA PresetFacts ==
    /\ 0 \in Counts /\ Preset \in Counts /\ Preset \in {n \in Counts : n <= U16Max} /\ Preset \in Nat \ {0}
<1>1. U64Max \in Nat /\ U16Max \in 1 .. U64Max /\ Preset \in 1 .. U16Max
  BY JsonAssumption, ConfigAssumption
<1>2. ASSUME NEW n \in {0, Preset} PROVE n \in Counts
  <2>1. F64(2 * n) = 2 * n /\ 2 * n <= F64(2 * U64Max)
    BY PresetAssumption
  <2>2. n \in 0 .. U64Max /\ (2 * n) \div 2 = n /\ 2 * n >= 0
    BY <1>1
  <2> DEFINE json == Number(2 * n)
  <2>3. json.kind = "number" /\ json.value = 2 * n
    BY DEF Number
  <2> HIDE DEF json
  <2>4. (IF (2 * n) \div 2 > U64Max THEN U64Max ELSE (2 * n) \div 2) = n
    BY <1>1, <2>2
  <2>5. as_u64(json) = {n}
    BY <2>1, <2>2, <2>3, <2>4 DEF as_u64
  <2>6. QED
    BY <2>1, <2>2, <2>5 DEF Counts, json
<1>3. QED
  BY <1>1, <1>2

LEMMA AppendShort ==
    ASSUME NEW r, NEW s, NEW k
    PROVE  /\ Append(<<>>, k) = <<k>>
           /\ Append(<<s>>, k) = <<s, k>>
           /\ Append(<<r, s>>, k) = <<r, s, k>>
<1> DEFINE S == {r, s, k}
<1>1. /\ <<>> \in Seq(S) /\ <<s>> \in Seq(S) /\ <<r, s>> \in Seq(S)
      /\ <<k>> \in Seq(S) /\ <<s, k>> \in Seq(S) /\ <<r, s, k>> \in Seq(S)
  OBVIOUS
<1>2. Append(<<>>, k) = <<k>>
  OBVIOUS
<1>3. Append(<<s>>, k) = <<s, k>>
  <2> DEFINE a == Append(<<s>>, k)
  <2>1. a \in Seq(S) /\ Len(a) = 2 /\ a[1] = s /\ a[2] = k
    BY <1>1
  <2>2. Len(<<s, k>>) = 2 /\ <<s, k>>[1] = s /\ <<s, k>>[2] = k
    OBVIOUS
  <2> HIDE DEF a
  <2>3. \A i \in 1 .. Len(a) : a[i] = <<s, k>>[i]
    BY <2>1, <2>2
  <2>4. QED
    BY <1>1, <2>1, <2>2, <2>3, SeqEqual DEF a
<1>4. Append(<<r, s>>, k) = <<r, s, k>>
  <2> DEFINE a == Append(<<r, s>>, k)
  <2>1. a \in Seq(S) /\ Len(a) = 3 /\ a[1] = r /\ a[2] = s /\ a[3] = k
    BY <1>1
  <2>2. Len(<<r, s, k>>) = 3 /\ <<r, s, k>>[1] = r /\ <<r, s, k>>[2] = s /\ <<r, s, k>>[3] = k
    OBVIOUS
  <2> HIDE DEF a
  <2>3. \A i \in 1 .. Len(a) : a[i] = <<r, s, k>>[i]
    BY <2>1, <2>2
  <2>4. QED
    BY <1>1, <2>1, <2>2, <2>3, SeqEqual DEF a
<1>5. QED
  BY <1>2, <1>3, <1>4

\* A member of a section is a section again, or a field whose default has its
\* kind; and its path says which.
MemberFits(section, member) ==
    LET path == Append(section, member[1])
    IN  IF member[2].kind = "section" THEN path \in DOMAIN Layout
        ELSE /\ member[2].kind \in Kinds /\ member[2].default \in ValuesOf[member[2].kind]
             /\ path \notin DOMAIN Layout

LEMMA MemberIntro ==
    ASSUME NEW section, NEW key, NEW field, NEW kind, NEW value,
           kind \in Kinds, value \in ValuesOf[kind], field = [kind |-> kind, default |-> value],
           Append(section, key) \notin DOMAIN Layout
    PROVE  MemberFits(section, <<key, field>>)
<1>1. field.kind = kind /\ field.default = value /\ kind # "section"
  BY DEF Kinds
<1>2. QED
  BY <1>1 DEF MemberFits

LEMMA Sections ==
    /\ DOMAIN Layout = {<<>>, <<"server">>, <<"static">>, <<"compression">>, <<"security">>,
                        <<"security", "rate_limit">>, <<"tls">>, <<"admin">>, <<"logging">>}
    /\ \A s, key : <<s, key>> \in DOMAIN Layout <=> s = "security" /\ key = "rate_limit"
    /\ \A r, s, key : <<r, s, key>> \notin DOMAIN Layout
<1>1. DOMAIN Layout = {<<>>, <<"server">>, <<"static">>, <<"compression">>, <<"security">>,
                      <<"security", "rate_limit">>, <<"tls">>, <<"admin">>, <<"logging">>}
  BY DEF Layout
<1>2. \A s, key : <<s, key>> \in DOMAIN Layout <=> s = "security" /\ key = "rate_limit"
  BY <1>1
<1>3. \A r, s, key : <<r, s, key>> \notin DOMAIN Layout
  BY <1>1
<1>4. QED
  BY <1>1, <1>2, <1>3

\* The fields of every kind.
LEMMA FieldKinds ==
    /\ "bool" \in Kinds /\ TRUE \in ValuesOf["bool"] /\ FALSE \in ValuesOf["bool"]
    /\ \A n \in {0, Preset} : "u64" \in Kinds /\ n \in ValuesOf["u64"] /\ Count(n) = [kind |-> "u64", default |-> n]
    /\ \A chars \in Seq(Symbol) : /\ "string" \in Kinds /\ chars \in ValuesOf["string"]
                                  /\ Text(chars) = [kind |-> "string", default |-> chars]
    /\ \A strings \in Seq(Seq(Symbol)) : /\ "strings" \in Kinds /\ strings \in ValuesOf["strings"]
                                          /\ List(strings) = [kind |-> "strings", default |-> strings]
    /\ "u16" \in Kinds /\ Preset \in ValuesOf["u16"]
    /\ "map" \in Kinds /\ <<>> \in ValuesOf["map"]
BY ValuesOfFacts, PresetFacts DEF Kinds, Count, Text, List

LEMMA Defaults ==
    /\ <<>> \in Seq(Symbol) /\ <<"0.0.0.0">> \in Seq(Symbol) /\ <<"./public">> \in Seq(Symbol)
    /\ <<"info">> \in Seq(Symbol)
    /\ <<>> \in Seq(Seq(Symbol)) /\ <<<<"index.html">>, <<"index.htm">>>> \in Seq(Seq(Symbol))
<1>1. {"0.0.0.0", "./public", "index.html", "index.htm", "info"} \subseteq Symbol
  BY LayoutAssumption DEF Symbol
<1>2. QED
  BY <1>1

LEMMA FieldsFit ==
    ASSUME NEW section, NEW key, Append(section, key) \notin DOMAIN Layout
    PROVE  /\ MemberFits(section, <<key, On>>) /\ MemberFits(section, <<key, Off>>)
           /\ \A n \in {0, Preset} : MemberFits(section, <<key, Count(n)>>)
           /\ \A chars \in Seq(Symbol) : MemberFits(section, <<key, Text(chars)>>)
           /\ \A strings \in Seq(Seq(Symbol)) : MemberFits(section, <<key, List(strings)>>)
           /\ MemberFits(section, <<key, [kind |-> "u16", default |-> Preset]>>)
           /\ MemberFits(section, <<key, [kind |-> "map", default |-> <<>>]>>)
<1>1. MemberFits(section, <<key, On>>) /\ MemberFits(section, <<key, Off>>)
  BY FieldKinds, MemberIntro DEF On, Off
<1>2. ASSUME NEW n \in {0, Preset} PROVE MemberFits(section, <<key, Count(n)>>)
  BY FieldKinds, MemberIntro
<1>3. ASSUME NEW chars \in Seq(Symbol) PROVE MemberFits(section, <<key, Text(chars)>>)
  BY FieldKinds, MemberIntro
<1>4. ASSUME NEW strings \in Seq(Seq(Symbol)) PROVE MemberFits(section, <<key, List(strings)>>)
  BY FieldKinds, MemberIntro
<1>5. MemberFits(section, <<key, [kind |-> "u16", default |-> Preset]>>)
  BY FieldKinds, MemberIntro
<1>6. MemberFits(section, <<key, [kind |-> "map", default |-> <<>>]>>)
  BY FieldKinds, MemberIntro
<1>7. QED
  BY <1>1, <1>2, <1>3, <1>4, <1>5, <1>6

LEMMA SectionFits ==
    ASSUME NEW section, NEW key, Append(section, key) \in DOMAIN Layout
    PROVE  MemberFits(section, <<key, Section>>)
BY DEF MemberFits, Section

LEMMA NestedPaths ==
    /\ \A key : <<key>> \in DOMAIN Layout <=> Append(<<>>, key) \in DOMAIN Layout
    /\ \A s, key : Append(<<s>>, key) \in DOMAIN Layout <=> s = "security" /\ key = "rate_limit"
    /\ \A r, s, key : Append(<<r, s>>, key) \notin DOMAIN Layout
<1>1. ASSUME NEW key PROVE <<key>> \in DOMAIN Layout <=> Append(<<>>, key) \in DOMAIN Layout
  BY AppendShort, Zenon
<1>2. ASSUME NEW s, NEW key PROVE Append(<<s>>, key) \in DOMAIN Layout <=> s = "security" /\ key = "rate_limit"
  <2>1. Append(<<s>>, key) = <<s, key>>
    BY AppendShort, Zenon
  <2>2. <<s, key>> \in DOMAIN Layout <=> s = "security" /\ key = "rate_limit"
    BY Sections, Zenon
  <2>3. QED
    BY <2>1, <2>2, Zenon
<1>3. ASSUME NEW r, NEW s, NEW key PROVE Append(<<r, s>>, key) \notin DOMAIN Layout
  <2>1. Append(<<r, s>>, key) = <<r, s, key>>
    BY AppendShort, Zenon
  <2>2. <<r, s, key>> \notin DOMAIN Layout
    BY Sections, Zenon
  <2>3. QED
    BY <2>1, <2>2, Zenon
<1>4. QED
  BY <1>1, <1>2, <1>3

\* The members of every section.
LEMMA RootMembers ==
    Layout[<<>>] =
    <<<<"server", Section>>, <<"static", Section>>, <<"compression", Section>>,
      <<"security", Section>>, <<"tls", Section>>, <<"admin", Section>>,
      <<"logging", Section>>, <<"mime_overrides", [kind |-> "map", default |-> <<>>]>>>>
BY DEF Layout

LEMMA ServerMembers ==
    Layout[<<"server">>] =
    <<<<"bind", Text(<<"0.0.0.0">>)>>, <<"port", [kind |-> "u16", default |-> Preset]>>,
      <<"worker_threads", Count(0)>>, <<"max_connections", Count(Preset)>>,
      <<"keep_alive_secs", Count(Preset)>>, <<"read_timeout_secs", Count(Preset)>>,
      <<"request_max_bytes", Count(Preset)>>>>
BY DEF Layout

LEMMA StaticMembers ==
    Layout[<<"static">>] =
    <<<<"root", Text(<<"./public">>)>>,
      <<"index_files", List(<<<<"index.html">>, <<"index.htm">>>>)>>,
      <<"follow_symlinks", Off>>, <<"directory_listing", Off>>>>
BY DEF Layout

LEMMA CompressionMembers ==
    Layout[<<"compression">>] =
    <<<<"gzip", On>>, <<"min_bytes", Count(Preset)>>>>
BY DEF Layout

LEMMA SecurityMembers ==
    Layout[<<"security">>] =
    <<<<"enable_security_headers", Off>>, <<"rate_limit", Section>>,
      <<"blocked_patterns", List(<<>>)>>>>
BY DEF Layout

LEMMA RateLimitMembers ==
    Layout[<<"security", "rate_limit">>] =
    <<<<"enabled", On>>, <<"requests", Count(Preset)>>,
      <<"window_secs", Count(Preset)>>, <<"ban_secs", Count(Preset)>>>>
BY DEF Layout

LEMMA TlsMembers ==
    Layout[<<"tls">>] =
    <<<<"enabled", Off>>, <<"cert_path", Text(<<>>)>>, <<"key_path", Text(<<>>)>>>>
BY DEF Layout

LEMMA AdminMembers ==
    Layout[<<"admin">>] =
    <<<<"username", Text(<<>>)>>, <<"password_sha256", Text(<<>>)>>>>
BY DEF Layout

LEMMA LoggingMembers ==
    Layout[<<"logging">>] =
    <<<<"level", Text(<<"info">>)>>, <<"access_log", On>>>>
BY DEF Layout

LEMMA EightFit ==
    ASSUME NEW section, NEW a, NEW b, NEW c, NEW d, NEW e, NEW f, NEW g, NEW h,
           MemberFits(section, a), MemberFits(section, b), MemberFits(section, c), MemberFits(section, d),
           MemberFits(section, e), MemberFits(section, f), MemberFits(section, g), MemberFits(section, h),
           NEW members, members = <<a, b, c, d, e, f, g, h>>
    PROVE  \A i \in DOMAIN members : MemberFits(section, members[i])
<1>1. DOMAIN members = 1 .. 8
  OBVIOUS
<1>2. members[1] = a /\ members[2] = b /\ members[3] = c /\ members[4] = d
  OBVIOUS
<1>3. members[5] = e /\ members[6] = f /\ members[7] = g /\ members[8] = h
  OBVIOUS
<1>4. QED
  BY <1>1, <1>2, <1>3

LEMMA MembersFit ==
    \A section \in DOMAIN Layout : \A i \in DOMAIN Layout[section] : MemberFits(section, Layout[section][i])
<1> DEFINE Fits(section) == \A i \in DOMAIN Layout[section] : MemberFits(section, Layout[section][i])
<1>1. ASSUME NEW s, s # "security", NEW key
      PROVE  /\ MemberFits(<<s>>, <<key, On>>) /\ MemberFits(<<s>>, <<key, Off>>)
             /\ \A n \in {0, Preset} : MemberFits(<<s>>, <<key, Count(n)>>)
             /\ \A chars \in Seq(Symbol) : MemberFits(<<s>>, <<key, Text(chars)>>)
             /\ \A strings \in Seq(Seq(Symbol)) : MemberFits(<<s>>, <<key, List(strings)>>)
             /\ MemberFits(<<s>>, <<key, [kind |-> "u16", default |-> Preset]>>)
  <2>1. Append(<<s>>, key) \notin DOMAIN Layout
    BY <1>1, NestedPaths, Zenon
  <2>2. QED
    BY <2>1, FieldsFit, Zenon
<1>2. Fits(<<>>)
  <2>2. <<"mime_overrides">> \notin DOMAIN Layout
    BY Sections
  <2>3. MemberFits(<<>>, <<"mime_overrides", [kind |-> "map", default |-> <<>>]>>)
    BY <2>2, NestedPaths, FieldsFit, Zenon
  <2>4. ASSUME NEW key, <<key>> \in DOMAIN Layout PROVE MemberFits(<<>>, <<key, Section>>)
    BY <2>4, NestedPaths, SectionFits, Zenon
  <2>5. MemberFits(<<>>, <<"server", Section>>)
    BY <2>4, Sections
  <2>6. MemberFits(<<>>, <<"static", Section>>)
    BY <2>4, Sections
  <2>7. MemberFits(<<>>, <<"compression", Section>>)
    BY <2>4, Sections
  <2>8. MemberFits(<<>>, <<"security", Section>>)
    BY <2>4, Sections
  <2>9. MemberFits(<<>>, <<"tls", Section>>)
    BY <2>4, Sections
  <2>10. MemberFits(<<>>, <<"admin", Section>>)
    BY <2>4, Sections
  <2>11. MemberFits(<<>>, <<"logging", Section>>)
    BY <2>4, Sections
  <2>12. QED
    BY RootMembers, <2>3, <2>5, <2>6, <2>7, <2>8, <2>9, <2>10, <2>11, EightFit, Zenon
<1>3. Fits(<<"server">>)
  <2>2. MemberFits(<<"server">>, <<"bind", Text(<<"0.0.0.0">>)>>)
    BY <1>1, Defaults
  <2>3. MemberFits(<<"server">>, <<"port", [kind |-> "u16", default |-> Preset]>>)
    BY <1>1, Defaults
  <2>4. MemberFits(<<"server">>, <<"worker_threads", Count(0)>>)
    BY <1>1, Defaults
  <2>5. MemberFits(<<"server">>, <<"max_connections", Count(Preset)>>)
    BY <1>1, Defaults
  <2>6. MemberFits(<<"server">>, <<"keep_alive_secs", Count(Preset)>>)
    BY <1>1, Defaults
  <2>7. MemberFits(<<"server">>, <<"read_timeout_secs", Count(Preset)>>)
    BY <1>1, Defaults
  <2>8. MemberFits(<<"server">>, <<"request_max_bytes", Count(Preset)>>)
    BY <1>1, Defaults
  <2>9. QED
    BY ServerMembers, <2>2, <2>3, <2>4, <2>5, <2>6, <2>7, <2>8
<1>4. Fits(<<"static">>)
  <2>2. MemberFits(<<"static">>, <<"root", Text(<<"./public">>)>>)
    BY <1>1, Defaults
  <2>3. MemberFits(<<"static">>, <<"index_files", List(<<<<"index.html">>, <<"index.htm">>>>)>>)
    BY <1>1, Defaults
  <2>4. MemberFits(<<"static">>, <<"follow_symlinks", Off>>)
    BY <1>1, Defaults
  <2>5. MemberFits(<<"static">>, <<"directory_listing", Off>>)
    BY <1>1, Defaults
  <2>6. QED
    BY StaticMembers, <2>2, <2>3, <2>4, <2>5
<1>5. Fits(<<"compression">>)
  <2>2. MemberFits(<<"compression">>, <<"gzip", On>>)
    BY <1>1, Defaults
  <2>3. MemberFits(<<"compression">>, <<"min_bytes", Count(Preset)>>)
    BY <1>1, Defaults
  <2>4. QED
    BY CompressionMembers, <2>2, <2>3
<1>6. Fits(<<"security">>)
  <2>0. ASSUME NEW key, key # "rate_limit"
        PROVE  /\ MemberFits(<<"security">>, <<key, On>>) /\ MemberFits(<<"security">>, <<key, Off>>)
               /\ \A strings \in Seq(Seq(Symbol)) : MemberFits(<<"security">>, <<key, List(strings)>>)
    <3>1. Append(<<"security">>, key) \notin DOMAIN Layout
      <4>1. Append(<<"security">>, key) = <<"security", key>>
        BY AppendShort, Zenon
      <4>2. <<"security", key>> \notin DOMAIN Layout
        BY <2>0, Sections
      <4>3. QED
        BY <4>1, <4>2, Zenon
    <3>2. QED
      BY <3>1, FieldsFit, Zenon
  <2>2. MemberFits(<<"security">>, <<"enable_security_headers", Off>>)
    BY <2>0, Defaults
  <2>3. MemberFits(<<"security">>, <<"rate_limit", Section>>)
    BY NestedPaths, SectionFits, Zenon
  <2>4. MemberFits(<<"security">>, <<"blocked_patterns", List(<<>>)>>)
    BY <2>0, Defaults
  <2>5. QED
    BY SecurityMembers, <2>2, <2>3, <2>4
<1>7. Fits(<<"security", "rate_limit">>)
  <2>2. MemberFits(<<"security", "rate_limit">>, <<"enabled", On>>)
    BY NestedPaths, FieldsFit
  <2>3. MemberFits(<<"security", "rate_limit">>, <<"requests", Count(Preset)>>)
    BY NestedPaths, FieldsFit
  <2>4. MemberFits(<<"security", "rate_limit">>, <<"window_secs", Count(Preset)>>)
    BY NestedPaths, FieldsFit
  <2>5. MemberFits(<<"security", "rate_limit">>, <<"ban_secs", Count(Preset)>>)
    BY NestedPaths, FieldsFit
  <2>6. QED
    BY RateLimitMembers, <2>2, <2>3, <2>4, <2>5
<1>8. Fits(<<"tls">>)
  <2>2. MemberFits(<<"tls">>, <<"enabled", Off>>)
    BY <1>1, Defaults
  <2>3. MemberFits(<<"tls">>, <<"cert_path", Text(<<>>)>>)
    BY <1>1, Defaults
  <2>4. MemberFits(<<"tls">>, <<"key_path", Text(<<>>)>>)
    BY <1>1, Defaults
  <2>5. QED
    BY TlsMembers, <2>2, <2>3, <2>4
<1>9. Fits(<<"admin">>)
  <2>2. MemberFits(<<"admin">>, <<"username", Text(<<>>)>>)
    BY <1>1, Defaults
  <2>3. MemberFits(<<"admin">>, <<"password_sha256", Text(<<>>)>>)
    BY <1>1, Defaults
  <2>4. QED
    BY AdminMembers, <2>2, <2>3
<1>10. Fits(<<"logging">>)
  <2>2. MemberFits(<<"logging">>, <<"level", Text(<<"info">>)>>)
    BY <1>1, Defaults
  <2>3. MemberFits(<<"logging">>, <<"access_log", On>>)
    BY <1>1, Defaults
  <2>4. QED
    BY LoggingMembers, <2>2, <2>3
<1> HIDE DEF Fits
<1>11. \A section \in DOMAIN Layout : Fits(section)
  BY <1>2, <1>3, <1>4, <1>5, <1>6, <1>7, <1>8, <1>9, <1>10, Sections
<1>12. QED
  BY <1>11 DEF Fits

\* The members of the layout that are fields, each with its path.
Entries ==
    LET under(section) == {<<Append(section, member[1]), member[2]>> : member \in Range(Layout[section])}
    IN  {entry \in UNION {under(section) : section \in DOMAIN Layout} : entry[2].kind # "section"}

LEMMA EntryFacts ==
    ASSUME NEW path, NEW field
    PROVE  <<path, field>> \in Entries <=>
              /\ field.kind # "section"
              /\ \E section \in DOMAIN Layout : \E i \in DOMAIN Layout[section] :
                    path = Append(section, Layout[section][i][1]) /\ field = Layout[section][i][2]
BY DEF Entries, Range

LEMMA SchemaFacts ==
    /\ DOMAIN Schema = {entry[1] : entry \in Entries}
    /\ \A path \in DOMAIN Schema : <<path, Schema[path]>> \in Entries
<1>1. Schema = [path \in {entry[1] : entry \in Entries} |-> (CHOOSE entry \in Entries : entry[1] = path)[2]]
  BY DEF Schema, Entries
<1>2. ASSUME NEW entry \in Entries PROVE entry = <<entry[1], entry[2]>>
  BY DEF Entries
<1>3. ASSUME NEW path \in DOMAIN Schema PROVE <<path, Schema[path]>> \in Entries
  <2> DEFINE chosen == CHOOSE entry \in Entries : entry[1] = path
  <2>1. \E entry \in Entries : entry[1] = path
    BY <1>1
  <2>2. chosen \in Entries /\ chosen[1] = path
    BY <2>1
  <2>3. Schema[path] = chosen[2]
    BY <1>1
  <2> HIDE DEF chosen
  <2>4. QED
    BY <1>2, <2>2, <2>3
<1>4. QED
  BY <1>1, <1>3

LEMMA SchemaType ==
    ASSUME NEW path \in DOMAIN Schema
    PROVE  /\ Schema[path].kind \in Kinds /\ Default[path] \in ValuesOf[Schema[path].kind]
           /\ path \notin DOMAIN Layout
           /\ \E section \in DOMAIN Layout : \E i \in DOMAIN Layout[section] :
                 /\ path = Append(section, Layout[section][i][1])
                 /\ Layout[section][i][2].kind # "section"
<1>1. PICK section \in DOMAIN Layout : \E i \in DOMAIN Layout[section] :
          /\ path = Append(section, Layout[section][i][1]) /\ Schema[path] = Layout[section][i][2]
          /\ Schema[path].kind # "section"
  <2>1. <<path, Schema[path]>> \in Entries
    BY SchemaFacts
  <2> DEFINE field == Schema[path]
  <2> HIDE DEF field
  <2>2. <<path, field>> \in Entries
    BY <2>1 DEF field
  <2>3. QED
    BY <2>2, EntryFacts DEF field
<1>0. PICK i \in DOMAIN Layout[section] :
          /\ path = Append(section, Layout[section][i][1]) /\ Schema[path] = Layout[section][i][2]
          /\ Schema[path].kind # "section"
  BY <1>1
<1>2. Default[path] = Schema[path].default
  BY DEF Default
<1>3. MemberFits(section, Layout[section][i])
  BY MembersFit
<1>4. QED
  BY <1>0, <1>2, <1>3 DEF MemberFits

SectionNames == {"server", "static", "compression", "security", "rate_limit", "tls", "admin", "logging"}

LEMMA SectionPaths ==
    /\ DOMAIN Layout \subseteq Seq(SectionNames)
    /\ \A section \in DOMAIN Layout : Len(section) \in 0 .. 2
    /\ \A section \in DOMAIN Layout : \A i \in DOMAIN Layout[section] : Layout[section][i][1] \in Runs
<1>1. /\ <<>> \in Seq(SectionNames) /\ <<"server">> \in Seq(SectionNames) /\ <<"static">> \in Seq(SectionNames)
      /\ <<"compression">> \in Seq(SectionNames) /\ <<"security">> \in Seq(SectionNames)
      /\ <<"security", "rate_limit">> \in Seq(SectionNames) /\ <<"tls">> \in Seq(SectionNames)
      /\ <<"admin">> \in Seq(SectionNames) /\ <<"logging">> \in Seq(SectionNames)
  BY DEF SectionNames
<1>2. QED
  BY <1>1, Sections, LayoutAssumption

\* The field at a path, where no other member of the section has that name.
LEMMA SchemaAt ==
    ASSUME NEW section \in DOMAIN Layout, NEW i \in DOMAIN Layout[section],
           Layout[section][i][2].kind # "section",
           \A j \in DOMAIN Layout[section] : Layout[section][j][1] = Layout[section][i][1] => j = i
    PROVE  /\ Append(section, Layout[section][i][1]) \in DOMAIN Schema
           /\ Schema[Append(section, Layout[section][i][1])] = Layout[section][i][2]
<1> DEFINE path == Append(section, Layout[section][i][1])
<1>1. <<path, Layout[section][i][2]>> \in Entries
  BY EntryFacts
<1>2. path \in DOMAIN Schema
  <2>1. <<path, Layout[section][i][2]>>[1] = path
    OBVIOUS
  <2> HIDE DEF path
  <2>2. QED
    BY <1>1, <2>1, SchemaFacts
<1>0. PICK other \in DOMAIN Layout : \E j \in DOMAIN Layout[other] :
          path = Append(other, Layout[other][j][1]) /\ Schema[path] = Layout[other][j][2]
  BY <1>2, SchemaFacts, EntryFacts
<1>3. PICK j \in DOMAIN Layout[other] :
          path = Append(other, Layout[other][j][1]) /\ Schema[path] = Layout[other][j][2]
  BY <1>0
<1>4. other = section /\ Layout[other][j][1] = Layout[section][i][1]
  <2>1. /\ section \in Seq(SectionNames) /\ other \in Seq(SectionNames)
        /\ Layout[section][i][1] \in Runs /\ Layout[other][j][1] \in Runs
    BY SectionPaths
  <2>2. QED
    BY <1>3, <2>1, AppendInjective
<1>5. QED
  BY <1>2, <1>3, <1>4

\* The fields that validate, main and the panel look at.
LEMMA SchemaPaths ==
    /\ <<"server", "port">> \in DOMAIN Schema
    /\ Schema[<<"server", "port">>] = [kind |-> "u16", default |-> Preset]
    /\ <<"server", "bind">> \in DOMAIN Schema /\ Schema[<<"server", "bind">>] = Text(<<"0.0.0.0">>)
    /\ <<"static", "root">> \in DOMAIN Schema /\ Schema[<<"static", "root">>] = Text(<<"./public">>)
    /\ <<"tls", "enabled">> \in DOMAIN Schema /\ Schema[<<"tls", "enabled">>] = Off
    /\ <<"logging", "level">> \in DOMAIN Schema /\ Schema[<<"logging", "level">>] = Text(<<"info">>)
    /\ <<"admin", "password_sha256">> \in DOMAIN Schema
    /\ Schema[<<"admin", "password_sha256">>] = Text(<<>>)
    /\ <<"server", "worker_threads">> \in DOMAIN Schema
    /\ <<"tls", "cert_path">> \in DOMAIN Schema /\ <<"tls", "key_path">> \in DOMAIN Schema
<1> DEFINE At1(s, i, key, field) ==
              /\ <<s>> \in DOMAIN Layout /\ i \in DOMAIN Layout[<<s>>] /\ field.kind # "section"
              /\ Layout[<<s>>][i] = <<key, field>>
              /\ \A j \in DOMAIN Layout[<<s>>] : Layout[<<s>>][j][1] = key => j = i
<1>1. ASSUME NEW s, NEW i, NEW key, NEW field, At1(s, i, key, field)
      PROVE  <<s, key>> \in DOMAIN Schema /\ Schema[<<s, key>>] = field
  <2>1. Layout[<<s>>][i][1] = key /\ Layout[<<s>>][i][2] = field
    BY <1>1
  <2>2. Append(<<s>>, key) \in DOMAIN Schema /\ Schema[Append(<<s>>, key)] = field
    BY <1>1, <2>1, SchemaAt
  <2>3. Append(<<s>>, key) = <<s, key>>
    BY AppendShort, Zenon
  <2>4. QED
    BY <2>2, <2>3, Zenon
<1>2. At1("server", 2, "port", [kind |-> "u16", default |-> Preset])
  BY Sections, ServerMembers
<1>3. At1("server", 1, "bind", Text(<<"0.0.0.0">>))
  BY Sections, ServerMembers DEF Text
<1>4. At1("static", 1, "root", Text(<<"./public">>))
  BY Sections, StaticMembers DEF Text
<1>5. At1("tls", 1, "enabled", Off)
  <2>1. Off.kind # "section"
    BY DEF Off
  <2>2. QED
    BY <2>1, Sections, TlsMembers
<1>6. At1("logging", 1, "level", Text(<<"info">>))
  BY Sections, LoggingMembers DEF Text
<1>7. At1("admin", 2, "password_sha256", Text(<<>>))
  BY Sections, AdminMembers DEF Text
<1>8. At1("server", 3, "worker_threads", Count(0))
  BY Sections, ServerMembers DEF Count
<1>9. At1("tls", 2, "cert_path", Text(<<>>)) /\ At1("tls", 3, "key_path", Text(<<>>))
  BY Sections, TlsMembers DEF Text
<1> HIDE DEF At1
<1>10. QED
  BY <1>1, <1>2, <1>3, <1>4, <1>5, <1>6, <1>7, <1>8, <1>9

\* The configurations that a text can give.
IsConfiguration(c) ==
    /\ c = [path \in DOMAIN Schema |-> c[path]]
    /\ \A path \in DOMAIN Schema : c[path] \in ValuesOf[Schema[path].kind]

LEMMA DefaultFits == IsConfiguration(Default) /\ validate(Default)
<1>1. IsConfiguration(Default)
  <2>1. Default = [path \in DOMAIN Schema |-> Default[path]]
    BY DEF Default
  <2>2. QED
    BY <2>1, SchemaType DEF IsConfiguration
<1>2. /\ Default[<<"server", "port">>] = Preset
      /\ Default[<<"server", "bind">>] = <<"0.0.0.0">>
      /\ Default[<<"static", "root">>] = <<"./public">>
      /\ Default[<<"tls", "enabled">>] = FALSE
      /\ Default[<<"logging", "level">>] = <<"info">>
  BY SchemaPaths DEF Default, Text, Off
<1>3. <<"0.0.0.0">> # <<>> /\ <<"./public">> # <<>> /\ <<"info">> \in {<<level>> : level \in LOG_LEVELS}
  BY DEF LOG_LEVELS
<1>4. Preset # 0
  BY PresetFacts
<1>5. validate(Default)
  BY <1>2, <1>3, <1>4 DEF validate
<1>6. QED
  BY <1>1, <1>5

-----------------------------------------------------------------------------
(* Configurations read from JSON values. *)

\* The kinds of JSON values are different.
LEMMA JsonKinds ==
    ASSUME NEW J, NEW json, IsJson(json, J)
    PROVE  /\ json.kind = "bool" => json.value \in BOOLEAN /\ json = Bool(json.value)
           /\ json.kind = "number" => json.value \in Int
           /\ json.kind = "string" => json.value \in Seq(Symbol)
           /\ json.kind = "array" => json.value \in Seq(J)
           /\ json.kind = "object" => json.value \in Seq(Seq(Symbol) \X J)
<1>1. CASE json = Null
  BY <1>1 DEF Null
<1>2. CASE \E b \in BOOLEAN : json = Bool(b)
  <2>1. PICK b \in BOOLEAN : json = Bool(b)
    BY <1>2
  <2>2. json.kind = "bool" /\ (json.value <=> b)
    BY <2>1 DEF Bool
  <2>3. json.value \in BOOLEAN /\ json = Bool(json.value)
    BY <2>1 DEF Bool
  <2>4. QED
    BY <2>2, <2>3
<1>3. CASE \E n \in Int : json = Number(n)
  BY <1>3 DEF Number
<1>4. CASE \E s \in Seq(Symbol) : json = String(s)
  BY <1>4 DEF String
<1>5. CASE \E items \in Seq(J) : json = Array(items)
  BY <1>5 DEF Array
<1>6. CASE \E members \in Seq(Seq(Symbol) \X J) : json = Object(members)
  BY <1>6 DEF Object
<1>7. QED
  BY <1>1, <1>2, <1>3, <1>4, <1>5, <1>6 DEF IsJson

LEMMA GetType ==
    ASSUME NEW J, ClosedJson(J), NEW json \in J, NEW key
    PROVE  Get(json, key) \subseteq J
<1> DEFINE members == IF json.kind = "object" THEN json.value ELSE <<>>
<1>1. members \in Seq(Seq(Symbol) \X J)
  <2>1. json.kind = "object" => json.value \in Seq(Seq(Symbol) \X J)
    BY JsonKinds DEF ClosedJson
  <2>2. <<>> \in Seq(Seq(Symbol) \X J)
    OBVIOUS
  <2>3. QED
    BY <2>1, <2>2
<1>2. Get(json, key) \subseteq {members[i][2] : i \in DOMAIN members}
  BY DEF Get
<1> HIDE DEF members
<1>3. QED
  BY <1>1, <1>2

\* One step further down a path.
DownBody(root, path, n, previous) ==
    IF n = 0 THEN {root} ELSE UNION {Get(json, <<path[n]>>) : json \in previous}

Down(root, path) == CHOOSE down : down = [n \in 0 .. Len(path) |-> DownBody(root, path, n, down[n - 1])]

LEMMA DownEquation ==
    ASSUME NEW root, NEW path, Len(path) \in Nat
    PROVE  /\ \A n \in 0 .. Len(path) : Down(root, path)[n] = DownBody(root, path, n, Down(root, path)[n - 1])
           /\ At(root, path) = Down(root, path)[Len(path)]
<1> DEFINE N == Len(path)
           Body(n, previous) == DownBody(root, path, n, previous)
           Solves(f, k) == \A n \in 0 .. N : n < k => f[n] = Body(n, f[n - 1])
           S == {k \in Nat : k <= N + 1 => \E f : Solves(f, k)}
<1>0. \A previous, other : Body(0, previous) = Body(0, other)
  BY DEF DownBody
<1> HIDE DEF Body
<1>1. N \in Nat
  OBVIOUS
<1>2. 0 \in S
  BY <1>1
<1>3. ASSUME NEW k \in Nat, k \in S PROVE k + 1 \in S
  <2>1. SUFFICES ASSUME k + 1 <= N + 1 PROVE \E f : Solves(f, k + 1)
    OBVIOUS
  <2>2. PICK f : Solves(f, k)
    BY <1>1, <1>3, <2>1
  <2> DEFINE g == [n \in 0 .. N |-> IF n = k THEN Body(k, f[k - 1]) ELSE f[n]]
  <2>3. ASSUME NEW n \in 0 .. N, n < k + 1 PROVE g[n] = Body(n, g[n - 1])
    <3>1. g[n] = Body(n, f[n - 1])
      <4>1. CASE n = k
        BY <4>1
      <4>2. CASE n # k
        BY <1>1, <2>2, <2>3, <4>2
      <4>3. QED
        BY <4>1, <4>2
    <3>2. n # 0 => g[n - 1] = f[n - 1]
      BY <1>1, <2>3
    <3> HIDE DEF g
    <3>3. CASE n = 0
      BY <1>0, <3>1, <3>3
    <3>4. CASE n # 0
      BY <3>1, <3>2, <3>4
    <3>5. QED
      BY <3>3, <3>4
  <2>4. Solves(g, k + 1)
    BY <2>3
  <2>5. QED
    BY <2>4
<1>4. N + 1 \in S
  <2> HIDE DEF S
  <2>1. QED
    BY <1>1, <1>2, <1>3, Induction
<1>5. PICK f : Solves(f, N + 1)
  BY <1>1, <1>4
<1> DEFINE Sol(down) == down = [n \in 0 .. N |-> Body(n, down[n - 1])]
           h == [n \in 0 .. N |-> f[n]]
<1>6. ASSUME NEW n \in 0 .. N PROVE h[n] = Body(n, h[n - 1])
  <2>1. h[n] = f[n] /\ f[n] = Body(n, f[n - 1])
    BY <1>1, <1>5
  <2>2. n # 0 => h[n - 1] = f[n - 1]
    BY <1>1
  <2> HIDE DEF h
  <2>3. CASE n = 0
    BY <1>0, <2>1, <2>3
  <2>4. CASE n # 0
    BY <2>1, <2>2, <2>4
  <2>5. QED
    BY <2>3, <2>4
<1>7. Sol(h)
  BY <1>6
<1>8. Down(root, path) = CHOOSE down : Sol(down)
  BY DEF Down, Body
<1>9. Sol(Down(root, path))
  <2> HIDE DEF Sol
  <2>1. QED
    BY <1>7, <1>8
<1>10. \A n \in 0 .. N : Down(root, path)[n] = Body(n, Down(root, path)[n - 1])
  BY <1>9
<1>11. At(root, path) = Down(root, path)[N]
  BY DEF At, Down, DownBody
<1>12. QED
  BY <1>10, <1>11 DEF Body

LEMMA DownSteps ==
    ASSUME NEW root, NEW path, Len(path) \in Nat
    PROVE  /\ Down(root, path)[0] = {root}
           /\ \A n \in 0 .. (Len(path) - 1) :
                Down(root, path)[n + 1] = UNION {Get(json, <<path[n + 1]>>) : json \in Down(root, path)[n]}
<1>1. ASSUME NEW previous PROVE DownBody(root, path, 0, previous) = {root}
  BY DEF DownBody
<1>2. ASSUME NEW n, n # 0, NEW previous
      PROVE  DownBody(root, path, n, previous) = UNION {Get(json, <<path[n]>>) : json \in previous}
  BY <1>2 DEF DownBody
<1>3. Down(root, path)[0] = {root}
  <2>1. 0 \in 0 .. Len(path)
    OBVIOUS
  <2>2. QED
    BY <1>1, <2>1, DownEquation
<1>4. ASSUME NEW n \in 0 .. (Len(path) - 1)
      PROVE  Down(root, path)[n + 1] = UNION {Get(json, <<path[n + 1]>>) : json \in Down(root, path)[n]}
  <2>1. n + 1 \in 0 .. Len(path) /\ n + 1 # 0 /\ (n + 1) - 1 = n
    OBVIOUS
  <2>2. Down(root, path)[n + 1] = DownBody(root, path, n + 1, Down(root, path)[n])
    BY <2>1, DownEquation
  <2>3. QED
    BY <1>2, <2>1, <2>2
<1>5. QED
  BY <1>3, <1>4

LEMMA AtType ==
    ASSUME NEW J, ClosedJson(J), NEW root \in J, NEW path, Len(path) \in Nat
    PROVE  At(root, path) \subseteq J
<1> DEFINE D == Down(root, path)
           S == {n \in Nat : n <= Len(path) => D[n] \subseteq J}
<1>1. /\ D[0] = {root}
      /\ \A n \in 0 .. (Len(path) - 1) : D[n + 1] = UNION {Get(json, <<path[n + 1]>>) : json \in D[n]}
  BY DownSteps
<1> HIDE DEF D
<1>2. 0 \in S
  BY <1>1
<1>3. ASSUME NEW n \in Nat, n \in S PROVE n + 1 \in S
  <2>1. SUFFICES ASSUME n + 1 <= Len(path) PROVE D[n + 1] \subseteq J
    OBVIOUS
  <2>2. D[n] \subseteq J /\ D[n + 1] = UNION {Get(json, <<path[n + 1]>>) : json \in D[n]}
    BY <1>1, <1>3, <2>1
  <2>3. QED
    BY <2>2, GetType
<1>4. Len(path) \in S
  <2> HIDE DEF S
  <2>1. QED
    BY <1>2, <1>3, Induction
<1>5. QED
  BY <1>4, DownEquation DEF D

LEMMA AtRoot ==
    ASSUME NEW root
    PROVE  At(root, <<>>) = {root}
<1>1. Len(<<>>) = 0 /\ 0 \in 0 .. 0
  OBVIOUS
<1>2. QED
  BY <1>1, DownEquation, DownSteps

LEMMA AtAppend ==
    ASSUME NEW S, NEW path \in Seq(S), NEW key \in S, NEW root
    PROVE  At(root, Append(path, key)) = UNION {Get(json, <<key>>) : json \in At(root, path)}
<1> DEFINE longer == Append(path, key)
           D == Down(root, path)
           E == Down(root, longer)
           N == Len(path)
           T == {n \in Nat : n <= N => E[n] = D[n]}
<1>1. N \in Nat /\ Len(longer) = N + 1 /\ longer[N + 1] = key /\ \A n \in 1 .. N : longer[n] = path[n]
  BY AppendProperties
<1> HIDE DEF longer, N
<1>2. /\ D[0] = {root} /\ E[0] = {root}
      /\ \A n \in 0 .. (N - 1) : D[n + 1] = UNION {Get(json, <<path[n + 1]>>) : json \in D[n]}
      /\ \A n \in 0 .. N : E[n + 1] = UNION {Get(json, <<longer[n + 1]>>) : json \in E[n]}
      /\ At(root, path) = D[N] /\ At(root, longer) = E[N + 1]
  <2>1. Len(longer) - 1 = N
    BY <1>1
  <2>2. QED
    BY <1>1, <2>1, DownEquation, DownSteps DEF N
<1> HIDE DEF D, E
<1>3. 0 \in T
  BY <1>2
<1>4. ASSUME NEW n \in Nat, n \in T PROVE n + 1 \in T
  <2>1. SUFFICES ASSUME n + 1 <= N PROVE E[n + 1] = D[n + 1]
    OBVIOUS
  <2>2. E[n] = D[n] /\ longer[n + 1] = path[n + 1]
    BY <1>1, <1>4, <2>1
  <2>3. /\ D[n + 1] = UNION {Get(json, <<path[n + 1]>>) : json \in D[n]}
        /\ E[n + 1] = UNION {Get(json, <<longer[n + 1]>>) : json \in E[n]}
    <3>1. n \in 0 .. (N - 1) /\ n \in 0 .. N
      BY <1>1, <2>1
    <3>2. QED
      BY <1>2, <3>1
  <2>4. QED
    BY <2>2, <2>3
<1>5. N \in T
  <2> HIDE DEF T
  <2>1. QED
    BY <1>1, <1>3, <1>4, Induction
<1>6. E[N + 1] = UNION {Get(json, <<longer[N + 1]>>) : json \in E[N]}
  BY <1>1, <1>2
<1>7. QED
  BY <1>1, <1>2, <1>5, <1>6 DEF longer

\* A number that as_u64 accepts is the rounding of what it returns, and so
\* survives to be written as that and read again.
LEMMA CountType ==
    ASSUME NEW json, json.kind = "number" => json.value \in Int
    PROVE  as_u64(json) \subseteq Counts
<1>1. SUFFICES ASSUME NEW n \in as_u64(json) PROVE n \in Counts
  OBVIOUS
<1> DEFINE v == json.value
           truncated == IF v \div 2 > U64Max THEN U64Max ELSE v \div 2
           Fits(x, t) == x >= 0 /\ x <= F64(2 * U64Max) /\ F64(2 * t) = x
<1>2. as_u64(json) = IF json.kind = "number" /\ Fits(v, truncated) THEN {truncated} ELSE {}
  BY DEF as_u64
<1> HIDE DEF Fits
<1>3. json.kind = "number" /\ Fits(v, truncated) /\ n = truncated
  BY <1>1, <1>2
<1>4. v \in Int /\ v >= 0 /\ F64(2 * n) = v
  BY <1>3 DEF Fits
<1>5. n \in 0 .. U64Max
  <2>1. U64Max \in Nat /\ v \div 2 \in Nat
    BY <1>4, JsonAssumption
  <2>2. QED
    BY <1>3, <2>1
<1> DEFINE again == Number(F64(2 * n))
<1>6. again.kind = "number" /\ again.value = v
  BY <1>4 DEF Number
<1>7. as_u64(again) = as_u64(json)
  <2> HIDE DEF again
  <2>1. QED
    BY <1>3, <1>6 DEF as_u64
<1>8. as_u64(json) = {n}
  BY <1>2, <1>3
<1>9. QED
  BY <1>5, <1>7, <1>8 DEF Counts

LEMMA ReadAsCases ==
    ASSUME NEW json
    PROVE  /\ ReadAs("bool", json) = IF json.kind = "bool" THEN {json.value} ELSE {}
           /\ ReadAs("string", json) = IF json.kind = "string" THEN {json.value} ELSE {}
           /\ ReadAs("u64", json) = as_u64(json)
           /\ ReadAs("u16", json) = {n \in as_u64(json) : n <= U16Max}
           /\ ReadAs("strings", json) =
                IF json.kind = "array" /\ \A i \in DOMAIN json.value : json.value[i].kind = "string"
                THEN {[i \in DOMAIN json.value |-> json.value[i].value]} ELSE {}
           /\ ReadAs("map", json) =
                IF json.kind = "object" /\ \A i \in DOMAIN json.value : json.value[i][2].kind = "string"
                THEN {[i \in DOMAIN json.value |-> <<json.value[i][1], json.value[i][2].value>>]} ELSE {}
BY DEF ReadAs

LEMMA ReadAsType ==
    ASSUME NEW J, ClosedJson(J), NEW json \in J, NEW kind \in Kinds
    PROVE  ReadAs(kind, json) \subseteq ValuesOf[kind]
<1>0. /\ json.kind = "bool" => json.value \in BOOLEAN
      /\ json.kind = "number" => json.value \in Int
      /\ json.kind = "string" => json.value \in Seq(Symbol)
      /\ json.kind = "array" => json.value \in Seq(J)
      /\ json.kind = "object" => json.value \in Seq(Seq(Symbol) \X J)
  BY JsonKinds DEF ClosedJson
<1>7. \A j \in J : j.kind = "string" => j.value \in Seq(Symbol)
  BY JsonKinds DEF ClosedJson
<1>1. CASE kind = "bool"
  <2>1. ReadAs("bool", json) \subseteq BOOLEAN
    BY <1>0, ReadAsCases
  <2>2. QED
    BY <1>1, <2>1, ValuesOfFacts
<1>2. CASE kind = "string"
  <2>1. ReadAs("string", json) \subseteq Seq(Symbol)
    BY <1>0, ReadAsCases
  <2>2. QED
    BY <1>2, <2>1, ValuesOfFacts
<1>3. CASE kind = "u64"
  BY <1>0, <1>3, CountType, ReadAsCases, ValuesOfFacts
<1>4. CASE kind = "u16"
  BY <1>0, <1>4, CountType, ReadAsCases, ValuesOfFacts
<1>5. CASE kind = "strings"
  <2>1. SUFFICES ASSUME NEW value \in ReadAs("strings", json) PROVE value \in Seq(Seq(Symbol))
    BY <1>5, ValuesOfFacts
  <2>2. /\ json.kind = "array" /\ \A i \in DOMAIN json.value : json.value[i].kind = "string"
        /\ value = [i \in DOMAIN json.value |-> json.value[i].value]
    BY <2>1, ReadAsCases
  <2>3. json.value \in Seq(J) /\ DOMAIN json.value = 1 .. Len(json.value) /\ Len(json.value) \in Nat
    BY <1>0, <2>2
  <2>4. \A i \in 1 .. Len(json.value) : json.value[i].value \in Seq(Symbol)
    BY <1>7, <2>2, <2>3
  <2> DEFINE N == Len(json.value)
  <2>5. value \in [1 .. N -> Seq(Symbol)]
    BY <2>2, <2>3, <2>4
  <2>6. QED
    BY <2>3, <2>5
<1>6. CASE kind = "map"
  <2>1. SUFFICES ASSUME NEW value \in ReadAs("map", json) PROVE value \in Seq(Seq(Symbol) \X Seq(Symbol))
    BY <1>6, ValuesOfFacts
  <2>2. /\ json.kind = "object" /\ \A i \in DOMAIN json.value : json.value[i][2].kind = "string"
        /\ value = [i \in DOMAIN json.value |-> <<json.value[i][1], json.value[i][2].value>>]
    BY <2>1, ReadAsCases
  <2> DEFINE N == Len(json.value)
  <2>3. json.value \in Seq(Seq(Symbol) \X J) /\ DOMAIN json.value = 1 .. N /\ N \in Nat
    BY <1>0, <2>2
  <2>4. \A i \in 1 .. N : json.value[i] \in Seq(Symbol) \X J
    BY <2>3
  <2>5. \A i \in 1 .. N : json.value[i][1] \in Seq(Symbol) /\ json.value[i][2].value \in Seq(Symbol)
    BY <1>7, <2>2, <2>3, <2>4
  <2>6. value \in [1 .. N -> Seq(Symbol) \X Seq(Symbol)]
    <3>1. \A i \in 1 .. N : value[i] = <<json.value[i][1], json.value[i][2].value>>
      BY <2>2, <2>3
    <3>2. ASSUME NEW i \in 1 .. N PROVE value[i] \in Seq(Symbol) \X Seq(Symbol)
      <4> DEFINE a == json.value[i][1]
                 b == json.value[i][2].value
      <4>1. a \in Seq(Symbol) /\ b \in Seq(Symbol) /\ value[i] = <<a, b>>
        BY <2>5, <3>1
      <4> HIDE DEF a, b
      <4>2. QED
        BY <4>1
    <3>3. value = [i \in 1 .. N |-> value[i]]
      BY <2>2, <2>3
    <3> HIDE DEF N
    <3>4. QED
      BY <3>2, <3>3
  <2>7. N \in Nat
    BY <2>3
  <2> HIDE DEF N
  <2>8. QED
    BY <2>6, <2>7
<1>8. QED
  BY <1>1, <1>2, <1>3, <1>4, <1>5, <1>6 DEF Kinds

LEMMA SchemaLengths ==
    ASSUME NEW path \in DOMAIN Schema
    PROVE  Len(path) \in Nat
<1>1. PICK section \in DOMAIN Layout : \E i \in DOMAIN Layout[section] :
          path = Append(section, Layout[section][i][1])
  BY SchemaType
<1>2. PICK key : path = Append(section, key)
  BY <1>1
<1>3. section \in Seq(SectionNames \cup {key}) /\ key \in SectionNames \cup {key}
  BY SectionPaths
<1>4. QED
  BY <1>2, <1>3, AppendProperties

\* What is read from a text is a configuration, and one that validate accepts.
LEMMA FromJsonType ==
    ASSUME NEW text \in Seq(Symbol), NEW c \in from_json_str(text)
    PROVE  IsConfiguration(c) /\ validate(c)
<1>1. PICK root \in parse(text) : c \in Fields(root) /\ validate(c)
  BY DEF from_json_str, from_json
<1>2. PICK J : ClosedJson(J) /\ parse(text) \subseteq J
  BY ParseType
<1> DEFINE read == [path \in DOMAIN Schema |-> Field(root, path)]
<1>3. ASSUME NEW path \in DOMAIN Schema
      PROVE  Field(root, path) \subseteq ValuesOf[Schema[path].kind]
  <2>1. At(root, path) \subseteq J
    BY <1>1, <1>2, AtType, SchemaLengths
  <2>2. Default[path] \in ValuesOf[Schema[path].kind] /\ Schema[path].kind \in Kinds
    BY SchemaType
  <2>3. \A json \in At(root, path) : ReadAs(Schema[path].kind, json) \subseteq ValuesOf[Schema[path].kind]
    BY <1>2, <2>1, <2>2, ReadAsType
  <2>4. QED
    BY <2>2, <2>3 DEF Field
<1>4. /\ \A path \in DOMAIN Schema : read[path] # {}
      /\ c = [path \in DOMAIN Schema |-> CHOOSE value \in read[path] : TRUE]
  BY <1>1 DEF Fields
<1>5. ASSUME NEW path \in DOMAIN Schema PROVE c[path] \in ValuesOf[Schema[path].kind]
  <2>1. read[path] = Field(root, path) /\ read[path] # {} /\ c[path] = CHOOSE value \in read[path] : TRUE
    BY <1>4
  <2> HIDE DEF read
  <2>2. c[path] \in read[path]
    BY <2>1
  <2>3. QED
    BY <1>3, <2>1, <2>2
<1>6. c = [path \in DOMAIN Schema |-> c[path]]
  BY <1>4
<1>7. QED
  BY <1>1, <1>5, <1>6 DEF IsConfiguration

-----------------------------------------------------------------------------
(* Texts within a text. *)

\* x is found at position p.
Occurs(text, p, x) ==
    /\ p \in Nat \ {0} /\ p + Len(x) <= Len(text) + 1
    /\ \A i \in 1 .. Len(x) : text[p + i - 1] = x[i]

Joined(z, x, y) == z = x \o y

LEMMA JoinedType ==
    ASSUME NEW S, NEW x \in Seq(S), NEW y \in Seq(S), NEW z, Joined(z, x, y)
    PROVE  /\ z \in Seq(S) /\ Len(z) = Len(x) + Len(y)
           /\ Len(x) \in Nat /\ Len(y) \in Nat /\ Len(z) \in Nat
<1>1. z = x \o y
  BY DEF Joined
<1>2. x \o y \in Seq(S) /\ Len(x \o y) = Len(x) + Len(y)
  BY ConcatProperties
<1>3. QED
  BY <1>1, <1>2

Lengths(z, x, y) ==
    /\ Len(x) \in Nat /\ Len(y) \in Nat /\ Len(z) \in Nat
    /\ Len(z) = Len(x) + Len(y)

LEMMA JoinedLengths ==
    ASSUME NEW S, NEW x \in Seq(S), NEW y \in Seq(S), NEW z, Joined(z, x, y)
    PROVE  z \in Seq(S) /\ Lengths(z, x, y)
BY JoinedType DEF Lengths

LEMMA TupleType ==
    ASSUME NEW T, NEW n \in Nat, NEW f \in [1 .. n -> T]
    PROVE  f \in Seq(T) /\ Len(f) = n
OBVIOUS

LEMMA OccursSplit ==
    ASSUME NEW text \in Seq(Symbol), NEW p, NEW x \in Seq(Symbol), NEW y \in Seq(Symbol),
           NEW z, Joined(z, x, y), Occurs(text, p, z)
    PROVE  /\ Occurs(text, p, x) /\ Occurs(text, p + Len(x), y)
           /\ p + Len(z) = (p + Len(x)) + Len(y)
<1>1. /\ Len(x) \in Nat /\ Len(y) \in Nat /\ Len(text) \in Nat /\ Len(z) = Len(x) + Len(y)
      /\ \A i \in 1 .. Len(x) : z[i] = x[i]
      /\ \A i \in 1 .. Len(y) : z[i + Len(x)] = y[i]
  BY DEF Joined
<1>2. p \in Nat \ {0} /\ p + Len(z) <= Len(text) + 1 /\ \A i \in 1 .. Len(z) : text[p + i - 1] = z[i]
  BY DEF Occurs
<1>3. Occurs(text, p, x)
  BY <1>1, <1>2 DEF Occurs
<1>4. ASSUME NEW i \in 1 .. Len(y) PROVE text[(p + Len(x)) + i - 1] = y[i]
  <2>1. i + Len(x) \in 1 .. Len(z) /\ p + (i + Len(x)) - 1 = (p + Len(x)) + i - 1
    BY <1>1, <1>2
  <2>2. text[p + (i + Len(x)) - 1] = z[i + Len(x)] /\ z[i + Len(x)] = y[i]
    BY <1>1, <1>2, <2>1
  <2>3. QED
    BY <2>1, <2>2
<1>5. p + Len(x) \in Nat \ {0} /\ (p + Len(x)) + Len(y) <= Len(text) + 1
  BY <1>1, <1>2
<1>6. Occurs(text, p + Len(x), y)
  BY <1>4, <1>5 DEF Occurs
<1>7. p + Len(z) = (p + Len(x)) + Len(y)
  BY <1>1, <1>2
<1>8. QED
  BY <1>3, <1>6, <1>7

\* Where a text is found it can be read up to the position behind it.
LEMMA OccursRead ==
    ASSUME NEW text \in Seq(Symbol), NEW p, NEW x \in Seq(Symbol), Occurs(text, p, x)
    PROVE  /\ p \in Positions(text) /\ p + Len(x) \in Positions(text)
           /\ x # <<>> => Peek(text, p) = x[1] /\ text[p] = x[1]
<1>1. /\ Len(x) \in Nat /\ Len(text) \in Nat /\ p \in Nat \ {0} /\ p + Len(x) <= Len(text) + 1
      /\ \A i \in 1 .. Len(x) : text[p + i - 1] = x[i]
  <2>1. Len(x) \in Nat /\ Len(text) \in Nat
    OBVIOUS
  <2>2. p \in Nat \ {0} /\ p + Len(x) <= Len(text) + 1 /\ \A i \in 1 .. Len(x) : text[p + i - 1] = x[i]
    BY Zenon DEF Occurs
  <2>3. QED
    BY <2>1, <2>2, Zenon
<1>2. p \in Positions(text) /\ p + Len(x) \in Positions(text)
  BY <1>1 DEF Positions
<1>3. ASSUME x # <<>> PROVE Peek(text, p) = x[1] /\ text[p] = x[1]
  <2>1. 1 \in 1 .. Len(x) /\ p + 1 - 1 = p /\ p \in 1 .. Len(text)
    BY <1>1, <1>3
  <2>2. text[p] = x[1]
    BY <1>1, <2>1
  <2>3. QED
    BY <1>2, <2>1, <2>2, PositionFacts
<1>4. QED
  BY <1>2, <1>3

LEMMA OccursOne ==
    ASSUME NEW text \in Seq(Symbol), NEW p, NEW symbol \in Symbol, Occurs(text, p, <<symbol>>)
    PROVE  p \in Positions(text) /\ p + 1 \in Positions(text) /\ Peek(text, p) = symbol /\ text[p] = symbol
<1>1. <<symbol>> \in Seq(Symbol) /\ Len(<<symbol>>) = 1 /\ <<symbol>> # <<>> /\ <<symbol>>[1] = symbol
  OBVIOUS
<1>2. QED
  BY <1>1, OccursRead

LEMMA OccursCons ==
    ASSUME NEW text \in Seq(Symbol), NEW p, NEW symbol \in Symbol, NEW rest \in Seq(Symbol),
           NEW z, Joined(z, <<symbol>>, rest), Occurs(text, p, z)
    PROVE  /\ p \in Positions(text) /\ p + 1 \in Positions(text) /\ Peek(text, p) = symbol /\ text[p] = symbol
           /\ Occurs(text, p + 1, rest) /\ p + Len(z) = (p + 1) + Len(rest)
<1> DEFINE x == <<symbol>>
<1>1. Len(x) = 1
  OBVIOUS
<1>0. x \in Seq(Symbol) /\ rest \in Seq(Symbol) /\ Joined(z, x, rest) /\ Occurs(text, p, z)
  OBVIOUS
<1> HIDE DEF x
<1>2. Occurs(text, p, x) /\ Occurs(text, p + Len(x), rest) /\ p + Len(z) = (p + Len(x)) + Len(rest)
  <2>1. Occurs(text, p, x)
    BY <1>0, OccursSplit
  <2>2. Occurs(text, p + Len(x), rest)
    BY <1>0, OccursSplit
  <2>3. p + Len(z) = (p + Len(x)) + Len(rest)
    BY <1>0, OccursSplit
  <2>4. QED
    BY <2>1, <2>2, <2>3
<1>3. QED
  BY <1>0, <1>1, <1>2, OccursOne DEF x

\* The recursive definition of FlattenSeq has a solution: the concatenation of
\* the first i parts.
LEMMA FlattenEquation ==
    ASSUME NEW S, NEW parts \in Seq(Seq(S)), parts # <<>>
    PROVE  \E flat : /\ FlattenSeq(parts) = flat[Len(parts)]
                     /\ flat[1] = parts[1]
                     /\ \A i \in 1 .. (Len(parts) - 1) : flat[i + 1] = flat[i] \o parts[i + 1]
                     /\ \A i \in 1 .. Len(parts) : flat[i] \in Seq(S)
<1> DEFINE N == Len(parts)
           Body(i, previous) == IF i = 1 THEN parts[1] ELSE previous \o parts[i]
           Solves(f, k) == \A i \in 1 .. N : i <= k => f[i] = Body(i, f[i - 1])
           T == {k \in Nat : k <= N => \E f : Solves(f, k)}
<1>0. \A previous, other : Body(1, previous) = Body(1, other)
  OBVIOUS
<1>1. N \in Nat \ {0}
  OBVIOUS
<1> HIDE DEF Body
<1>2. 0 \in T
  BY <1>1
<1>3. ASSUME NEW k \in Nat, k \in T PROVE k + 1 \in T
  <2>1. SUFFICES ASSUME k + 1 <= N PROVE \E f : Solves(f, k + 1)
    OBVIOUS
  <2>2. PICK f : Solves(f, k)
    BY <1>1, <1>3, <2>1
  <2> DEFINE g == [i \in 1 .. N |-> IF i = k + 1 THEN Body(i, f[k]) ELSE f[i]]
  <2>3. ASSUME NEW i \in 1 .. N, i <= k + 1 PROVE g[i] = Body(i, g[i - 1])
    <3>1. g[i] = Body(i, f[i - 1])
      <4>1. CASE i = k + 1
        BY <4>1
      <4>2. CASE i # k + 1
        BY <1>1, <2>2, <2>3, <4>2
      <4>3. QED
        BY <4>1, <4>2
    <3>2. i # 1 => g[i - 1] = f[i - 1]
      BY <1>1, <2>3
    <3> HIDE DEF g
    <3>3. CASE i = 1
      BY <1>0, <3>1, <3>3
    <3>4. CASE i # 1
      BY <3>1, <3>2, <3>4
    <3>5. QED
      BY <3>3, <3>4
  <2>4. Solves(g, k + 1)
    BY <2>3
  <2>5. QED
    BY <2>4
<1>4. N \in T
  <2> HIDE DEF T
  <2>1. QED
    BY <1>1, <1>2, <1>3, Induction
<1>5. PICK f : Solves(f, N)
  BY <1>1, <1>4
<1> DEFINE Sol(flatten) == flatten = [i \in 1 .. N |-> Body(i, flatten[i - 1])]
           h == [i \in 1 .. N |-> f[i]]
<1>6. ASSUME NEW i \in 1 .. N PROVE h[i] = Body(i, h[i - 1])
  <2>1. h[i] = f[i] /\ f[i] = Body(i, f[i - 1])
    BY <1>1, <1>5
  <2>2. i # 1 => h[i - 1] = f[i - 1]
    BY <1>1
  <2> HIDE DEF h
  <2>3. CASE i = 1
    BY <1>0, <2>1, <2>3
  <2>4. CASE i # 1
    BY <2>1, <2>2, <2>4
  <2>5. QED
    BY <2>3, <2>4
<1>7. Sol(h)
  BY <1>6
<1> DEFINE flat == CHOOSE flatten : Sol(flatten)
<1>8. Sol(flat)
  <2> HIDE DEF Sol
  <2>1. QED
    BY <1>7
<1>9. FlattenSeq(parts) = flat[N]
  <2>1. FlattenSeq(parts) =
          (CHOOSE flatten : flatten = [i \in 1 .. N |-> IF i = 1 THEN parts[i] ELSE flatten[i - 1] \o parts[i]])[N]
    BY <1>1 DEF FlattenSeq
  <2>2. ASSUME NEW flatten
        PROVE  [i \in 1 .. N |-> IF i = 1 THEN parts[i] ELSE flatten[i - 1] \o parts[i]]
                 = [i \in 1 .. N |-> Body(i, flatten[i - 1])]
    BY DEF Body
  <2>3. QED
    BY <2>1, <2>2
<1> HIDE DEF flat
<1>10. \A i \in 1 .. N : flat[i] = Body(i, flat[i - 1])
  BY <1>8
<1>11. flat[1] = parts[1]
  <2>1. 1 \in 1 .. N
    BY <1>1
  <2>2. QED
    BY <1>10, <2>1 DEF Body
<1>12. ASSUME NEW i \in 1 .. (N - 1) PROVE flat[i + 1] = flat[i] \o parts[i + 1]
  <2>1. i + 1 \in 1 .. N /\ i + 1 # 1 /\ (i + 1) - 1 = i
    BY <1>1
  <2>2. flat[i + 1] = Body(i + 1, flat[i])
    BY <1>10, <2>1
  <2>3. QED
    BY <2>1, <2>2 DEF Body
<1> DEFINE U == {k \in Nat : k + 1 <= N => flat[k + 1] \in Seq(S)}
<1>13. 0 \in U
  <2>1. parts[1] \in Seq(S)
    BY <1>1
  <2>2. QED
    BY <1>11, <2>1
<1>14. ASSUME NEW k \in Nat, k \in U PROVE k + 1 \in U
  <2>1. SUFFICES ASSUME k + 2 <= N PROVE flat[k + 2] \in Seq(S)
    BY <1>1
  <2>2. flat[k + 1] \in Seq(S) /\ parts[k + 2] \in Seq(S)
    BY <1>1, <1>14, <2>1
  <2>3. k + 1 \in 1 .. (N - 1) /\ (k + 1) + 1 = k + 2
    BY <1>1, <2>1
  <2>4. flat[k + 2] = flat[k + 1] \o parts[k + 2]
    BY <1>12, <2>3
  <2>5. QED
    BY <2>2, <2>4
<1>15. \A k \in Nat : k \in U
  <2> HIDE DEF U
  <2>1. QED
    BY <1>13, <1>14, Induction
<1>16. ASSUME NEW i \in 1 .. N PROVE flat[i] \in Seq(S)
  <2>1. i - 1 \in Nat /\ (i - 1) + 1 = i
    BY <1>1
  <2>2. i - 1 \in U
    BY <1>15, <2>1
  <2>3. QED
    BY <1>1, <2>1, <2>2
<1>17. QED
  BY <1>9, <1>11, <1>12, <1>16

LEMMA FlattenType ==
    ASSUME NEW S, NEW parts \in Seq(Seq(S))
    PROVE  FlattenSeq(parts) \in Seq(S) /\ (parts = <<>> => FlattenSeq(parts) = <<>>)
<1>1. CASE parts = <<>>
  BY <1>1 DEF FlattenSeq
<1>2. CASE parts # <<>>
  <2>1. Len(parts) \in 1 .. Len(parts)
    BY <1>2
  <2>2. QED
    BY <1>2, <2>1, FlattenEquation
<1>3. QED
  BY <1>1, <1>2

\* Where a concatenation is found its parts are, one behind the other.
PartsAt(text, p, parts, at) ==
    /\ at[1] = p /\ at[Len(parts) + 1] = p + Len(FlattenSeq(parts))
    /\ \A i \in 1 .. Len(parts) : Occurs(text, at[i], parts[i]) /\ at[i + 1] = at[i] + Len(parts[i])

LEMMA OccursParts ==
    ASSUME NEW text \in Seq(Symbol), NEW p, NEW parts \in Seq(Seq(Symbol)),
           Occurs(text, p, FlattenSeq(parts))
    PROVE  \E at : PartsAt(text, p, parts, at)
<1> DEFINE N == Len(parts)
<1>1. N \in Nat /\ p \in Nat
  BY DEF Occurs
<1>2. CASE parts = <<>>
  <2> DEFINE at == [i \in {1} |-> p]
  <2>1. N = 0 /\ FlattenSeq(parts) = <<>> /\ at[1] = p
    BY <1>2, FlattenType
  <2>2. Len(FlattenSeq(parts)) = 0
    BY <2>1
  <2>3. at[N + 1] = p + Len(FlattenSeq(parts))
    BY <1>1, <2>1, <2>2
  <2> HIDE DEF at
  <2>4. PartsAt(text, p, parts, at)
    BY <2>1, <2>3 DEF PartsAt
  <2>5. QED
    BY <2>4
<1>3. CASE parts # <<>>
  <2>1. N \in Nat \ {0} /\ N \in 1 .. N /\ \A i \in 1 .. N : parts[i] \in Seq(Symbol) /\ Len(parts[i]) \in Nat
    BY <1>3
  <2>2. PICK flat : /\ FlattenSeq(parts) = flat[N]
                    /\ flat[1] = parts[1]
                    /\ \A i \in 1 .. (N - 1) : flat[i + 1] = flat[i] \o parts[i + 1]
                    /\ \A i \in 1 .. N : flat[i] \in Seq(Symbol)
    BY <1>3, FlattenEquation
  <2> DEFINE T == {k \in Nat : k < N => Occurs(text, p, flat[N - k])}
             at == [i \in 1 .. (N + 1) |-> IF i = 1 THEN p ELSE p + Len(flat[i - 1])]
  <2> HIDE DEF N
  <2>3. ASSUME NEW i \in 1 .. (N - 1), Occurs(text, p, flat[i + 1])
        PROVE  /\ Occurs(text, p, flat[i]) /\ Occurs(text, p + Len(flat[i]), parts[i + 1])
               /\ p + Len(flat[i + 1]) = (p + Len(flat[i])) + Len(parts[i + 1])
    <3>1. i \in 1 .. N /\ i + 1 \in 1 .. N
      BY <2>1
    <3>2. flat[i] \in Seq(Symbol) /\ parts[i + 1] \in Seq(Symbol) /\ flat[i + 1] = flat[i] \o parts[i + 1]
      BY <2>1, <2>2, <3>1
    <3> DEFINE x == flat[i]
               y == parts[i + 1]
               z == flat[i + 1]
    <3> HIDE DEF x, y, z
    <3>3. x \in Seq(Symbol) /\ y \in Seq(Symbol) /\ Joined(z, x, y) /\ Occurs(text, p, z)
      BY <2>3, <3>2 DEF x, y, z, Joined
    <3>4. Occurs(text, p, x) /\ Occurs(text, p + Len(x), y) /\ p + Len(z) = (p + Len(x)) + Len(y)
      BY <3>3, OccursSplit
    <3>5. QED
      BY <3>4 DEF x, y, z
  <2>4. 0 \in T
    BY <2>1, <2>2
  <2>5. ASSUME NEW k \in Nat, k \in T PROVE k + 1 \in T
    <3>1. SUFFICES ASSUME k + 1 < N PROVE Occurs(text, p, flat[N - (k + 1)])
      OBVIOUS
    <3> DEFINE i == N - (k + 1)
    <3>2. i \in 1 .. (N - 1) /\ i + 1 = N - k
      BY <2>1, <3>1
    <3>3. Occurs(text, p, flat[i + 1])
      BY <2>1, <2>5, <3>1, <3>2
    <3> HIDE DEF i
    <3>4. Occurs(text, p, flat[i])
      BY <2>3, <3>2, <3>3
    <3>5. QED
      BY <3>4 DEF i
  <2>6. \A k \in Nat : k \in T
    <3> HIDE DEF T
    <3>1. QED
      BY <2>4, <2>5, Induction
  <2>7. \A i \in 1 .. N : Occurs(text, p, flat[i])
    <3>1. ASSUME NEW i \in 1 .. N PROVE Occurs(text, p, flat[i])
      <4>1. N - i \in Nat /\ N - i < N /\ N - (N - i) = i
        BY <2>1
      <4>2. QED
        BY <2>6, <4>1
    <3>2. QED
      BY <3>1
  <2>8. at[1] = p /\ at[N + 1] = p + Len(FlattenSeq(parts))
    <3>1. 1 \in 1 .. (N + 1) /\ N + 1 \in 1 .. (N + 1) /\ N + 1 # 1 /\ (N + 1) - 1 = N
      BY <2>1
    <3>2. QED
      BY <2>2, <3>1
  <2>9. ASSUME NEW i \in 1 .. N
        PROVE  Occurs(text, at[i], parts[i]) /\ at[i + 1] = at[i] + Len(parts[i])
    <3>1. i \in 1 .. (N + 1) /\ i + 1 \in 1 .. (N + 1) /\ i + 1 # 1 /\ (i + 1) - 1 = i
      BY <2>1
    <3>2. at[i + 1] = p + Len(flat[i])
      BY <3>1
    <3>3. CASE i = 1
      BY <2>2, <2>7, <2>8, <3>2, <3>3
    <3>4. CASE i # 1
      <4> DEFINE j == i - 1
      <4>1. j \in 1 .. (N - 1) /\ j + 1 = i
        BY <2>1, <3>4
      <4>2. at[i] = p + Len(flat[j])
        BY <3>1, <3>4
      <4> HIDE DEF at, j
      <4>3. Occurs(text, p, flat[j + 1])
        BY <2>7, <4>1
      <4>4. QED
        BY <2>3, <3>2, <4>1, <4>2, <4>3
    <3>5. QED
      BY <3>3, <3>4
  <2> HIDE DEF at
  <2>10. PartsAt(text, p, parts, at)
    BY <2>8, <2>9 DEF N, PartsAt
  <2>11. QED
    BY <2>10
<1>4. QED
  BY <1>2, <1>3

-----------------------------------------------------------------------------
(* Strings are read as they were written. *)

LEMMA EscapedFacts ==
    ASSUME NEW c \in Symbol
    PROVE  \/ \E letter \in DOMAIN Escapes : EscapedChar(c) = <<"\\", letter>> /\ Escapes[letter] = c
           \/ \E hex \in DOMAIN Hex4 : /\ EscapedChar(c) = <<"\\", "u", hex>>
                                       /\ Hex4[hex] \in DOMAIN Chars /\ Chars[Hex4[hex]] = c
           \/ EscapedChar(c) = <<c>> /\ c \notin Controls \cup {Quote, "\\", "END"}
<1> DEFINE Direct == {Quote, "\\", "\n", "\r", "\t"}
           letter == [d \in Direct |-> CHOOSE e \in DOMAIN Escapes : Escapes[e] = d]
           hex == CHOOSE h \in DOMAIN Hex4 : Hex4[h] \in DOMAIN Chars /\ Chars[Hex4[h]] = c
<1>1. EscapedChar(c) = IF c \in DOMAIN letter THEN <<"\\", letter[c]>>
                       ELSE IF c \in Controls THEN <<"\\", "u", hex>> ELSE <<c>>
  BY DEF EscapedChar
<1>2. CASE c \in Direct
  <2>1. \E e \in DOMAIN Escapes : Escapes[e] = c
    BY <1>2, EscapeFacts
  <2> DEFINE e == CHOOSE e \in DOMAIN Escapes : Escapes[e] = c
  <2>2. e \in DOMAIN Escapes /\ Escapes[e] = c
    BY <2>1
  <2>3. c \in DOMAIN letter /\ letter[c] = e
    BY <1>2
  <2> HIDE DEF letter, e
  <2>4. QED
    BY <1>1, <2>2, <2>3
<1>3. CASE c \notin Direct /\ c \in Controls
  <2>1. c \in {"BS", "FF", "SOH"}
    BY <1>3 DEF Controls
  <2>2. \E h \in DOMAIN Hex4 : Hex4[h] \in DOMAIN Chars /\ Chars[Hex4[h]] = c
    BY <2>1, HexFacts
  <2>3. hex \in DOMAIN Hex4 /\ Hex4[hex] \in DOMAIN Chars /\ Chars[Hex4[hex]] = c
    BY <2>2
  <2> HIDE DEF letter, hex
  <2>4. c \notin DOMAIN letter
    BY <1>3 DEF letter
  <2>5. QED
    BY <1>1, <1>3, <2>3, <2>4
<1>4. CASE c \notin Direct /\ c \notin Controls
  <2>1. c # "END"
    BY SymbolFacts
  <2> HIDE DEF hex
  <2>2. QED
    BY <1>1, <1>4, <2>1
<1>5. QED
  BY <1>2, <1>3, <1>4

LEMMA EscapedType ==
    ASSUME NEW c \in Symbol
    PROVE  EscapedChar(c) \in Seq(Symbol) /\ EscapedChar(c) # <<>>
<1>1. DOMAIN Escapes \subseteq Symbol /\ DOMAIN Hex4 \subseteq Symbol /\ "\\" \in Symbol /\ "u" \in Symbol
  BY EscapeFacts, HexFacts, SymbolFacts DEF Symbol, Marks
<1>2. \A a \in Symbol : <<a>> \in Seq(Symbol) /\ <<a>> # <<>>
  OBVIOUS
<1>3. \A a \in Symbol, b \in Symbol : <<a, b>> \in Seq(Symbol) /\ <<a, b>> # <<>>
  OBVIOUS
<1>4. \A a \in Symbol, b \in Symbol, d \in Symbol : <<a, b, d>> \in Seq(Symbol) /\ <<a, b, d>> # <<>>
  OBVIOUS
<1>5. CASE \E letter \in DOMAIN Escapes : EscapedChar(c) = <<"\\", letter>>
  BY <1>1, <1>3, <1>5
<1>6. CASE \E hex \in DOMAIN Hex4 : EscapedChar(c) = <<"\\", "u", hex>>
  BY <1>1, <1>4, <1>6
<1>7. CASE EscapedChar(c) = <<c>>
  BY <1>2, <1>7
<1>8. QED
  BY <1>5, <1>6, <1>7, EscapedFacts

LEMMA EscapedRead ==
    ASSUME NEW text \in Seq(Symbol), NEW p, NEW c \in Symbol, Occurs(text, p, EscapedChar(c))
    PROVE  /\ p \in Positions(text) /\ Peek(text, p) # Quote
           /\ NextChar(text, p) = Ok(c, p + Len(EscapedChar(c)))
<1>0. p \in Nat /\ "\\" \in Symbol /\ "u" \in Symbol /\ DOMAIN Escapes \subseteq Symbol /\ DOMAIN Hex4 \subseteq Symbol
  BY EscapeFacts, HexFacts, SymbolFacts DEF Symbol, Marks, Occurs
<1>9. Quote # "\\"
  BY MarkFacts
<1>1. CASE \E letter \in DOMAIN Escapes : EscapedChar(c) = <<"\\", letter>> /\ Escapes[letter] = c
  <2>1. PICK letter \in DOMAIN Escapes : EscapedChar(c) = <<"\\", letter>> /\ Escapes[letter] = c
    BY <1>1
  <2>2. /\ letter \in Symbol /\ <<letter>> \in Seq(Symbol)
        /\ Joined(<<"\\", letter>>, <<"\\">>, <<letter>>) /\ Len(<<"\\", letter>>) = 2
    BY <1>0 DEF Joined
  <2>3. Occurs(text, p, <<"\\", letter>>)
    BY <2>1
  <2>4. p \in Positions(text) /\ Peek(text, p) = "\\" /\ Occurs(text, p + 1, <<letter>>)
    BY <1>0, <2>2, <2>3, OccursCons
  <2>5. Peek(text, p + 1) = letter /\ text[p + 1] = letter
    BY <2>2, <2>4, OccursOne
  <2>6. letter # "u"
    <3>1. Quote # "u"
      BY Zenon DEF Quote
    <3>2. QED
      BY <3>1, EscapeFacts
  <2>7. parse_escape(text, p + 1) = Ok(c, (p + 1) + 1)
    BY <2>1, <2>5, <2>6 DEF parse_escape
  <2>8. NextChar(text, p) = Ok(c, p + 2)
    BY <1>0, <2>4, <2>7 DEF NextChar
  <2>9. QED
    BY <1>9, <2>1, <2>2, <2>4, <2>8
<1>2. CASE \E hex \in DOMAIN Hex4 : /\ EscapedChar(c) = <<"\\", "u", hex>>
                                    /\ Hex4[hex] \in DOMAIN Chars /\ Chars[Hex4[hex]] = c
  <2>1. PICK hex \in DOMAIN Hex4 : /\ EscapedChar(c) = <<"\\", "u", hex>>
                                   /\ Hex4[hex] \in DOMAIN Chars /\ Chars[Hex4[hex]] = c
    BY <1>2
  <2>2. /\ hex \in Symbol /\ <<hex>> \in Seq(Symbol) /\ <<"u", hex>> \in Seq(Symbol)
        /\ Joined(<<"\\", "u", hex>>, <<"\\">>, <<"u", hex>>) /\ Joined(<<"u", hex>>, <<"u">>, <<hex>>)
        /\ Len(<<"\\", "u", hex>>) = 3
    BY <1>0 DEF Joined
  <2>3. Occurs(text, p, <<"\\", "u", hex>>)
    BY <2>1
  <2>4. p \in Positions(text) /\ Peek(text, p) = "\\" /\ Occurs(text, p + 1, <<"u", hex>>)
    BY <1>0, <2>2, <2>3, OccursCons
  <2>5. Peek(text, p + 1) = "u"
    <3> DEFINE r == p + 1
               u == "u"
               z == <<"u", hex>>
    <3>1. u \in Symbol /\ <<hex>> \in Seq(Symbol) /\ Joined(z, <<u>>, <<hex>>) /\ Occurs(text, r, z)
      BY <1>0, <2>2, <2>4
    <3> HIDE DEF r, u, z
    <3>2. Peek(text, r) = u
      BY <3>1, OccursCons
    <3>3. QED
      BY <3>2 DEF r, u
  <2>6. Occurs(text, (p + 1) + 1, <<hex>>)
    BY <1>0, <2>2, <2>4, OccursCons
  <2> DEFINE q == (p + 1) + 1
             first == Hex4[text[q]]
  <2>7. Peek(text, q) = hex /\ text[q] = hex
    BY <2>2, <2>6, OccursOne
  <2>8. first = Hex4[hex]
    BY <2>7
  <2>9. first \in {65, 1, 8, 12}
    BY <2>1, <2>8, HexFacts
  <2>11. IsHex4(text, q)
    BY <2>1, <2>7 DEF IsHex4
  <2>12. parse_unicode_escape(text, q) = Ok(Chars[first], q + 1)
    <3> HIDE DEF q
    <3>1. QED
      BY <2>9, <2>11, UnicodeShort, Zenon
  <2>13. NextChar(text, p) = Ok(c, p + 3)
    <3>1. NextChar(text, p) = parse_unicode_escape(text, q)
      BY <2>4, <2>5 DEF NextChar, parse_escape
    <3>2. q + 1 = p + 3 /\ Chars[first] = c
      BY <1>0, <2>1, <2>8
    <3> HIDE DEF first, q
    <3>3. QED
      BY <2>12, <3>1, <3>2
  <2>14. QED
    BY <1>9, <2>1, <2>2, <2>4, <2>13
<1>3. CASE EscapedChar(c) = <<c>> /\ c \notin Controls \cup {Quote, "\\", "END"}
  <2>1. Occurs(text, p, <<c>>) /\ Len(EscapedChar(c)) = 1
    BY <1>3
  <2>2. p \in Positions(text) /\ Peek(text, p) = c /\ text[p] = c
    BY <2>1, OccursOne
  <2>3. NextChar(text, p) = Ok(c, p + 1)
    BY <1>3, <2>2 DEF NextChar
  <2>4. QED
    BY <1>3, <2>1, <2>2, <2>3
<1>4. QED
  BY <1>1, <1>2, <1>3, EscapedFacts

\* What is left of a sequence from a position on.
Suffix(s, i) == [j \in 1 .. (Len(s) + 1 - i) |-> s[i + j - 1]]

LEMMA SuffixFacts ==
    ASSUME NEW S, NEW s \in Seq(S)
    PROVE  /\ Suffix(s, 1) = s /\ Suffix(s, Len(s) + 1) = <<>>
           /\ \A i \in 1 .. Len(s) : Suffix(s, i) = <<s[i]>> \o Suffix(s, i + 1)
           /\ s # <<>> => Suffix(s, Len(s)) = <<s[Len(s)]>>
<1> DEFINE N == Len(s)
<1>1. N \in Nat /\ s \in [1 .. N -> S] /\ s = [j \in 1 .. N |-> s[j]]
  OBVIOUS
<1> HIDE DEF N
<1>2. ASSUME NEW i \in 1 .. (N + 1)
      PROVE  /\ Suffix(s, i) \in Seq(S) /\ Len(Suffix(s, i)) = N + 1 - i
             /\ \A j \in 1 .. (N + 1 - i) : Suffix(s, i)[j] = s[i + j - 1]
  <2>1. Suffix(s, i) = [j \in 1 .. (N + 1 - i) |-> s[i + j - 1]]
    BY DEF Suffix, N
  <2>2. N + 1 - i \in Nat /\ \A j \in 1 .. (N + 1 - i) : s[i + j - 1] \in S
    <3>1. \A j \in 1 .. (N + 1 - i) : i + j - 1 \in 1 .. N
      BY <1>1
    <3>2. QED
      BY <1>1, <3>1
  <2>3. QED
    BY <2>1, <2>2
<1>3. Suffix(s, 1) = s
  <2>1. Len(Suffix(s, 1)) = N /\ Suffix(s, 1) \in Seq(S) /\ \A j \in 1 .. N : Suffix(s, 1)[j] = s[j]
    BY <1>1, <1>2
  <2>2. QED
    BY <2>1, SeqEqual DEF N
<1>4. Suffix(s, N + 1) = <<>>
  <2>1. Len(Suffix(s, N + 1)) = 0 /\ Suffix(s, N + 1) \in Seq(S)
    BY <1>1, <1>2
  <2>2. QED
    BY <2>1
<1>5. ASSUME NEW i \in 1 .. N PROVE Suffix(s, i) = <<s[i]>> \o Suffix(s, i + 1)
  <2> DEFINE a == Suffix(s, i)
             b == Suffix(s, i + 1)
  <2>1. /\ a \in Seq(S) /\ Len(a) = N + 1 - i /\ \A j \in 1 .. (N + 1 - i) : a[j] = s[i + j - 1]
        /\ b \in Seq(S) /\ Len(b) = N - i /\ \A j \in 1 .. (N - i) : b[j] = s[i + j]
    <3>1. i \in 1 .. (N + 1) /\ i + 1 \in 1 .. (N + 1) /\ N + 1 - (i + 1) = N - i
      BY <1>1
    <3>2. \A j \in 1 .. (N - i) : (i + 1) + j - 1 = i + j
      BY <1>1
    <3>3. /\ a \in Seq(S) /\ Len(a) = N + 1 - i
          /\ \A j \in 1 .. (N + 1 - i) : a[j] = s[i + j - 1]
      BY <1>2, <3>1
    <3>4. /\ b \in Seq(S) /\ Len(b) = N + 1 - (i + 1)
          /\ \A j \in 1 .. (N + 1 - (i + 1)) : b[j] = s[(i + 1) + j - 1]
      BY <1>2, <3>1
    <3> HIDE DEF a, b
    <3>5. QED
      BY <3>1, <3>2, <3>3, <3>4
  <2> HIDE DEF a, b
  <2> DEFINE c == <<s[i]>> \o b
  <2>2. s[i] \in S
    BY <1>1
  <2>3. c \in Seq(S) /\ Len(c) = N + 1 - i /\ c[1] = s[i] /\ \A j \in 2 .. (N + 1 - i) : c[j] = b[j - 1]
    <3> DEFINE one == <<s[i]>>
    <3>1. one \in Seq(S) /\ Len(one) = 1 /\ one[1] = s[i]
      BY <2>2
    <3>2. b \in Seq(S) /\ Len(b) = N - i
      BY <2>1
    <3> HIDE DEF one
    <3>3. /\ one \o b \in Seq(S) /\ Len(one \o b) = Len(one) + Len(b)
          /\ \A j \in 1 .. (Len(one) + Len(b)) :
                (one \o b)[j] = IF j <= Len(one) THEN one[j] ELSE b[j - Len(one)]
      BY <3>1, <3>2, ConcatProperties, Zenon
    <3>4. c = one \o b
      BY DEF one
    <3> HIDE DEF c
    <3>5. Len(one) + Len(b) = N + 1 - i
      BY <1>1, <3>1, <3>2
    <3>6. \A j \in 1 .. (N + 1 - i) : c[j] = IF j <= 1 THEN one[j] ELSE b[j - 1]
      BY <3>1, <3>3, <3>4, <3>5
    <3>7. 1 \in 1 .. (N + 1 - i) /\ \A j \in 2 .. (N + 1 - i) : j \in 1 .. (N + 1 - i) /\ ~ (j <= 1)
      BY <1>1
    <3>8. QED
      BY <3>1, <3>3, <3>4, <3>5, <3>6, <3>7
  <2> HIDE DEF c
  <2>4. ASSUME NEW j \in 1 .. (N + 1 - i) PROVE a[j] = c[j]
    <3>1. CASE j = 1
      BY <1>1, <2>1, <2>3, <3>1
    <3>2. CASE j # 1
      <4>1. j \in 2 .. (N + 1 - i) /\ j - 1 \in 1 .. (N - i) /\ i + (j - 1) = i + j - 1
        BY <1>1, <3>2
      <4>2. QED
        BY <2>1, <2>3, <4>1
    <3>3. QED
      BY <3>1, <3>2
  <2>5. a = c
    BY <2>1, <2>3, <2>4, SeqEqual
  <2>6. QED
    BY <2>5 DEF a, b, c
<1>6. ASSUME s # <<>> PROVE Suffix(s, N) = <<s[N]>>
  <2>1. N \in 1 .. N
    BY <1>6 DEF N
  <2>2. Suffix(s, N) = <<s[N]>> \o <<>>
    BY <1>4, <1>5, <2>1
  <2>3. s[N] \in S
    BY <1>1, <2>1
  <2>4. QED
    BY <2>2, <2>3
<1>7. QED
  BY <1>3, <1>4, <1>5, <1>6 DEF N

\* A text between two marks.
Between(open, x, close) == <<open>> \o x \o <<close>>

\* What is read where it is found.
BetweenAt(text, p, open, x, close) ==
    /\ p \in Positions(text) /\ Peek(text, p) = open /\ text[p] = open
    /\ Occurs(text, p + 1, x) /\ Peek(text, (p + 1) + Len(x)) = close
    /\ (p + 1) + Len(x) \in Positions(text)
    /\ p + Len(Between(open, x, close)) = ((p + 1) + Len(x)) + 1

LEMMA OccursBetween ==
    ASSUME NEW text \in Seq(Symbol), NEW p, NEW open \in Symbol, NEW close \in Symbol, NEW x \in Seq(Symbol),
           Occurs(text, p, Between(open, x, close))
    PROVE  BetweenAt(text, p, open, x, close)
<1> DEFINE z == Between(open, x, close)
           y == <<open>> \o x
           e == <<close>>
<1>1. y \in Seq(Symbol) /\ e \in Seq(Symbol) /\ Len(e) = 1 /\ Joined(y, <<open>>, x) /\ Joined(z, y, e)
  BY DEF Joined, Between
<1>2. Occurs(text, p, z)
  OBVIOUS
<1> HIDE DEF z, y, e
<1>3. Occurs(text, p, y)
  BY <1>1, <1>2, OccursSplit
<1>4. Occurs(text, p + Len(y), e)
  BY <1>1, <1>2, OccursSplit
<1>0. p \in Nat /\ Len(x) \in Nat /\ Len(y) = 1 + Len(x) /\ Len(z) = Len(y) + Len(e)
  <2>1. p \in Nat
    BY <1>2 DEF Occurs
  <2>2. Len(z) = Len(y) + Len(e)
    <3>1. y \in Seq(Symbol) /\ e \in Seq(Symbol) /\ Joined(z, y, e)
      BY <1>1
    <3>2. Lengths(z, y, e)
      BY <3>1, JoinedLengths, Zenon
    <3>3. QED
      BY <3>2, Zenon DEF Lengths
  <2> DEFINE o == <<open>>
  <2>3. o \in Seq(Symbol) /\ Len(o) = 1 /\ Joined(y, o, x)
    BY <1>1
  <2> HIDE DEF o
  <2>4. Len(y) = Len(o) + Len(x) /\ Len(x) \in Nat
    <3>1. Lengths(y, o, x)
      BY <2>3, JoinedLengths, Zenon
    <3>2. QED
      BY <3>1, Zenon DEF Lengths
  <2>5. QED
    BY <2>1, <2>2, <2>3, <2>4
<1>5. p + Len(z) = (p + Len(y)) + Len(e)
  BY <1>0, <1>1
<1>6. p \in Positions(text) /\ Peek(text, p) = open /\ text[p] = open
  BY <1>1, <1>3, OccursCons
<1>7. Occurs(text, p + 1, x)
  BY <1>1, <1>3, OccursCons
<1>8. p + Len(y) = (p + 1) + Len(x)
  BY <1>0
<1> DEFINE q == (p + 1) + Len(x)
<1>9. Occurs(text, q, <<close>>)
  BY <1>4, <1>8 DEF e
<1> HIDE DEF q
<1>10. Peek(text, q) = close /\ q \in Positions(text)
  BY <1>9, OccursOne
<1>11. QED
  BY <1>1, <1>5, <1>6, <1>7, <1>8, <1>10 DEF q, z, BetweenAt

LEMMA BetweenType ==
    ASSUME NEW open \in Symbol, NEW close \in Symbol, NEW x \in Seq(Symbol)
    PROVE  Between(open, x, close) \in Seq(Symbol)
BY DEF Between

LEMMA QuotedType ==
    ASSUME NEW s \in Seq(Symbol)
    PROVE  /\ [i \in DOMAIN s |-> EscapedChar(s[i])] \in Seq(Seq(Symbol))
           /\ escape_json(s) \in Seq(Symbol) /\ Quoted(s) \in Seq(Symbol)
           /\ Quoted(s) = Between(Quote, escape_json(s), Quote)
<1> DEFINE N == Len(s)
           parts == [i \in DOMAIN s |-> EscapedChar(s[i])]
<1>1. N \in Nat /\ DOMAIN s = 1 .. N /\ \A i \in 1 .. N : s[i] \in Symbol
  OBVIOUS
<1>2. parts = [i \in 1 .. N |-> EscapedChar(s[i])] /\ \A i \in 1 .. N : EscapedChar(s[i]) \in Seq(Symbol)
  BY <1>1, EscapedType
<1>3. parts \in Seq(Seq(Symbol))
  <2> HIDE DEF N
  <2>1. QED
    BY <1>1, <1>2
<1>4. escape_json(s) = FlattenSeq(parts)
  BY DEF escape_json
<1> HIDE DEF parts
<1>5. escape_json(s) \in Seq(Symbol)
  BY <1>3, <1>4, FlattenType
<1>6. Quoted(s) = Between(Quote, escape_json(s), Quote)
  BY DEF Quoted, Between
<1>7. QED
  BY <1>3, <1>5, <1>6, SymbolFacts, BetweenType DEF parts

\* What the loop of a string does at each character of a quoted one, and at
\* the closing mark.
StringRun(text, p, s, at) ==
    /\ at[1] = p + 1 /\ at[Len(s) + 2] = p + Len(Quoted(s))
    /\ \A i \in 1 .. (Len(s) + 1) : at[i] \in Positions(text)
    /\ \A i \in 1 .. Len(s) : CharacterItem(text, at[i]) = {Item(<<s[i]>>, at[i + 1], TRUE)}
    /\ CharacterItem(text, at[Len(s) + 1]) = {Item(<<>>, at[Len(s) + 2], FALSE)}

LEMMA CharacterSteps ==
    ASSUME NEW text \in Seq(Symbol), NEW p, NEW s \in Seq(Symbol), Occurs(text, p, Quoted(s))
    PROVE  /\ p \in Positions(text) /\ Peek(text, p) = Quote
           /\ \E at : StringRun(text, p, s, at)
<1> DEFINE N == Len(s)
           E == escape_json(s)
           parts == [i \in DOMAIN s |-> EscapedChar(s[i])]
           r == p + 1
<1>1. N \in Nat /\ DOMAIN s = 1 .. N /\ \A i \in 1 .. N : s[i] \in Symbol
  OBVIOUS
<1>2. Len(parts) = N /\ DOMAIN parts = 1 .. N /\ \A i \in 1 .. N : parts[i] = EscapedChar(s[i])
  <2>1. parts = [i \in 1 .. N |-> EscapedChar(s[i])]
    BY <1>1
  <2> HIDE DEF parts, N
  <2>2. QED
    BY <1>1, <2>1
<1>3. parts \in Seq(Seq(Symbol)) /\ E \in Seq(Symbol) /\ Quoted(s) = Between(Quote, E, Quote) /\ E = FlattenSeq(parts)
  BY QuotedType DEF escape_json
<1> HIDE DEF N, E, parts
<1>4. Occurs(text, p, Between(Quote, E, Quote)) /\ Quote \in Symbol
  BY <1>3, SymbolFacts
<1>16. BetweenAt(text, p, Quote, E, Quote)
  BY <1>3, <1>4, OccursBetween
<1>5. p \in Positions(text) /\ Peek(text, p) = Quote
  BY <1>16 DEF BetweenAt
<1>6. Occurs(text, r, E)
  BY <1>16 DEF BetweenAt
<1>7. Peek(text, r + Len(E)) = Quote /\ r + Len(E) \in Positions(text)
  BY <1>16, Zenon DEF BetweenAt
<1>8. p + Len(Quoted(s)) = (r + Len(E)) + 1
  BY <1>3, <1>16, Zenon DEF BetweenAt
<1> HIDE DEF r
<1>9. PICK b : /\ b[1] = r /\ b[Len(parts) + 1] = r + Len(FlattenSeq(parts))
               /\ \A i \in 1 .. Len(parts) : Occurs(text, b[i], parts[i]) /\ b[i + 1] = b[i] + Len(parts[i])
  <2>1. Occurs(text, r, FlattenSeq(parts))
    BY <1>3, <1>6
  <2>2. PICK b : PartsAt(text, r, parts, b)
    BY <1>3, <2>1, OccursParts
  <2>3. QED
    BY <2>2 DEF PartsAt
<1> DEFINE at == [i \in 1 .. (N + 2) |-> IF i <= N + 1 THEN b[i] ELSE b[N + 1] + 1]
<1>10. /\ at[1] = r /\ at[N + 1] = r + Len(E) /\ at[N + 2] = (r + Len(E)) + 1
       /\ \A i \in 1 .. N : at[i] = b[i] /\ at[i + 1] = b[i + 1]
  <2>1. /\ 1 \in 1 .. (N + 2) /\ 1 <= N + 1 /\ N + 1 \in 1 .. (N + 2) /\ N + 1 <= N + 1
        /\ N + 2 \in 1 .. (N + 2) /\ ~ (N + 2 <= N + 1)
        /\ \A i \in 1 .. N : i \in 1 .. (N + 2) /\ i <= N + 1 /\ i + 1 \in 1 .. (N + 2) /\ i + 1 <= N + 1
    BY <1>1
  <2>2. b[1] = r /\ b[N + 1] = r + Len(E)
    BY <1>2, <1>3, <1>9
  <2>3. QED
    BY <2>1, <2>2
<1> HIDE DEF at
<1>11. ASSUME NEW i \in 1 .. N
       PROVE  at[i] \in Positions(text) /\ CharacterItem(text, at[i]) = {Item(<<s[i]>>, at[i + 1], TRUE)}
  <2>1. Occurs(text, at[i], EscapedChar(s[i])) /\ at[i + 1] = at[i] + Len(EscapedChar(s[i])) /\ s[i] \in Symbol
    BY <1>1, <1>2, <1>9, <1>10
  <2>2. at[i] \in Positions(text) /\ Peek(text, at[i]) # Quote
    BY <2>1, EscapedRead
  <2>3. NextChar(text, at[i]) = Ok(s[i], at[i + 1])
    BY <2>1, EscapedRead
  <2>4. CharacterItem(text, at[i]) = {Item(<<char.value>>, char.pos, TRUE) : char \in NextChar(text, at[i])}
    BY <2>2 DEF CharacterItem
  <2> DEFINE one == [value |-> s[i], pos |-> at[i + 1]]
             F(char) == Item(<<char.value>>, char.pos, TRUE)
  <2>5. F(one) = Item(<<s[i]>>, at[i + 1], TRUE)
    OBVIOUS
  <2>6. CharacterItem(text, at[i]) = {F(char) : char \in {one}}
    BY <2>3, <2>4 DEF Ok
  <2> HIDE DEF F, one
  <2>7. CharacterItem(text, at[i]) = {F(one)}
    BY <2>6
  <2>8. QED
    BY <2>2, <2>5, <2>7
<1>12. at[N + 1] \in Positions(text) /\ CharacterItem(text, at[N + 1]) = {Item(<<>>, at[N + 2], FALSE)}
  <2>1. at[N + 1] \in Positions(text) /\ Peek(text, at[N + 1]) = Quote /\ at[N + 2] = at[N + 1] + 1
    BY <1>7, <1>10
  <2>2. QED
    BY <2>1 DEF CharacterItem
<1>13. \A i \in 1 .. (N + 1) : at[i] \in Positions(text)
  <2>1. \A i \in 1 .. (N + 1) : i \in 1 .. N \/ i = N + 1
    BY <1>1
  <2>2. QED
    BY <1>11, <1>12, <2>1
<1>14. at[1] = p + 1 /\ at[N + 2] = p + Len(Quoted(s))
  BY <1>8, <1>10 DEF r
<1>15. StringRun(text, p, s, at)
  BY <1>11, <1>12, <1>13, <1>14 DEF N, StringRun
<1>17. QED
  BY <1>5, <1>15

LEMMA QuotedRead ==
    ASSUME NEW text \in Seq(Symbol), NEW p, NEW s \in Seq(Symbol), Occurs(text, p, Quoted(s))
    PROVE  /\ p \in Positions(text) /\ Peek(text, p) = Quote
           /\ parse_string(text, p) = Ok(s, p + Len(Quoted(s)))
<1> DEFINE N == Len(s)
           m == N + 1
           item == [pos \in Positions(text) |-> CharacterItem(text, pos)]
           adds == [i \in 1 .. m |-> IF i <= N THEN <<s[i]>> ELSE <<>>]
           tails == [i \in 1 .. m |-> Suffix(s, i)]
<1>1. N \in Nat /\ m \in Nat \ {0}
  OBVIOUS
<1>2. Advances(text, item) /\ Characters(text) = Loop(text, item)
  BY CharactersType
<1>3. p \in Positions(text) /\ Peek(text, p) = Quote
  BY CharacterSteps
<1>0. PICK at : StringRun(text, p, s, at)
  BY CharacterSteps
<1>4. /\ at[1] = p + 1 /\ at[N + 2] = p + Len(Quoted(s))
      /\ \A i \in 1 .. (N + 1) : at[i] \in Positions(text)
      /\ \A i \in 1 .. N : CharacterItem(text, at[i]) = {Item(<<s[i]>>, at[i + 1], TRUE)}
      /\ CharacterItem(text, at[N + 1]) = {Item(<<>>, at[N + 2], FALSE)}
  BY <1>0 DEF StringRun
<1>5. \A pos \in Positions(text) : item[pos] = CharacterItem(text, pos)
  OBVIOUS
<1>6. /\ Suffix(s, 1) = s /\ Suffix(s, N + 1) = <<>>
      /\ \A i \in 1 .. N : Suffix(s, i) = <<s[i]>> \o Suffix(s, i + 1)
  BY SuffixFacts
<1> HIDE DEF N, item
<1>7. /\ m \in 1 .. m /\ 1 \in 1 .. m /\ ~ (m <= N) /\ ~ (m < m) /\ m + 1 = N + 2 /\ m - 1 = N
      /\ \A i \in 1 .. m : i \in 1 .. N \/ i = m
      /\ \A i \in 1 .. N : i \in 1 .. m /\ i + 1 \in 1 .. m /\ i <= N /\ i < m
  BY <1>1
<1>8. ItemsAt(text, item, m, at, adds)
  <2>1. ASSUME NEW i \in 1 .. m
        PROVE  at[i] \in Positions(text) /\ item[at[i]] = {Item(adds[i], at[i + 1], i < m)}
    <3>1. at[i] \in Positions(text) /\ item[at[i]] = CharacterItem(text, at[i])
      BY <1>4, <1>5
    <3>2. CASE i \in 1 .. N
      <4>1. adds[i] = <<s[i]>> /\ (i < m) = TRUE
        BY <1>7, <3>2
      <4>2. CharacterItem(text, at[i]) = {Item(<<s[i]>>, at[i + 1], TRUE)}
        BY <1>4, <3>2
      <4> HIDE DEF adds
      <4>3. QED
        BY <3>1, <4>1, <4>2
    <3>3. CASE i = m
      <4>1. adds[i] = <<>> /\ (i < m) = FALSE
        BY <1>7, <3>3
      <4>2. CharacterItem(text, at[i]) = {Item(<<>>, at[i + 1], FALSE)}
        BY <1>4, <1>7, <3>3
      <4> HIDE DEF adds
      <4>3. QED
        BY <3>1, <4>1, <4>2
    <3>4. QED
      BY <1>7, <3>2, <3>3
  <2>2. QED
    BY <2>1 DEF ItemsAt
<1>9. tails[m] = adds[m]
  BY <1>6, <1>7
<1>10. \A i \in 1 .. (m - 1) : tails[i] = adds[i] \o tails[i + 1]
  BY <1>6, <1>7
<1>11. tails[1] = s
  BY <1>6, <1>7
<1> HIDE DEF m, adds, tails
<1>12. \A i \in 1 .. m : Loop(text, item)[at[i]] = Ok(tails[i], at[m + 1])
  <2>1. Collected(m, adds, tails)
    BY <1>9, <1>10 DEF Collected
  <2>2. LoopAt(text, item, m, at, tails)
    BY <1>1, <1>2, <1>8, <2>1, LoopRun
  <2>3. QED
    BY <2>2 DEF LoopAt
<1>13. Characters(text)[p + 1] = Ok(s, p + Len(Quoted(s)))
  BY <1>2, <1>4, <1>7, <1>11, <1>12
<1>14. QED
  BY <1>3, <1>13 DEF parse_string

-----------------------------------------------------------------------------
(* Lists of texts. *)

ListedPart(texts, i) == IF i = 1 THEN texts[i] ELSE <<Comma, Space>> \o texts[i]

ListedParts(texts) == [i \in DOMAIN texts |-> ListedPart(texts, i)]

LEMMA ListedType ==
    ASSUME NEW texts \in Seq(Seq(Symbol)), NEW open \in Symbol, NEW close \in Symbol
    PROVE  /\ ListedParts(texts) \in Seq(Seq(Symbol)) /\ Len(ListedParts(texts)) = Len(texts)
           /\ \A i \in 1 .. Len(texts) : ListedParts(texts)[i] = ListedPart(texts, i)
           /\ Listed(texts, open, close) \in Seq(Symbol)
           /\ Listed(texts, open, close) = Between(open, FlattenSeq(ListedParts(texts)), close)
<1> DEFINE N == Len(texts)
           parts == ListedParts(texts)
           and == <<Comma, Space>>
<1>1. N \in Nat /\ DOMAIN texts = 1 .. N /\ \A i \in 1 .. N : texts[i] \in Seq(Symbol)
  OBVIOUS
<1>2. Comma \in Symbol /\ Space \in Symbol
  BY SymbolFacts DEF Marks, Whitespace
<1>3. and \in Seq(Symbol)
  BY <1>2
<1> HIDE DEF N, and
<1>4. ASSUME NEW i \in 1 .. N PROVE ListedPart(texts, i) \in Seq(Symbol)
  <2>1. and \o texts[i] \in Seq(Symbol)
    BY <1>1, <1>3, ConcatProperties
  <2>2. ListedPart(texts, i) = IF i = 1 THEN texts[i] ELSE and \o texts[i]
    BY DEF ListedPart, and
  <2>3. QED
    BY <1>1, <2>1, <2>2
<1>5. parts = [i \in 1 .. N |-> ListedPart(texts, i)]
  BY <1>1 DEF ListedParts
<1> HIDE DEF parts
<1>6. parts \in Seq(Seq(Symbol)) /\ Len(parts) = N /\ \A i \in 1 .. N : parts[i] = ListedPart(texts, i)
  BY <1>1, <1>4, <1>5
<1>7. FlattenSeq(parts) \in Seq(Symbol)
  BY <1>6, FlattenType
<1>8. Listed(texts, open, close) = Between(open, FlattenSeq(parts), close)
  BY DEF Listed, Between, parts, ListedParts, ListedPart
<1>9. Listed(texts, open, close) \in Seq(Symbol)
  BY <1>7, <1>8, BetweenType
<1>10. QED
  BY <1>6, <1>8, <1>9 DEF parts, N

\* Where the texts begin and end that are listed at p.
ListedAt(text, p, texts, open, close, begins, ends) ==
    /\ p \in Positions(text) /\ Peek(text, p) = open
    /\ begins[1] = p + 1
    /\ \A i \in 1 .. Len(texts) : Occurs(text, begins[i], texts[i]) /\ ends[i] = begins[i] + Len(texts[i])
    /\ \A i \in 1 .. (Len(texts) - 1) :
          /\ ends[i] \in Positions(text) /\ Peek(text, ends[i]) = Comma
          /\ ends[i] + 1 \in Positions(text) /\ Peek(text, ends[i] + 1) = Space
          /\ begins[i + 1] = (ends[i] + 1) + 1
    /\ ends[Len(texts)] \in Positions(text) /\ Peek(text, ends[Len(texts)]) = close
    /\ p + Len(Listed(texts, open, close)) = ends[Len(texts)] + 1

\* A comma, a blank, and what follows them.
AfterComma(text, q, x) ==
    /\ q \in Positions(text) /\ Peek(text, q) = Comma
    /\ q + 1 \in Positions(text) /\ Peek(text, q + 1) = Space
    /\ Occurs(text, (q + 1) + 1, x)
    /\ q + Len(<<Comma, Space>> \o x) = ((q + 1) + 1) + Len(x)

LEMMA PairJoined ==
    ASSUME NEW a \in Symbol, NEW b \in Symbol
    PROVE  Joined(<<a, b>>, <<a>>, <<b>>)
<1> DEFINE x == <<a>>
           y == <<b>>
           z == <<a, b>>
<1>1. x \in Seq(Symbol) /\ Len(x) = 1 /\ x[1] = a /\ y \in Seq(Symbol) /\ Len(y) = 1 /\ y[1] = b
  OBVIOUS
<1>2. z \in Seq(Symbol) /\ Len(z) = 2 /\ z[1] = a /\ z[2] = b
  OBVIOUS
<1> HIDE DEF x, y, z
<1>3. /\ x \o y \in Seq(Symbol) /\ Len(x \o y) = Len(x) + Len(y)
      /\ \A i \in 1 .. (Len(x) + Len(y)) : (x \o y)[i] = IF i <= Len(x) THEN x[i] ELSE y[i - Len(x)]
  BY <1>1, ConcatProperties, Zenon
<1> DEFINE w == x \o y
<1>4. w \in Seq(Symbol) /\ Len(w) = 2 /\ \A i \in 1 .. 2 : w[i] = IF i <= 1 THEN x[i] ELSE y[i - 1]
  BY <1>1, <1>3
<1> HIDE DEF w
<1>5. w[1] = a /\ w[2] = b
  BY <1>1, <1>4
<1>6. z = w
  BY <1>2, <1>4, <1>5, SeqEqual
<1>7. QED
  BY <1>6, Zenon DEF Joined, w, x, y, z

LEMMA OccursComma ==
    ASSUME NEW text \in Seq(Symbol), NEW q, NEW x \in Seq(Symbol), Occurs(text, q, <<Comma, Space>> \o x)
    PROVE  AfterComma(text, q, x)
<1> DEFINE and == <<Comma, Space>>
           c == <<Comma>>
           s == <<Space>>
           z == and \o x
<1>1. Comma \in Symbol /\ Space \in Symbol
  BY SymbolFacts DEF Marks, Whitespace
<1>2. c \in Seq(Symbol) /\ s \in Seq(Symbol) /\ and \in Seq(Symbol) /\ Len(c) = 1 /\ Len(s) = 1 /\ Len(and) = 2
  BY <1>1
<1>3. Joined(and, c, s) /\ Joined(z, and, x) /\ Occurs(text, q, z)
  <2>2. Joined(and, c, s)
    BY <1>1, PairJoined
  <2>3. Joined(z, and, x) /\ Occurs(text, q, z)
    BY DEF Joined
  <2>4. QED
    BY <2>2, <2>3
<1> HIDE DEF and, s, z
<1>4. Occurs(text, q, and)
  BY <1>2, <1>3, OccursSplit
<1>5. Occurs(text, q + Len(and), x)
  BY <1>2, <1>3, OccursSplit
<1>6. q \in Positions(text) /\ Peek(text, q) = Comma
  BY <1>1, <1>2, <1>3, <1>4, OccursCons
<1>7. Occurs(text, q + 1, s)
  BY <1>1, <1>2, <1>3, <1>4, OccursCons
<1> DEFINE r == q + 1
<1>8. Occurs(text, r, <<Space>>)
  BY <1>7 DEF s
<1> HIDE DEF r, c
<1>9. r \in Positions(text) /\ Peek(text, r) = Space
  BY <1>1, <1>8, OccursOne
<1>10. q \in Nat
  BY <1>3 DEF Occurs
<1>11. Len(z) = Len(and) + Len(x) /\ Len(x) \in Nat
  <2>1. Lengths(z, and, x)
    BY <1>2, <1>3, JoinedLengths, Zenon
  <2>2. QED
    BY <2>1, Zenon DEF Lengths
<1>12. q + Len(and) = (q + 1) + 1
  BY <1>2, <1>10
<1>13. q + Len(z) = ((q + 1) + 1) + Len(x)
  BY <1>2, <1>10, <1>11
<1>14. Occurs(text, (q + 1) + 1, x)
  BY <1>5, <1>12
<1>15. q + Len(<<Comma, Space>> \o x) = ((q + 1) + 1) + Len(x)
  BY <1>13 DEF z, and
<1>16. QED
  BY <1>6, <1>9, <1>14, <1>15 DEF AfterComma, r

LEMMA OccursListed ==
    ASSUME NEW text \in Seq(Symbol), NEW p, NEW texts \in Seq(Seq(Symbol)), texts # <<>>,
           NEW open \in Symbol, NEW close \in Symbol, Occurs(text, p, Listed(texts, open, close))
    PROVE  \E begins, ends : ListedAt(text, p, texts, open, close, begins, ends)
<1> DEFINE N == Len(texts)
           parts == ListedParts(texts)
           F == FlattenSeq(parts)
           r == p + 1
<1>1. N \in Nat \ {0} /\ \A i \in 1 .. N : texts[i] \in Seq(Symbol)
  OBVIOUS
<1>2. /\ parts \in Seq(Seq(Symbol)) /\ Len(parts) = N /\ \A i \in 1 .. N : parts[i] = ListedPart(texts, i)
      /\ Listed(texts, open, close) = Between(open, F, close)
  BY ListedType
<1> HIDE DEF N, parts
<1>3. F \in Seq(Symbol)
  BY <1>2, FlattenType
<1> HIDE DEF F
<1>4. BetweenAt(text, p, open, F, close)
  BY <1>2, <1>3, OccursBetween
<1>5. p \in Positions(text) /\ Peek(text, p) = open /\ Occurs(text, r, F)
  BY <1>4 DEF BetweenAt
<1>6. Peek(text, r + Len(F)) = close /\ r + Len(F) \in Positions(text)
  BY <1>4, Zenon DEF BetweenAt
<1>7. p + Len(Listed(texts, open, close)) = (r + Len(F)) + 1
  BY <1>2, <1>4, Zenon DEF BetweenAt
<1> HIDE DEF r
<1>8. PICK b : /\ b[1] = r /\ b[N + 1] = r + Len(F)
               /\ \A i \in 1 .. N : Occurs(text, b[i], parts[i]) /\ b[i + 1] = b[i] + Len(parts[i])
  <2>1. Occurs(text, r, FlattenSeq(parts))
    BY <1>5 DEF F
  <2>2. PICK b : PartsAt(text, r, parts, b)
    BY <1>2, <2>1, OccursParts
  <2>3. QED
    BY <1>2, <2>2 DEF F, PartsAt
<1> DEFINE begins == [i \in 1 .. N |-> IF i = 1 THEN r ELSE (b[i] + 1) + 1]
           ends == [i \in 1 .. N |-> b[i + 1]]
<1>9. 1 \in 1 .. N /\ N \in 1 .. N
  BY <1>1
<1>10. /\ begins[1] = r /\ \A i \in 1 .. N : i # 1 => begins[i] = (b[i] + 1) + 1
       /\ \A i \in 1 .. N : ends[i] = b[i + 1]
  BY <1>9
<1> HIDE DEF begins, ends
<1>11. ASSUME NEW i \in 1 .. N PROVE Occurs(text, begins[i], texts[i]) /\ ends[i] = begins[i] + Len(texts[i])
  <2>1. /\ Occurs(text, b[i], ListedPart(texts, i)) /\ b[i + 1] = b[i] + Len(ListedPart(texts, i))
        /\ texts[i] \in Seq(Symbol)
    BY <1>1, <1>2, <1>8
  <2>2. CASE i = 1
    <3>1. ListedPart(texts, i) = texts[i]
      BY <2>2 DEF ListedPart
    <3>2. begins[i] = b[i] /\ ends[i] = b[i + 1]
      BY <1>8, <1>10, <2>2
    <3>3. QED
      BY <2>1, <3>1, <3>2
  <2>3. CASE i # 1
    <3>1. ListedPart(texts, i) = <<Comma, Space>> \o texts[i]
      BY <2>3, Zenon DEF ListedPart
    <3>2. AfterComma(text, b[i], texts[i])
      BY <2>1, <3>1, OccursComma
    <3>3. begins[i] = (b[i] + 1) + 1 /\ ends[i] = b[i + 1]
      BY <1>10, <2>3
    <3>4. Occurs(text, (b[i] + 1) + 1, texts[i])
      BY <3>2 DEF AfterComma
    <3>5. b[i] + Len(ListedPart(texts, i)) = ((b[i] + 1) + 1) + Len(texts[i])
      BY <3>1, <3>2, Zenon DEF AfterComma
    <3>6. QED
      BY <2>1, <3>3, <3>4, <3>5
  <2>4. QED
    BY <2>2, <2>3
<1>12. ASSUME NEW i \in 1 .. (N - 1)
       PROVE  /\ ends[i] \in Positions(text) /\ Peek(text, ends[i]) = Comma
              /\ ends[i] + 1 \in Positions(text) /\ Peek(text, ends[i] + 1) = Space
              /\ begins[i + 1] = (ends[i] + 1) + 1
  <2> DEFINE j == i + 1
  <2>1. j \in 1 .. N /\ j # 1 /\ i \in 1 .. N
    BY <1>1
  <2>2. ends[i] = b[j]
    BY <1>10, <2>1
  <2> HIDE DEF j
  <2>3. Occurs(text, b[j], ListedPart(texts, j)) /\ texts[j] \in Seq(Symbol)
    BY <1>1, <1>2, <1>8, <2>1
  <2>4. ListedPart(texts, j) = <<Comma, Space>> \o texts[j]
    BY <2>1, Zenon DEF ListedPart
  <2>5. AfterComma(text, b[j], texts[j])
    BY <2>3, <2>4, OccursComma
  <2>6. begins[j] = (b[j] + 1) + 1
    BY <1>10, <2>1
  <2>7. QED
    BY <2>2, <2>5, <2>6 DEF AfterComma, j
<1>13. ends[N] = r + Len(F)
  BY <1>8, <1>9, <1>10
<1>14. ends[N] \in Positions(text) /\ Peek(text, ends[N]) = close
  BY <1>6, <1>13
<1>15. p + Len(Listed(texts, open, close)) = ends[N] + 1
  BY <1>7, <1>13
<1>16. begins[1] = p + 1
  BY <1>10 DEF r
<1>17. ListedAt(text, p, texts, open, close, begins, ends)
  BY <1>5, <1>11, <1>12, <1>14, <1>15, <1>16 DEF ListedAt, N
<1>18. QED
  BY <1>17

-----------------------------------------------------------------------------
(* Lists are read as they were written. *)

LEMMA SeparatorMore ==
    ASSUME NEW text \in Seq(Symbol), NEW pos \in Positions(text), NEW close \in {CloseBrace, "]"}, Peek(text, pos) = Comma
    PROVE  Separator(text, pos, close) = {[more |-> TRUE, pos |-> pos + 1]}
<1>1. skip_ws(text, pos) = pos
  BY SymbolFacts, SkipNone
<1>2. close # Comma
  BY MarkFacts
<1>3. QED
  BY <1>1, <1>2, Zenon DEF Separator

LEMMA SeparatorLast ==
    ASSUME NEW text \in Seq(Symbol), NEW pos \in Positions(text), NEW close \in {CloseBrace, "]"}, Peek(text, pos) = close
    PROVE  Separator(text, pos, close) = {[more |-> FALSE, pos |-> pos + 1]}
<1>1. skip_ws(text, pos) = pos
  BY SymbolFacts, SkipNone
<1>2. close # Comma
  BY MarkFacts
<1>3. QED
  BY <1>1, <1>2, Zenon DEF Separator

LEMMA ElementItemOne ==
    ASSUME NEW text, NEW pos, NEW close, NEW value, NEW element, NEW after,
           Element(text, skip_ws(text, pos), close, value) = {element},
           Separator(text, element.pos, close) = {after}
    PROVE  ElementItem(text, pos, close, value) = {Item(<<element.value>>, after.pos, after.more)}
<1> DEFINE F(e, a) == Item(<<e.value>>, a.pos, a.more)
           G(e) == {F(e, a) : a \in Separator(text, e.pos, close)}
<1>1. ElementItem(text, pos, close, value) = UNION {G(e) : e \in {element}}
  BY Zenon DEF ElementItem
<1>2. G(element) = {F(element, a) : a \in {after}}
  OBVIOUS
<1>3. F(element, after) = Item(<<element.value>>, after.pos, after.more)
  OBVIOUS
<1> HIDE DEF F
<1>4. G(element) = {F(element, after)}
  BY <1>2
<1> HIDE DEF G
<1>5. UNION {G(e) : e \in {element}} = G(element)
  OBVIOUS
<1>6. QED
  BY <1>1, <1>3, <1>4, <1>5

\* A text is read as the element with value v, wherever it is.
ElementAt(text, q, x, v, close, value) ==
    /\ Peek(text, q) \notin Whitespace \cup {close}
    /\ Element(text, q, close, value) = Ok(v, q + Len(x))

ReadsElement(text, x, v, close, value) ==
    \A q : Occurs(text, q, x) => ElementAt(text, q, x, v, close, value)

\* An element up to the mark behind it.
Continues(text, pos, close, value, v, end) ==
    /\ Peek(text, end) = Comma => ElementItem(text, pos, close, value) = {Item(<<v>>, end + 1, TRUE)}
    /\ Peek(text, end) = close => ElementItem(text, pos, close, value) = {Item(<<v>>, end + 1, FALSE)}

LEMMA ListedItem ==
    ASSUME NEW text \in Seq(Symbol), NEW q \in Positions(text), NEW pos \in Positions(text),
           NEW close \in {CloseBrace, "]"}, NEW value, NEW x, NEW v, NEW end \in Positions(text),
           skip_ws(text, pos) = q, ElementAt(text, q, x, v, close, value), end = q + Len(x)
    PROVE  Continues(text, pos, close, value, v, end)
<1> DEFINE element == [value |-> v, pos |-> end]
           further == [more |-> TRUE, pos |-> end + 1]
           last == [more |-> FALSE, pos |-> end + 1]
<1>1. Element(text, skip_ws(text, pos), close, value) = {element}
  BY DEF ElementAt, Ok
<1>2. element.value = v /\ element.pos = end
  OBVIOUS
<1>3. further.more = TRUE /\ further.pos = end + 1 /\ last.more = FALSE /\ last.pos = end + 1
  OBVIOUS
<1>4. ASSUME Peek(text, end) = Comma
      PROVE  ElementItem(text, pos, close, value) = {Item(<<v>>, end + 1, TRUE)}
  <2>1. Separator(text, end, close) = {further}
    BY <1>4, SeparatorMore
  <2> HIDE DEF element, further
  <2>2. ElementItem(text, pos, close, value) = {Item(<<element.value>>, further.pos, further.more)}
    BY <1>1, <1>2, <2>1, ElementItemOne
  <2>3. QED
    BY <1>2, <1>3, <2>2
<1>5. ASSUME Peek(text, end) = close
      PROVE  ElementItem(text, pos, close, value) = {Item(<<v>>, end + 1, FALSE)}
  <2>1. Separator(text, end, close) = {last}
    BY <1>5, SeparatorLast
  <2> HIDE DEF element, last
  <2>2. ElementItem(text, pos, close, value) = {Item(<<element.value>>, last.pos, last.more)}
    BY <1>1, <1>2, <2>1, ElementItemOne
  <2>3. QED
    BY <1>2, <1>3, <2>2
<1>6. QED
  BY <1>4, <1>5 DEF Continues

LEMMA ListedNone ==
    ASSUME NEW text \in Seq(Symbol), NEW p, NEW open \in Symbol, NEW close \in {CloseBrace, "]"}, NEW value,
           Occurs(text, p, Listed(<<>>, open, close))
    PROVE  Elements(text, p, close, value) = Ok(Collection(close, <<>>), p + Len(Listed(<<>>, open, close)))
<1> DEFINE F == FlattenSeq(ListedParts(<<>>))
           r == p + 1
<1>1. close \in Symbol
  BY SymbolFacts DEF Marks
<1>2. ListedParts(<<>>) = <<>>
  BY DEF ListedParts
<1>3. F \in Seq(Symbol) /\ Len(F) = 0 /\ Listed(<<>>, open, close) = Between(open, F, close)
  <2>1. <<>> \in Seq(Seq(Symbol))
    OBVIOUS
  <2>2. F = <<>>
    BY <1>2, <2>1, FlattenType
  <2>3. Listed(<<>>, open, close) = Between(open, F, close)
    BY <1>1, <2>1, ListedType
  <2> HIDE DEF F
  <2>4. QED
    BY <2>2, <2>3
<1> HIDE DEF F
<1>4. BetweenAt(text, p, open, F, close)
  BY <1>1, <1>3, OccursBetween
<1>5. r \in Nat
  <2>1. p \in Nat
    BY DEF Occurs
  <2>2. QED
    BY <2>1
<1>6. Peek(text, r) = close /\ r \in Positions(text)
  <2>1. Peek(text, r + Len(F)) = close /\ r + Len(F) \in Positions(text)
    BY <1>4, Zenon DEF BetweenAt
  <2> HIDE DEF r
  <2>2. r + Len(F) = r
    BY <1>3, <1>5
  <2>3. QED
    BY <2>1, <2>2
<1>7. p + Len(Listed(<<>>, open, close)) = r + 1
  <2>1. p + Len(Listed(<<>>, open, close)) = (r + Len(F)) + 1
    BY <1>3, <1>4, Zenon DEF BetweenAt
  <2> HIDE DEF r
  <2>2. QED
    BY <1>3, <1>5, <2>1
<1>8. skip_ws(text, p + 1) = r
  <2>1. Peek(text, r) \notin Whitespace
    BY <1>6, SymbolFacts
  <2>2. QED
    BY <1>6, <2>1, SkipNone
<1>9. Elements(text, p, close, value) = Ok(Collection(close, <<>>), r + 1)
  BY <1>6, <1>8, Zenon DEF Elements
<1>10. QED
  BY <1>7, <1>9

\* The values of a list are the ones its texts are read as.
ReadsElements(text, texts, vals, close, value) ==
    \A i \in 1 .. Len(texts) : ReadsElement(text, texts[i], vals[i], close, value)

ListedValue(text, p, texts, open, close, value, vals) ==
    Elements(text, p, close, value) = Ok(Collection(close, vals), p + Len(Listed(texts, open, close)))

LEMMA ListedRead ==
    ASSUME NEW text \in Seq(Symbol), NEW p, NEW J, NEW value, \A q \in Positions(text) : Within(value[q], J, q, text),
           NEW open \in Symbol, NEW close \in {CloseBrace, "]"},
           NEW texts \in Seq(Seq(Symbol)), NEW V, NEW vals \in Seq(V), Len(vals) = Len(texts),
           ReadsElements(text, texts, vals, close, value),
           Occurs(text, p, Listed(texts, open, close))
    PROVE  ListedValue(text, p, texts, open, close, value, vals)
<1> DEFINE N == Len(texts)
           item == [q \in Positions(text) |-> ElementItem(text, q, close, value)]
           result == Ok(Collection(close, vals), p + Len(Listed(texts, open, close)))
<1>0. close \in Symbol /\ close # "END"
  BY SymbolFacts, ClosingFacts DEF Marks
<1>1. N \in Nat
  OBVIOUS
<1>2. CASE texts = <<>>
  <2>1. vals = <<>>
    BY <1>2
  <2>2. QED
    BY <1>2, <2>1, ListedNone DEF ListedValue
<1>3. CASE texts # <<>>
  <2>1. PICK begins, ends : ListedAt(text, p, texts, open, close, begins, ends)
    BY <1>0, <1>3, OccursListed
  <2>2. /\ p \in Positions(text) /\ begins[1] = p + 1
        /\ \A i \in 1 .. N : Occurs(text, begins[i], texts[i]) /\ ends[i] = begins[i] + Len(texts[i])
        /\ \A i \in 1 .. (N - 1) :
              /\ ends[i] \in Positions(text) /\ Peek(text, ends[i]) = Comma
              /\ ends[i] + 1 \in Positions(text) /\ Peek(text, ends[i] + 1) = Space
              /\ begins[i + 1] = (ends[i] + 1) + 1
        /\ ends[N] \in Positions(text) /\ Peek(text, ends[N]) = close
        /\ p + Len(Listed(texts, open, close)) = ends[N] + 1
    BY <2>1, Zenon DEF ListedAt
  <2>3. N \in Nat \ {0}
    BY <1>3
  <2>4. Advances(text, item)
    BY <1>0, ElementsType
  <2>5. \A q \in Positions(text) : item[q] = ElementItem(text, q, close, value)
    OBVIOUS
  <2>6. \A i \in 1 .. N : texts[i] \in Seq(Symbol)
    OBVIOUS
  <2>7. \A i \in 1 .. N : Suffix(vals, i) = Suffix(vals, i)
    OBVIOUS
  <2> DEFINE at == [i \in 1 .. (N + 1) |-> IF i = 1 THEN p + 1 ELSE ends[i - 1] + 1]
             adds == [i \in 1 .. N |-> <<vals[i]>>]
             tails == [i \in 1 .. N |-> Suffix(vals, i)]
  <2>8. Collected(N, adds, tails)
    <3>1. N \in 1 .. N /\ \A i \in 1 .. (N - 1) : i \in 1 .. N /\ i + 1 \in 1 .. N
      BY <2>3
    <3>2. /\ \A i \in 1 .. N : Suffix(vals, i) = <<vals[i]>> \o Suffix(vals, i + 1)
          /\ Suffix(vals, N) = <<vals[N]>>
      <4>1. vals # <<>> /\ Len(vals) = N
        BY <2>3
      <4> HIDE DEF N
      <4>2. \A i \in 1 .. N : Suffix(vals, i) = <<vals[i]>> \o Suffix(vals, i + 1)
        BY <4>1, SuffixFacts
      <4>3. Suffix(vals, N) = <<vals[N]>>
        BY <4>1, SuffixFacts
      <4>4. QED
        BY <4>2, <4>3
    <3> HIDE DEF N
    <3>3. tails[N] = adds[N]
      BY <3>1, <3>2
    <3>4. \A i \in 1 .. (N - 1) : tails[i] = adds[i] \o tails[i + 1]
      BY <3>1, <3>2
    <3> HIDE DEF tails, adds
    <3>5. QED
      BY <3>3, <3>4 DEF Collected
  <2>9. tails[1] = vals
    <3>1. 1 \in 1 .. N
      BY <2>3
    <3>2. Suffix(vals, 1) = vals
      BY SuffixFacts
    <3>3. QED
      BY <3>1, <3>2
  <2>10. \A i \in 1 .. N : adds[i] = <<vals[i]>>
    OBVIOUS
  <2> HIDE DEF N, item, tails, adds
  <2>11. /\ at[1] = p + 1 /\ \A i \in 1 .. N : at[i + 1] = ends[i] + 1
         /\ \A i \in 1 .. N : i # 1 => i - 1 \in 1 .. (N - 1) /\ at[i] = ends[i - 1] + 1
    <3>1. /\ 1 \in 1 .. (N + 1)
          /\ \A i \in 1 .. N : i \in 1 .. (N + 1) /\ i + 1 \in 1 .. (N + 1) /\ i + 1 # 1 /\ (i + 1) - 1 = i
          /\ \A i \in 1 .. N : i # 1 => i - 1 \in 1 .. (N - 1)
      BY <2>3
    <3>2. QED
      BY <3>1
  <2> HIDE DEF at
  <2>12. ASSUME NEW i \in 1 .. N
         PROVE  /\ begins[i] \in Positions(text) /\ ElementAt(text, begins[i], texts[i], vals[i], close, value)
                /\ Peek(text, begins[i]) \notin Whitespace
    <3>1. Occurs(text, begins[i], texts[i]) /\ texts[i] \in Seq(Symbol)
      BY <2>2, <2>6
    <3>2. begins[i] \in Positions(text)
      BY <3>1, OccursRead
    <3>3. ElementAt(text, begins[i], texts[i], vals[i], close, value)
      BY <3>1 DEF ReadsElements, ReadsElement, N
    <3>4. QED
      BY <3>2, <3>3 DEF ElementAt
  <2>13. ASSUME NEW i \in 1 .. N
         PROVE  at[i] \in Positions(text) /\ skip_ws(text, at[i]) = begins[i]
    <3>1. CASE i = 1
      <4>1. at[i] = begins[i]
        BY <2>2, <2>11, <3>1
      <4>2. QED
        BY <2>12, <4>1, SkipNone
    <3>2. CASE i # 1
      <4> DEFINE j == i - 1
      <4>1. j \in 1 .. (N - 1) /\ j + 1 = i /\ at[i] = ends[j] + 1
        BY <2>11, <3>2
      <4> HIDE DEF j
      <4>2. at[i] \in Positions(text) /\ Peek(text, at[i]) = Space /\ begins[i] = at[i] + 1
        BY <2>2, <4>1
      <4>3. Peek(text, at[i] + 1) \notin Whitespace
        BY <2>12, <4>2
      <4>4. QED
        BY <4>2, <4>3, SkipOne
    <3>3. QED
      BY <3>1, <3>2
  <2>14. ASSUME NEW i \in 1 .. N
         PROVE  at[i] \in Positions(text) /\ item[at[i]] = {Item(adds[i], at[i + 1], i < N)}
    <3> DEFINE q == begins[i]
               pos == at[i]
               end == ends[i]
    <3>1. pos \in Positions(text) /\ skip_ws(text, pos) = q /\ item[pos] = ElementItem(text, pos, close, value)
      BY <2>5, <2>13
    <3>2. q \in Positions(text) /\ ElementAt(text, q, texts[i], vals[i], close, value)
      BY <2>12
    <3>3. end = q + Len(texts[i]) /\ at[i + 1] = end + 1
      BY <2>2, <2>11
    <3> HIDE DEF q, pos, end
    <3>4. CASE i < N
      <4>1. end \in Positions(text) /\ Peek(text, end) = Comma
        <5>1. i \in 1 .. (N - 1)
          BY <2>3, <3>4
        <5>2. QED
          BY <2>2, <5>1 DEF end
      <4> DEFINE x == texts[i]
                 v == vals[i]
      <4> HIDE DEF x, v
      <4>5. ElementAt(text, q, x, v, close, value) /\ end = q + Len(x)
        BY <3>2, <3>3 DEF x, v
      <4>6. Continues(text, pos, close, value, v, end)
        BY <3>1, <3>2, <4>1, <4>5, ListedItem
      <4>2. ElementItem(text, pos, close, value) = {Item(<<vals[i]>>, end + 1, TRUE)}
        BY <4>1, <4>6 DEF v, Continues
      <4>3. (i < N) = TRUE
        BY <3>4
      <4>4. QED
        BY <2>10, <3>1, <3>3, <4>2, <4>3 DEF pos
    <3>5. CASE ~ (i < N)
      <4>1. end \in Positions(text) /\ Peek(text, end) = close
        <5>1. i = N
          BY <2>3, <3>5
        <5>2. QED
          BY <2>2, <5>1 DEF end
      <4> DEFINE x == texts[i]
                 v == vals[i]
      <4> HIDE DEF x, v
      <4>5. ElementAt(text, q, x, v, close, value) /\ end = q + Len(x)
        BY <3>2, <3>3 DEF x, v
      <4>6. Continues(text, pos, close, value, v, end)
        BY <3>1, <3>2, <4>1, <4>5, ListedItem
      <4>2. ElementItem(text, pos, close, value) = {Item(<<vals[i]>>, end + 1, FALSE)}
        BY <4>1, <4>6 DEF v, Continues
      <4>3. (i < N) = FALSE
        BY <3>5
      <4>4. QED
        BY <2>10, <3>1, <3>3, <4>2, <4>3 DEF pos
    <3>6. QED
      BY <3>4, <3>5
  <2>15. ItemsAt(text, item, N, at, adds)
    BY <2>14 DEF ItemsAt
  <2>16. \A i \in 1 .. N : Loop(text, item)[at[i]] = Ok(tails[i], at[N + 1])
    <3>1. LoopAt(text, item, N, at, tails)
      BY <2>3, <2>4, <2>8, <2>15, LoopRun
    <3>2. QED
      BY <3>1 DEF LoopAt
  <2>17. 1 \in 1 .. N /\ N \in 1 .. N
    BY <2>3
  <2>18. Loop(text, item)[p + 1] = Ok(vals, p + Len(Listed(texts, open, close)))
    <3>1. at[N + 1] = p + Len(Listed(texts, open, close))
      BY <2>2, <2>11, <2>17
    <3>2. QED
      BY <2>9, <2>11, <2>16, <2>17, <3>1
  <2>19. skip_ws(text, p + 1) = p + 1 /\ Peek(text, p + 1) # close
    <3>1. skip_ws(text, p + 1) = p + 1
      BY <2>2, <2>11, <2>13, <2>17
    <3>2. ElementAt(text, p + 1, texts[1], vals[1], close, value)
      BY <2>2, <2>12, <2>17
    <3>3. QED
      BY <3>1, <3>2 DEF ElementAt
  <2> DEFINE end == p + Len(Listed(texts, open, close))
             first == p + 1
             F(all) == [value |-> Collection(close, all.value), pos |-> all.pos]
             one == [value |-> vals, pos |-> end]
  <2>20. Elements(text, p, close, value) = {F(all) : all \in Loop(text, item)[first]}
    BY <2>19, Zenon DEF Elements, item
  <2>21. Loop(text, item)[first] = {one}
    BY <2>18 DEF Ok
  <2>22. F(one) = [value |-> Collection(close, vals), pos |-> end]
    OBVIOUS
  <2> HIDE DEF F, one, first, end
  <2>23. Elements(text, p, close, value) = {F(one)}
    BY <2>20, <2>21
  <2>24. QED
    BY <2>22, <2>23, Zenon DEF Ok, end, ListedValue
<1>4. QED
  BY <1>2, <1>3

-----------------------------------------------------------------------------
(* What a text denotes: the value that is read from it, wherever it is found, *)
(* if so many levels may still be opened.                                     *)

ValueAt(text, p, x, v, left) ==
    /\ Peek(text, p) \notin Whitespace \cup {"]", CloseBrace}
    /\ Values(text)[left][p] = Ok(v, p + Len(x))

Denotes(x, v, left) ==
    /\ x \in Seq(Symbol)
    /\ \A text \in Seq(Symbol) : \A p : Occurs(text, p, x) => ValueAt(text, p, x, v, left)

LEMMA ValuesAt ==
    ASSUME NEW text, NEW left \in 0 .. MAX_DEPTH, NEW pos \in Positions(text)
    PROVE  /\ Peek(text, pos) \notin DOMAIN Closing => Values(text)[left][pos] = Scalar(text, pos)
           /\ Peek(text, pos) \in DOMAIN Closing /\ text[pos] = Peek(text, pos) /\ left # 0 =>
                Values(text)[left][pos] = Elements(text, pos, Closing[Peek(text, pos)], Values(text)[left - 1])
<1> DEFINE V == Values(text)[left]
           below == Values(text)[left - 1]
<1>1. V = LevelBody(text, left, below)
  BY LevelEquation
<1> HIDE DEF V, below
<1>2. V[pos] = IF Peek(text, pos) \notin DOMAIN Closing THEN Scalar(text, pos)
               ELSE IF left = 0 THEN Err
               ELSE Elements(text, pos, Closing[text[pos]], below)
  BY <1>1, Zenon DEF LevelBody
<1>3. QED
  BY <1>2 DEF V, below

\* What stands for itself.
LEMMA DenotesOne ==
    ASSUME NEW symbol \in Symbol, symbol \notin Whitespace \cup {"]", CloseBrace} \cup DOMAIN Closing, NEW v,
           NEW left \in 0 .. MAX_DEPTH,
           \A text, pos : Peek(text, pos) = symbol => Scalar(text, pos) = Ok(v, pos + 1)
    PROVE  Denotes(<<symbol>>, v, left)
<1> DEFINE x == <<symbol>>
<1>1. x \in Seq(Symbol) /\ Len(x) = 1
  OBVIOUS
<1>2. ASSUME NEW text \in Seq(Symbol), NEW p, Occurs(text, p, x) PROVE ValueAt(text, p, x, v, left)
  <2>1. p \in Positions(text) /\ Peek(text, p) = symbol
    BY <1>2, OccursOne
  <2>2. Scalar(text, p) = Ok(v, p + 1)
    BY <2>1
  <2>3. Values(text)[left][p] = Scalar(text, p)
    BY <2>1, ValuesAt
  <2> HIDE DEF x
  <2>4. QED
    BY <1>1, <2>1, <2>2, <2>3 DEF ValueAt
<1>3. QED
  BY <1>1, <1>2 DEF Denotes

LEMMA DenotesNumber ==
    ASSUME NEW n \in 0 .. U64Max, NEW left \in 0 .. MAX_DEPTH
    PROVE  Denotes(<<Decimal[n]>>, Number(F64(2 * n)), left)
<1> DEFINE symbol == Decimal[n]
<1>1. symbol \in DOMAIN Numerals /\ Numerals[symbol] = 2 * n
  BY DecimalAssumption
<1>2. DOMAIN Parsed = DOMAIN Numerals /\ Parsed[symbol] = F64(2 * n)
  BY <1>1 DEF Parsed
<1> HIDE DEF symbol
<1>3. symbol \in Symbol
  BY <1>1 DEF Symbol
<1>4. symbol \notin Whitespace \cup {"]", CloseBrace} \cup DOMAIN Closing
  <2>1. Whitespace \cup {"]", CloseBrace} \cup DOMAIN Closing \subseteq Marks
    BY ClosingFacts DEF Marks
  <2>2. symbol \notin Marks
    BY <1>1, JsonAssumption
  <2>3. QED
    BY <2>1, <2>2
<1>5. ASSUME NEW text, NEW pos, Peek(text, pos) = symbol
      PROVE  Scalar(text, pos) = Ok(Number(F64(2 * n)), pos + 1)
  <2>1. Scalar(text, pos) = Ok(Number(Parsed[symbol]), pos + 1)
    BY <1>1, <1>2, <1>5, ScalarCases
  <2>2. QED
    BY <1>2, <2>1
<1> DEFINE v == Number(F64(2 * n))
<1>6. \A text, pos : Peek(text, pos) = symbol => Scalar(text, pos) = Ok(v, pos + 1)
  BY <1>5
<1> HIDE DEF v
<1>7. Denotes(<<symbol>>, v, left)
  BY <1>3, <1>4, <1>6, DenotesOne
<1>8. QED
  BY <1>7 DEF symbol, v

LEMMA DenotesFlag ==
    ASSUME NEW left \in 0 .. MAX_DEPTH
    PROVE  Denotes(<<"true">>, Bool(TRUE), left) /\ Denotes(<<"false">>, Bool(FALSE), left)
<1> DEFINE yes == "true"
           no == "false"
           Yes == Bool(TRUE)
           No == Bool(FALSE)
<1>1. {yes, no} \subseteq Symbol /\ yes # no
  BY SymbolFacts DEF Marks, Literals
<1>2. /\ yes \notin Whitespace \cup {"]", CloseBrace} \cup DOMAIN Closing
      /\ no \notin Whitespace \cup {"]", CloseBrace} \cup DOMAIN Closing
  BY SymbolFacts, MarkFacts, ClosingFacts
<1>3. \A text, pos : Peek(text, pos) = yes => Scalar(text, pos) = Ok(Yes, pos + 1)
  <2>1. ASSUME NEW text, NEW pos, Peek(text, pos) = yes PROVE Scalar(text, pos) = Ok(Yes, pos + 1)
    <3>1. Scalar(text, pos) = Ok(Bool(Peek(text, pos) = "true"), pos + 1)
      BY <2>1, ScalarCases
    <3>2. (Peek(text, pos) = "true") = TRUE
      BY <2>1
    <3>3. QED
      BY <3>1, <3>2, Zenon
  <2>2. QED
    BY <2>1
<1>4. \A text, pos : Peek(text, pos) = no => Scalar(text, pos) = Ok(No, pos + 1)
  <2>1. ASSUME NEW text, NEW pos, Peek(text, pos) = no PROVE Scalar(text, pos) = Ok(No, pos + 1)
    <3>1. Scalar(text, pos) = Ok(Bool(Peek(text, pos) = "true"), pos + 1)
      BY <2>1, ScalarCases
    <3>2. (Peek(text, pos) = "true") = FALSE
      BY <1>1, <2>1
    <3>3. QED
      BY <3>1, <3>2, Zenon
  <2>2. QED
    BY <2>1
<1> HIDE DEF yes, no, Yes, No
<1>5. Denotes(<<yes>>, Yes, left)
  BY <1>1, <1>2, <1>3, DenotesOne
<1>6. Denotes(<<no>>, No, left)
  BY <1>1, <1>2, <1>4, DenotesOne
<1>7. QED
  BY <1>5, <1>6, Zenon DEF yes, no, Yes, No

LEMMA DenotesString ==
    ASSUME NEW s \in Seq(Symbol), NEW left \in 0 .. MAX_DEPTH
    PROVE  Denotes(Quoted(s), String(s), left)
<1> DEFINE x == Quoted(s)
           v == String(s)
<1>1. x \in Seq(Symbol)
  BY QuotedType
<1>2. ASSUME NEW text \in Seq(Symbol), NEW p, Occurs(text, p, x) PROVE ValueAt(text, p, x, v, left)
  <2> DEFINE end == p + Len(x)
             one == [value |-> s, pos |-> end]
             F(a) == [value |-> String(a.value), pos |-> a.pos]
  <2>1. p \in Positions(text) /\ Peek(text, p) = Quote
    BY <1>2, QuotedRead
  <2>2. parse_string(text, p) = {one}
    <3>1. parse_string(text, p) = Ok(s, end)
      BY <1>2, QuotedRead
    <3>2. QED
      BY <3>1, Zenon DEF Ok
  <2>3. Quote \notin Whitespace \cup {"]", CloseBrace} \cup DOMAIN Closing
    <3>1. Quote # "["
      BY Zenon DEF Quote
    <3>2. QED
      BY <3>1, SymbolFacts, MarkFacts, ClosingFacts
  <2>4. Values(text)[left][p] = {F(a) : a \in {one}}
    <3>1. Scalar(text, p) = {F(a) : a \in parse_string(text, p)}
      BY <2>1, ScalarCases, Zenon
    <3>2. Values(text)[left][p] = Scalar(text, p)
      BY <2>1, <2>3, ValuesAt
    <3> HIDE DEF F, one
    <3>3. QED
      BY <2>2, <3>1, <3>2
  <2>5. F(one) = [value |-> v, pos |-> end]
    OBVIOUS
  <2> HIDE DEF F, one
  <2>6. Values(text)[left][p] = {F(one)}
    BY <2>4
  <2>7. Values(text)[left][p] = Ok(v, end)
    BY <2>5, <2>6, Zenon DEF Ok
  <2>8. QED
    BY <2>1, <2>3, <2>7 DEF ValueAt
<1>3. QED
  BY <1>1, <1>2 DEF Denotes

-----------------------------------------------------------------------------
(* Arrays and objects. *)

\* The opening mark of what is listed at p.
LEMMA ListedMark ==
    ASSUME NEW text \in Seq(Symbol), NEW p, NEW texts \in Seq(Seq(Symbol)), NEW open \in Symbol, NEW close \in Symbol,
           Occurs(text, p, Listed(texts, open, close))
    PROVE  p \in Positions(text) /\ Peek(text, p) = open /\ text[p] = open
<1> DEFINE F == FlattenSeq(ListedParts(texts))
<1>1. F \in Seq(Symbol) /\ Listed(texts, open, close) = Between(open, F, close)
  BY ListedType, FlattenType
<1> HIDE DEF F
<1>2. BetweenAt(text, p, open, F, close)
  BY <1>1, OccursBetween
<1>3. QED
  BY <1>2, Zenon DEF BetweenAt

\* A value of a listed text, one level further down.
LEMMA DenotesListed ==
    ASSUME NEW open \in {OpenBrace, "["}, NEW close, close = Closing[open], NEW left \in 1 .. MAX_DEPTH,
           NEW texts \in Seq(Seq(Symbol)), NEW V, NEW vals \in Seq(V), Len(vals) = Len(texts),
           \A text \in Seq(Symbol) : ReadsElements(text, texts, vals, close, Values(text)[left - 1])
    PROVE  Denotes(Listed(texts, open, close), Collection(close, vals), left)
<1> DEFINE x == Listed(texts, open, close)
           v == Collection(close, vals)
<1>1. open \in Symbol /\ close \in Symbol /\ close \in {CloseBrace, "]"}
  BY ClosingFacts, SymbolFacts DEF Marks
<1>2. open \in DOMAIN Closing /\ open \notin Whitespace \cup {"]", CloseBrace}
  BY ClosingFacts, SymbolFacts, MarkFacts
<1>3. left \in 0 .. MAX_DEPTH /\ left - 1 \in 0 .. MAX_DEPTH /\ left # 0
  BY JsonAssumption
<1>4. x \in Seq(Symbol)
  BY <1>1, ListedType
<1>5. ASSUME NEW text \in Seq(Symbol), NEW p, Occurs(text, p, x) PROVE ValueAt(text, p, x, v, left)
  <2> DEFINE value == Values(text)[left - 1]
  <2>1. p \in Positions(text) /\ Peek(text, p) = open /\ text[p] = open
    BY <1>1, <1>5, ListedMark
  <2>2. PICK J : \A q \in Positions(text) : Within(value[q], J, q, text)
    BY <1>3, LevelType
  <2>3. ReadsElements(text, texts, vals, close, value)
    OBVIOUS
  <2>4. Values(text)[left][p] = Elements(text, p, Closing[Peek(text, p)], value)
    BY <1>2, <1>3, <2>1, ValuesAt
  <2> HIDE DEF value
  <2>5. Elements(text, p, close, value) = Ok(Collection(close, vals), p + Len(Listed(texts, open, close)))
    <3>1. ListedValue(text, p, texts, open, close, value, vals)
      BY <1>1, <1>5, <2>2, <2>3, ListedRead
    <3>2. QED
      BY <3>1 DEF ListedValue
  <2>6. QED
    BY <1>2, <2>1, <2>4, <2>5 DEF ValueAt
<1>6. QED
  BY <1>4, <1>5 DEF Denotes

LEMMA DenotesArray ==
    ASSUME NEW left \in 1 .. MAX_DEPTH,
           NEW texts \in Seq(Seq(Symbol)), NEW V, NEW vals \in Seq(V), Len(vals) = Len(texts),
           \A i \in 1 .. Len(texts) : Denotes(texts[i], vals[i], left - 1)
    PROVE  Denotes(Listed(texts, "[", "]"), Array(vals), left)
<1> DEFINE open == "["
           close == "]"
<1>1. open \in {OpenBrace, "["} /\ close = Closing[open]
  BY ClosingFacts
<1>2. Array(vals) = Collection(close, vals)
  BY DEF Collection
<1>3. ASSUME NEW text \in Seq(Symbol) PROVE ReadsElements(text, texts, vals, close, Values(text)[left - 1])
  <2> DEFINE value == Values(text)[left - 1]
  <2>1. SUFFICES ASSUME NEW i \in 1 .. Len(texts), NEW q, Occurs(text, q, texts[i])
                 PROVE  ElementAt(text, q, texts[i], vals[i], close, value)
    BY DEF ReadsElements, ReadsElement
  <2>2. ValueAt(text, q, texts[i], vals[i], left - 1)
    BY <2>1 DEF Denotes
  <2>3. Element(text, q, close, value) = value[q]
    BY Zenon DEF Element
  <2>4. QED
    BY <2>2, <2>3 DEF ValueAt, ElementAt
<1> HIDE DEF open, close
<1>4. Denotes(Listed(texts, open, close), Collection(close, vals), left)
  BY <1>1, <1>3, DenotesListed
<1>5. QED
  BY <1>2, <1>4 DEF open, close

\* A member of an object.
PairText(key, x) == Quoted(key) \o <<":", Space>> \o x

LEMMA PairType ==
    ASSUME NEW key \in Seq(Symbol), NEW x \in Seq(Symbol)
    PROVE  PairText(key, x) \in Seq(Symbol)
<1> DEFINE and == <<":", Space>>
           y == Quoted(key)
<1>1. y \in Seq(Symbol) /\ and \in Seq(Symbol)
  <2>1. ":" \in Symbol /\ Space \in Symbol
    BY SymbolFacts DEF Marks, Whitespace
  <2>2. and \in Seq(Symbol)
    BY <2>1
  <2>3. y \in Seq(Symbol)
    BY QuotedType
  <2>4. QED
    BY <2>2, <2>3
<1> HIDE DEF and, y
<1>2. y \o and \o x \in Seq(Symbol)
  BY <1>1
<1>3. QED
  BY <1>2 DEF PairText, and, y

\* Where a member is found.
PairAt(text, q, key, x, colon) ==
    /\ Occurs(text, q, Quoted(key)) /\ colon = q + Len(Quoted(key))
    /\ colon \in Positions(text) /\ Peek(text, colon) = ":"
    /\ colon + 1 \in Positions(text) /\ Peek(text, colon + 1) = Space
    /\ Occurs(text, (colon + 1) + 1, x)
    /\ q + Len(PairText(key, x)) = ((colon + 1) + 1) + Len(x)

LEMMA OccursPair ==
    ASSUME NEW text \in Seq(Symbol), NEW q, NEW key \in Seq(Symbol), NEW x \in Seq(Symbol),
           Occurs(text, q, PairText(key, x))
    PROVE  PairAt(text, q, key, x, q + Len(Quoted(key)))
<1> DEFINE and == <<":", Space>>
           c == <<":">>
           s == <<Space>>
           y == Quoted(key)
           w == y \o and
           z == PairText(key, x)
           colon == q + Len(y)
<1>1. ":" \in Symbol /\ Space \in Symbol
  BY SymbolFacts DEF Marks, Whitespace
<1>2. c \in Seq(Symbol) /\ s \in Seq(Symbol) /\ and \in Seq(Symbol) /\ Len(c) = 1 /\ Len(s) = 1 /\ Len(and) = 2
  BY <1>1
<1>3. Joined(and, c, s)
  BY <1>1, PairJoined
<1>4. y \in Seq(Symbol) /\ Joined(w, y, and) /\ Joined(z, w, x) /\ Occurs(text, q, z)
  BY QuotedType DEF Joined, PairText
<1> HIDE DEF and, s, y, w, z
<1>5. w \in Seq(Symbol) /\ Len(w) = Len(y) + Len(and) /\ Len(y) \in Nat
  <2>1. w \in Seq(Symbol) /\ Lengths(w, y, and)
    BY <1>2, <1>4, JoinedLengths, Zenon
  <2>2. QED
    BY <2>1, Zenon DEF Lengths
<1>6. Occurs(text, q, w)
  BY <1>4, <1>5, OccursSplit
<1>7. Occurs(text, q + Len(w), x)
  BY <1>4, <1>5, OccursSplit
<1>8. Occurs(text, q, y)
  BY <1>2, <1>4, <1>6, OccursSplit
<1>9. Occurs(text, colon, and)
  BY <1>2, <1>4, <1>6, OccursSplit
<1>10. q \in Nat
  BY <1>4 DEF Occurs
<1>11. colon \in Nat /\ q + Len(w) = (colon + 1) + 1
  BY <1>2, <1>5, <1>10
<1>12. q + Len(z) = ((colon + 1) + 1) + Len(x)
  <2>1. Len(z) = Len(w) + Len(x) /\ Len(w) \in Nat /\ Len(x) \in Nat
    <3>1. Lengths(z, w, x)
      BY <1>4, <1>5, JoinedLengths, Zenon
    <3>2. QED
      BY <3>1, Zenon DEF Lengths
  <2> HIDE DEF colon
  <2>2. QED
    BY <1>10, <1>11, <2>1
<1>13. Occurs(text, (colon + 1) + 1, x)
  BY <1>7, <1>11
<1> HIDE DEF colon
<1>14. colon \in Positions(text) /\ Peek(text, colon) = ":"
  BY <1>1, <1>2, <1>3, <1>9, OccursCons
<1>15. Occurs(text, colon + 1, s)
  BY <1>1, <1>2, <1>3, <1>9, OccursCons
<1> DEFINE r == colon + 1
<1>16. Occurs(text, r, <<Space>>)
  BY <1>15 DEF s
<1> HIDE DEF r, c
<1>17. r \in Positions(text) /\ Peek(text, r) = Space
  BY <1>1, <1>16, OccursOne
<1>18. PairAt(text, q, key, x, colon)
  BY <1>8, <1>12, <1>13, <1>14, <1>17 DEF PairAt, r, colon, y, z
<1>19. QED
  BY <1>18 DEF colon, y

LEMMA PairElement ==
    ASSUME NEW text \in Seq(Symbol), NEW q, NEW key \in Seq(Symbol), NEW x, NEW v, NEW left,
           Denotes(x, v, left), Occurs(text, q, PairText(key, x))
    PROVE  ElementAt(text, q, PairText(key, x), <<key, v>>, CloseBrace, Values(text)[left])
<1> DEFINE value == Values(text)[left]
           colon == q + Len(Quoted(key))
           at == (colon + 1) + 1
           end == at + Len(x)
           k == [value |-> key, pos |-> colon]
           one == [value |-> v, pos |-> end]
           G(a) == Member(text, a.value, skip_ws(text, a.pos), value)
           F(a) == [value |-> <<key, a.value>>, pos |-> a.pos]
<1>1. x \in Seq(Symbol)
  BY DEF Denotes
<1>2. PairAt(text, q, key, x, colon)
  BY <1>1, OccursPair
<1>3. /\ Occurs(text, q, Quoted(key)) /\ Occurs(text, at, x)
      /\ colon \in Positions(text) /\ Peek(text, colon) = ":"
      /\ colon + 1 \in Positions(text) /\ Peek(text, colon + 1) = Space
      /\ q + Len(PairText(key, x)) = end
  BY <1>2, Zenon DEF PairAt
<1>4. Peek(text, q) = Quote
  BY <1>3, QuotedRead
<1>5. parse_string(text, q) = {k}
  <2>1. parse_string(text, q) = Ok(key, colon)
    BY <1>3, QuotedRead
  <2>2. QED
    BY <2>1, Zenon DEF Ok
<1>6. ValueAt(text, at, x, v, left)
  BY <1>3 DEF Denotes
<1>7. value[at] = {one} /\ Peek(text, at) \notin Whitespace
  BY <1>6, Zenon DEF ValueAt, Ok
<1>8. k.value = key /\ k.pos = colon
  OBVIOUS
<1>9. F(one) = [value |-> <<key, v>>, pos |-> end]
  OBVIOUS
<1> HIDE DEF colon, value, one, k, end
<1>10. skip_ws(text, colon) = colon
  BY <1>3, SymbolFacts, SkipNone
<1>11. skip_ws(text, colon + 1) = at
  BY <1>3, <1>7, SkipOne
<1> HIDE DEF at
<1>12. G(k) = Member(text, key, colon, value)
  BY <1>8, <1>10
<1>13. Member(text, key, colon, value) = {F(a) : a \in value[at]}
  BY <1>3, <1>11, Zenon DEF Member
<1>14. Element(text, q, CloseBrace, value) = UNION {G(a) : a \in {k}}
  <2>1. CloseBrace # "]"
    BY ClosingFacts
  <2>2. QED
    BY <1>5, <2>1, Zenon DEF Element
<1> HIDE DEF F, G
<1>15. Member(text, key, colon, value) = {F(one)}
  BY <1>7, <1>13
<1>16. Element(text, q, CloseBrace, value) = G(k)
  BY <1>14
<1>17. Element(text, q, CloseBrace, value) = Ok(<<key, v>>, end)
  BY <1>9, <1>12, <1>15, <1>16, Zenon DEF Ok
<1>18. Quote \notin Whitespace \cup {CloseBrace}
  BY SymbolFacts, MarkFacts
<1>19. QED
  BY <1>3, <1>4, <1>17, <1>18, Zenon DEF ElementAt, value

LEMMA DenotesObject ==
    ASSUME NEW left \in 1 .. MAX_DEPTH, NEW keys \in Seq(Seq(Symbol)),
           NEW texts \in Seq(Seq(Symbol)), NEW V, NEW vals \in Seq(V),
           Len(texts) = Len(keys), Len(vals) = Len(keys),
           \A i \in 1 .. Len(keys) : Denotes(texts[i], vals[i], left - 1)
    PROVE  Denotes(Listed([i \in 1 .. Len(keys) |-> PairText(keys[i], texts[i])], OpenBrace, CloseBrace),
                   Object([i \in 1 .. Len(keys) |-> <<keys[i], vals[i]>>]), left)
<1> DEFINE N == Len(keys)
           pairs == [i \in 1 .. N |-> PairText(keys[i], texts[i])]
           members == [i \in 1 .. N |-> <<keys[i], vals[i]>>]
           W == Seq(Symbol) \X V
<1>1. N \in Nat /\ \A i \in 1 .. N : keys[i] \in Seq(Symbol) /\ texts[i] \in Seq(Symbol) /\ vals[i] \in V
  OBVIOUS
<1> HIDE DEF N
<1>2. pairs \in Seq(Seq(Symbol)) /\ Len(pairs) = N /\ \A i \in 1 .. N : pairs[i] = PairText(keys[i], texts[i])
  <2>1. \A i \in 1 .. N : PairText(keys[i], texts[i]) \in Seq(Symbol)
    BY <1>1, PairType
  <2>2. QED
    BY <1>1, <2>1
<1>3. members \in Seq(W) /\ Len(members) = N /\ \A i \in 1 .. N : members[i] = <<keys[i], vals[i]>>
  BY <1>1
<1> HIDE DEF pairs, members, W
<1>4. OpenBrace \in {OpenBrace, "["} /\ CloseBrace = Closing[OpenBrace] /\ CloseBrace # "]"
  BY ClosingFacts
<1>5. Object(members) = Collection(CloseBrace, members)
  BY <1>4, Zenon DEF Collection
<1>6. ASSUME NEW text \in Seq(Symbol) PROVE ReadsElements(text, pairs, members, CloseBrace, Values(text)[left - 1])
  <2> DEFINE value == Values(text)[left - 1]
             below == left - 1
  <2>1. SUFFICES ASSUME NEW i \in 1 .. N, NEW q, Occurs(text, q, pairs[i])
                 PROVE  ElementAt(text, q, pairs[i], members[i], CloseBrace, value)
    BY <1>2 DEF ReadsElements, ReadsElement
  <2> DEFINE key == keys[i]
             x == texts[i]
             v == vals[i]
  <2>2. /\ key \in Seq(Symbol) /\ Denotes(x, v, below) /\ Occurs(text, q, PairText(key, x))
        /\ pairs[i] = PairText(key, x) /\ members[i] = <<key, v>>
    BY <1>1, <1>2, <1>3, <2>1 DEF N
  <2> HIDE DEF key, x, v, below
  <2>3. ElementAt(text, q, PairText(key, x), <<key, v>>, CloseBrace, Values(text)[below])
    BY <2>2, PairElement
  <2>4. QED
    BY <2>2, <2>3, Zenon DEF below
<1>7. Denotes(Listed(pairs, OpenBrace, CloseBrace), Collection(CloseBrace, members), left)
  BY <1>2, <1>3, <1>4, <1>6, DenotesListed
<1>8. QED
  BY <1>5, <1>7 DEF pairs, members, N

\* A text that denotes a value is parsed as that.
LEMMA DenotesParse ==
    ASSUME NEW x, NEW v, Denotes(x, v, MAX_DEPTH)
    PROVE  parse(x) = {v}
<1> DEFINE one == [value |-> v, pos |-> 1 + Len(x)]
<1>1. x \in Seq(Symbol) /\ Len(x) \in Nat
  BY DEF Denotes
<1>2. Occurs(x, 1, x)
  BY <1>1 DEF Occurs
<1>3. ValueAt(x, 1, x, v, MAX_DEPTH)
  BY <1>1, <1>2 DEF Denotes
<1>4. Values(x)[MAX_DEPTH][1] = {one} /\ Peek(x, 1) \notin Whitespace
  BY <1>3, Zenon DEF ValueAt, Ok
<1>5. 1 \in Positions(x) /\ Len(x) + 1 \in Positions(x)
  BY <1>1 DEF Positions
<1>6. skip_ws(x, 1) = 1
  BY <1>1, <1>4, <1>5, SkipNone
<1>7. MAX_DEPTH - 0 = MAX_DEPTH
  BY JsonAssumption
<1>8. parse_value(x, skip_ws(x, 1), 0) = {one}
  BY <1>4, <1>6, <1>7, Zenon DEF parse_value
<1>9. skip_ws(x, Len(x) + 1) = Len(x) + 1
  <2>1. Peek(x, Len(x) + 1) \notin Whitespace
    BY <1>1, PositionFacts, SymbolFacts
  <2>2. QED
    BY <1>1, <1>5, <2>1, SkipNone
<1>10. one.value = v /\ one.pos = Len(x) + 1
  BY <1>1
<1> HIDE DEF one
<1>11. skip_ws(x, one.pos) = Len(x) + 1
  BY <1>9, <1>10
<1>12. parse(x) = {w.value : w \in {u \in {one} : skip_ws(x, u.pos) = Len(x) + 1}}
  BY <1>8, Zenon DEF parse
<1>13. {u \in {one} : skip_ws(x, u.pos) = Len(x) + 1} = {one}
  BY <1>11
<1>14. parse(x) = {w.value : w \in {one}}
  BY <1>12, <1>13
<1>15. QED
  BY <1>10, <1>14

-----------------------------------------------------------------------------
(* The values that the text of a configuration denotes. *)

ValueTree(kind, value) ==
    CASE kind = "bool"           -> Bool(value)
      [] kind \in {"u64", "u16"} -> Number(F64(2 * value))
      [] kind = "string"         -> String(value)
      [] kind = "strings"        -> Array([i \in DOMAIN value |-> String(value[i])])
      [] kind = "map"            -> Object([i \in DOMAIN value |-> <<value[i][1], String(value[i][2])>>])

LEMMA ValueCases ==
    ASSUME NEW value
    PROVE  /\ ValueText("bool", value) = <<IF value THEN "true" ELSE "false">>
           /\ ValueText("u64", value) = <<Decimal[value]>> /\ ValueText("u16", value) = <<Decimal[value]>>
           /\ ValueText("string", value) = Quoted(value)
           /\ ValueText("strings", value) = Listed([i \in DOMAIN value |-> Quoted(value[i])], "[", "]")
           /\ ValueText("map", value) =
                Listed([i \in DOMAIN value |-> PairText(value[i][1], Quoted(value[i][2]))], OpenBrace, CloseBrace)
           /\ ValueTree("u64", value) = Number(F64(2 * value)) /\ ValueTree("u16", value) = Number(F64(2 * value))
           /\ ValueTree("bool", value) = Bool(value) /\ ValueTree("string", value) = String(value)
           /\ ValueTree("strings", value) = Array([i \in DOMAIN value |-> String(value[i])])
           /\ ValueTree("map", value) = Object([i \in DOMAIN value |-> <<value[i][1], String(value[i][2])>>])
<1>1. ValueText("bool", value) = <<IF value THEN "true" ELSE "false">>
  BY Zenon DEF ValueText
<1>2. ValueText("u64", value) = <<Decimal[value]>> /\ ValueText("u16", value) = <<Decimal[value]>>
  BY Zenon DEF ValueText
<1>3. ValueText("string", value) = Quoted(value)
  BY Zenon DEF ValueText
<1>4. ValueText("strings", value) = Listed([i \in DOMAIN value |-> Quoted(value[i])], "[", "]")
  BY Zenon DEF ValueText
<1>5. ValueText("map", value) =
        Listed([i \in DOMAIN value |-> PairText(value[i][1], Quoted(value[i][2]))], OpenBrace, CloseBrace)
  BY Zenon DEF ValueText, PairText
<1>6. ValueTree("u64", value) = Number(F64(2 * value)) /\ ValueTree("u16", value) = Number(F64(2 * value))
  BY Zenon DEF ValueTree
<1>7. ValueTree("bool", value) = Bool(value) /\ ValueTree("string", value) = String(value)
  BY Zenon DEF ValueTree
<1>8. ValueTree("strings", value) = Array([i \in DOMAIN value |-> String(value[i])])
  BY Zenon DEF ValueTree
<1>9. ValueTree("map", value) = Object([i \in DOMAIN value |-> <<value[i][1], String(value[i][2])>>])
  BY Zenon DEF ValueTree
<1>10. QED
  BY <1>1, <1>2, <1>3, <1>4, <1>5, <1>6, <1>7, <1>8, <1>9

LEMMA StringsDenote ==
    ASSUME NEW value \in Seq(Seq(Symbol)), NEW left \in 1 .. MAX_DEPTH
    PROVE  Denotes(Listed([i \in DOMAIN value |-> Quoted(value[i])], "[", "]"),
                   Array([i \in DOMAIN value |-> String(value[i])]), left)
<1> DEFINE N == Len(value)
           texts == [i \in 1 .. N |-> Quoted(value[i])]
           vals == [i \in 1 .. N |-> String(value[i])]
           V == {String(value[i]) : i \in 1 .. N}
<1>1. N \in Nat /\ DOMAIN value = 1 .. N /\ \A i \in 1 .. N : value[i] \in Seq(Symbol)
  OBVIOUS
<1> HIDE DEF N
<1>2. texts \in Seq(Seq(Symbol)) /\ Len(texts) = N /\ \A i \in 1 .. N : texts[i] = Quoted(value[i])
  <2>1. texts \in [1 .. N -> Seq(Symbol)] /\ \A i \in 1 .. N : texts[i] = Quoted(value[i])
    BY <1>1, QuotedType
  <2> HIDE DEF texts
  <2>2. QED
    BY <1>1, <2>1, TupleType, Zenon
<1>3. vals \in Seq(V) /\ Len(vals) = N /\ \A i \in 1 .. N : vals[i] = String(value[i])
  <2>1. vals \in [1 .. N -> V] /\ \A i \in 1 .. N : vals[i] = String(value[i])
    OBVIOUS
  <2> HIDE DEF V, vals
  <2>2. QED
    BY <1>1, <2>1, TupleType, Zenon
<1> HIDE DEF texts, vals, V
<1>4. left - 1 \in 0 .. MAX_DEPTH
  BY JsonAssumption
<1>5. \A i \in 1 .. Len(texts) : Denotes(texts[i], vals[i], left - 1)
  BY <1>1, <1>2, <1>3, <1>4, DenotesString
<1>6. Denotes(Listed(texts, "[", "]"), Array(vals), left)
  BY <1>2, <1>3, <1>5, DenotesArray
<1>7. QED
  BY <1>1, <1>6, Zenon DEF texts, vals

LEMMA MapDenotes ==
    ASSUME NEW value \in Seq(Seq(Symbol) \X Seq(Symbol)), NEW left \in 1 .. MAX_DEPTH
    PROVE  Denotes(Listed([i \in DOMAIN value |-> PairText(value[i][1], Quoted(value[i][2]))], OpenBrace, CloseBrace),
                   Object([i \in DOMAIN value |-> <<value[i][1], String(value[i][2])>>]), left)
<1> DEFINE N == Len(value)
           keys == [i \in 1 .. N |-> value[i][1]]
           texts == [i \in 1 .. N |-> Quoted(value[i][2])]
           vals == [i \in 1 .. N |-> String(value[i][2])]
           V == {String(value[i][2]) : i \in 1 .. N}
<1>1. N \in Nat /\ DOMAIN value = 1 .. N /\ \A i \in 1 .. N : value[i][1] \in Seq(Symbol) /\ value[i][2] \in Seq(Symbol)
  OBVIOUS
<1> HIDE DEF N
<1>2. texts \in Seq(Seq(Symbol)) /\ Len(texts) = N /\ \A i \in 1 .. N : texts[i] = Quoted(value[i][2])
  <2>1. texts \in [1 .. N -> Seq(Symbol)] /\ \A i \in 1 .. N : texts[i] = Quoted(value[i][2])
    BY <1>1, QuotedType
  <2> HIDE DEF texts
  <2>2. QED
    BY <1>1, <2>1, TupleType, Zenon
<1>3. vals \in Seq(V) /\ Len(vals) = N /\ \A i \in 1 .. N : vals[i] = String(value[i][2])
  <2>1. vals \in [1 .. N -> V] /\ \A i \in 1 .. N : vals[i] = String(value[i][2])
    OBVIOUS
  <2> HIDE DEF V, vals
  <2>2. QED
    BY <1>1, <2>1, TupleType, Zenon
<1>4. keys \in Seq(Seq(Symbol)) /\ Len(keys) = N /\ \A i \in 1 .. N : keys[i] = value[i][1]
  <2>1. \A i \in 1 .. N : keys[i] = value[i][1]
    OBVIOUS
  <2>2. keys \in [1 .. N -> Seq(Symbol)]
    BY <1>1
  <2> HIDE DEF keys
  <2>3. keys \in Seq(Seq(Symbol)) /\ Len(keys) = N
    BY <1>1, <2>2, TupleType, Zenon
  <2>4. QED
    BY <2>1, <2>3, Zenon
<1> HIDE DEF texts, vals, V, keys
<1>5. left - 1 \in 0 .. MAX_DEPTH
  BY JsonAssumption
<1>6. \A i \in 1 .. Len(keys) : Denotes(texts[i], vals[i], left - 1)
  BY <1>1, <1>2, <1>3, <1>4, <1>5, DenotesString
<1>7. Denotes(Listed([i \in 1 .. Len(keys) |-> PairText(keys[i], texts[i])], OpenBrace, CloseBrace),
              Object([i \in 1 .. Len(keys) |-> <<keys[i], vals[i]>>]), left)
  <2>1. Len(texts) = Len(keys) /\ Len(vals) = Len(keys)
    BY <1>2, <1>3, <1>4, Zenon
  <2>2. QED
    BY <1>2, <1>3, <1>4, <1>6, <2>1, DenotesObject, Zenon
<1>8. /\ [i \in 1 .. Len(keys) |-> PairText(keys[i], texts[i])] =
           [i \in DOMAIN value |-> PairText(value[i][1], Quoted(value[i][2]))]
      /\ [i \in 1 .. Len(keys) |-> <<keys[i], vals[i]>>] =
           [i \in DOMAIN value |-> <<value[i][1], String(value[i][2])>>]
  BY <1>1, <1>2, <1>3, <1>4
<1>9. QED
  BY <1>7, <1>8

LEMMA ValueDenotes ==
    ASSUME NEW kind \in Kinds, NEW value \in ValuesOf[kind], NEW left \in 0 .. MAX_DEPTH,
           left # 0 \/ kind \in {"bool", "u64"}
    PROVE  Denotes(ValueText(kind, value), ValueTree(kind, value), left)
<1>1. CASE kind = "bool"
  <2>1. value \in BOOLEAN
    BY <1>1, ValuesOfFacts
  <2>2. CASE value = TRUE
    <3>1. ValueText("bool", value) = <<"true">> /\ ValueTree("bool", value) = Bool(TRUE)
      BY <2>2, ValueCases, Zenon
    <3>2. Denotes(<<"true">>, Bool(TRUE), left)
      BY DenotesFlag
    <3>3. QED
      BY <1>1, <3>1, <3>2, Zenon
  <2>3. CASE value = FALSE
    <3>1. ValueText("bool", value) = <<"false">> /\ ValueTree("bool", value) = Bool(FALSE)
      BY <2>3, ValueCases, Zenon
    <3>2. Denotes(<<"false">>, Bool(FALSE), left)
      BY DenotesFlag
    <3>3. QED
      BY <1>1, <3>1, <3>2, Zenon
  <2>4. QED
    BY <2>1, <2>2, <2>3
<1>2. CASE kind \in {"u64", "u16"}
  <2>1. value \in 0 .. U64Max
    BY <1>2, ValuesOfFacts DEF Counts
  <2>2. ValueText(kind, value) = <<Decimal[value]>> /\ ValueTree(kind, value) = Number(F64(2 * value))
    BY <1>2, ValueCases
  <2>3. QED
    BY <2>1, <2>2, DenotesNumber
<1>3. CASE kind = "string"
  <2>1. value \in Seq(Symbol)
    BY <1>3, ValuesOfFacts
  <2>2. QED
    BY <1>3, <2>1, ValueCases, DenotesString
<1>4. CASE kind = "strings"
  <2>1. value \in Seq(Seq(Symbol)) /\ left \in 1 .. MAX_DEPTH
    BY <1>4, ValuesOfFacts, JsonAssumption
  <2>2. QED
    BY <1>4, <2>1, ValueCases, StringsDenote
<1>5. CASE kind = "map"
  <2>1. value \in Seq(Seq(Symbol) \X Seq(Symbol)) /\ left \in 1 .. MAX_DEPTH
    BY <1>5, ValuesOfFacts, JsonAssumption
  <2>2. QED
    BY <1>5, <2>1, ValueCases, MapDenotes
<1>6. QED
  BY <1>1, <1>2, <1>3, <1>4, <1>5 DEF Kinds

\* And what is read back from them.
LEMMA ValueReadBack ==
    ASSUME NEW kind \in Kinds, NEW value \in ValuesOf[kind]
    PROVE  ReadAs(kind, ValueTree(kind, value)) = {value}
<1>1. CASE kind = "bool"
  <2> DEFINE json == Bool(value)
  <2>1. json.kind = "bool" /\ json.value = value
    BY Zenon DEF Bool
  <2> HIDE DEF json
  <2>2. ReadAs("bool", json) = {value}
    BY <2>1, ReadAsCases, Zenon
  <2>3. ValueTree("bool", value) = json
    BY ValueCases, Zenon DEF json
  <2>4. QED
    BY <1>1, <2>2, <2>3, Zenon
<1>2. CASE kind = "u64"
  <2>1. as_u64(Number(F64(2 * value))) = {value}
    BY <1>2, ValuesOfFacts DEF Counts
  <2>2. QED
    BY <1>2, <2>1, ReadAsCases, ValueCases, Zenon
<1>3. CASE kind = "u16"
  <2>1. as_u64(Number(F64(2 * value))) = {value} /\ value <= U16Max
    BY <1>3, ValuesOfFacts DEF Counts
  <2> DEFINE json == Number(F64(2 * value))
  <2>2. ReadAs(kind, ValueTree(kind, value)) = {n \in as_u64(json) : n <= U16Max}
    BY <1>3, ReadAsCases, ValueCases, Zenon
  <2> HIDE DEF json
  <2>3. QED
    BY <2>1, <2>2 DEF json
<1>4. CASE kind = "string"
  <2> DEFINE json == String(value)
  <2>1. json.kind = "string" /\ json.value = value
    BY Zenon DEF String
  <2> HIDE DEF json
  <2>2. ReadAs("string", json) = {value}
    BY <2>1, ReadAsCases, Zenon
  <2>3. ValueTree("string", value) = json
    BY ValueCases, Zenon DEF json
  <2>4. QED
    BY <1>4, <2>2, <2>3, Zenon
<1>5. CASE kind = "strings"
  <2> DEFINE items == [i \in DOMAIN value |-> String(value[i])]
             json == Array(items)
  <2>1. value \in Seq(Seq(Symbol))
    BY <1>5, ValuesOfFacts
  <2>2. json.kind = "array" /\ json.value = items
    BY Zenon DEF Array
  <2>3. DOMAIN items = DOMAIN value /\ \A i \in DOMAIN value : items[i].kind = "string" /\ items[i].value = value[i]
    BY DEF String
  <2>4. value = [i \in DOMAIN value |-> value[i]]
    BY <2>1
  <2> HIDE DEF items, json
  <2>5. ReadAs("strings", json) = {[i \in DOMAIN json.value |-> json.value[i].value]}
    <3>1. json.kind = "array" /\ \A i \in DOMAIN json.value : json.value[i].kind = "string"
      BY <2>2, <2>3
    <3>2. QED
      BY <3>1, ReadAsCases
  <2>6. [i \in DOMAIN json.value |-> json.value[i].value] = [i \in DOMAIN value |-> value[i]]
    BY <2>2, <2>3
  <2>7. ValueTree("strings", value) = json
    BY ValueCases, Zenon DEF json, items
  <2>8. QED
    BY <1>5, <2>4, <2>5, <2>6, <2>7, Zenon
<1>6. CASE kind = "map"
  <2> DEFINE items == [i \in DOMAIN value |-> <<value[i][1], String(value[i][2])>>]
             json == Object(items)
  <2>1. value \in Seq(Seq(Symbol) \X Seq(Symbol))
    BY <1>6, ValuesOfFacts
  <2>2. json.kind = "object" /\ json.value = items
    BY Zenon DEF Object
  <2>3. DOMAIN items = DOMAIN value
        /\ \A i \in DOMAIN value : /\ items[i][1] = value[i][1] /\ items[i][2].kind = "string"
                                   /\ items[i][2].value = value[i][2]
    BY DEF String
  <2>4. value = [i \in DOMAIN value |-> <<value[i][1], value[i][2]>>]
    BY <2>1
  <2> HIDE DEF items, json
  <2>5. ReadAs("map", json) = {[i \in DOMAIN json.value |-> <<json.value[i][1], json.value[i][2].value>>]}
    <3>1. json.kind = "object" /\ \A i \in DOMAIN json.value : json.value[i][2].kind = "string"
      BY <2>2, <2>3
    <3>2. QED
      BY <3>1, ReadAsCases
  <2>6. [i \in DOMAIN json.value |-> <<json.value[i][1], json.value[i][2].value>>]
          = [i \in DOMAIN value |-> <<value[i][1], value[i][2]>>]
    BY <2>2, <2>3
  <2>7. ValueTree("map", value) = json
    BY ValueCases, Zenon DEF json, items
  <2>8. QED
    BY <1>6, <2>4, <2>5, <2>6, <2>7, Zenon
<1>7. QED
  BY <1>1, <1>2, <1>3, <1>4, <1>5, <1>6 DEF Kinds

-----------------------------------------------------------------------------
(* Sections. *)

\* The text and the value of the member at a path.
MemberText(c, path, inner) == IF path \in DOMAIN inner THEN inner[path] ELSE ValueText(Schema[path].kind, c[path])

MemberTree(c, path, inner) == IF path \in DOMAIN inner THEN inner[path] ELSE ValueTree(Schema[path].kind, c[path])

SectionTree(c, section, inner) ==
    Object([i \in DOMAIN Layout[section] |->
              <<<<Layout[section][i][1]>>, MemberTree(c, Append(section, Layout[section][i][1]), inner)>>])

LEMMA LayoutLengths ==
    ASSUME NEW section \in DOMAIN Layout
    PROVE  Len(Layout[section]) \in Nat /\ DOMAIN Layout[section] = 1 .. Len(Layout[section])
<1> DEFINE Fine(s) == Len(Layout[s]) \in Nat /\ DOMAIN Layout[s] = 1 .. Len(Layout[s])
<1>1. Fine(<<>>)
  BY RootMembers
<1>2. Fine(<<"server">>)
  BY ServerMembers
<1>3. Fine(<<"static">>)
  BY StaticMembers
<1>4. Fine(<<"compression">>)
  BY CompressionMembers
<1>5. Fine(<<"security">>)
  BY SecurityMembers
<1>6. Fine(<<"security", "rate_limit">>)
  BY RateLimitMembers
<1>7. Fine(<<"tls">>)
  BY TlsMembers
<1>8. Fine(<<"admin">>)
  BY AdminMembers
<1>9. Fine(<<"logging">>)
  BY LoggingMembers
<1> HIDE DEF Fine
<1>10. Fine(section)
  BY <1>1, <1>2, <1>3, <1>4, <1>5, <1>6, <1>7, <1>8, <1>9, Sections
<1>11. QED
  BY <1>10 DEF Fine

LEMMA SectionDenotes ==
    ASSUME NEW section \in DOMAIN Layout, NEW c, NEW left \in 1 .. MAX_DEPTH, NEW inner, NEW trees,
           \A i \in DOMAIN Layout[section] :
              LET path == Append(section, Layout[section][i][1])
              IN  Denotes(MemberText(c, path, inner), MemberTree(c, path, trees), left - 1)
    PROVE  Denotes(SectionText(c, section, inner), SectionTree(c, section, trees), left)
<1> DEFINE N == Len(Layout[section])
           key(i) == Layout[section][i][1]
           path(i) == Append(section, key(i))
           keys == [i \in 1 .. N |-> <<key(i)>>]
           texts == [i \in 1 .. N |-> MemberText(c, path(i), inner)]
           vals == [i \in 1 .. N |-> MemberTree(c, path(i), trees)]
           V == {MemberTree(c, path(i), trees) : i \in 1 .. N}
<1>1. N \in Nat /\ DOMAIN Layout[section] = 1 .. N
  BY LayoutLengths
<1>2. \A i \in 1 .. N : Denotes(MemberText(c, path(i), inner), MemberTree(c, path(i), trees), left - 1)
  BY <1>1
<1>3. \A i \in 1 .. N : <<key(i)>> \in Seq(Symbol)
  <2>1. \A i \in 1 .. N : key(i) \in Symbol
    BY <1>1, LayoutAssumption DEF Symbol
  <2> HIDE DEF key, N
  <2>2. QED
    BY <2>1
<1>4. SectionText(c, section, inner) =
        Listed([i \in 1 .. N |-> PairText(<<key(i)>>, MemberText(c, path(i), inner))], OpenBrace, CloseBrace)
  <2>1. SectionText(c, section, inner) =
          Listed([i \in DOMAIN Layout[section] |-> PairText(<<key(i)>>, MemberText(c, path(i), inner))], OpenBrace, CloseBrace)
    BY Zenon DEF SectionText, PairText, MemberText
  <2>2. QED
    BY <1>1, <2>1, Zenon
<1>5. SectionTree(c, section, trees) = Object([i \in 1 .. N |-> <<<<key(i)>>, MemberTree(c, path(i), trees)>>])
  BY <1>1, Zenon DEF SectionTree
<1> HIDE DEF N, key, path
<1>6. keys \in Seq(Seq(Symbol)) /\ Len(keys) = N /\ \A i \in 1 .. N : keys[i] = <<key(i)>>
  BY <1>1, <1>3
<1>7. texts \in Seq(Seq(Symbol)) /\ Len(texts) = N /\ \A i \in 1 .. N : texts[i] = MemberText(c, path(i), inner)
  <2>1. \A i \in 1 .. N : MemberText(c, path(i), inner) \in Seq(Symbol)
    BY <1>2 DEF Denotes
  <2>2. QED
    BY <1>1, <2>1
<1>8. vals \in Seq(V) /\ Len(vals) = N /\ \A i \in 1 .. N : vals[i] = MemberTree(c, path(i), trees)
  <2>1. \A i \in 1 .. N : MemberTree(c, path(i), trees) \in V
    OBVIOUS
  <2> HIDE DEF V
  <2>2. QED
    BY <1>1, <2>1
<1> HIDE DEF keys, texts, vals, V
<1>9. \A i \in 1 .. Len(keys) : Denotes(texts[i], vals[i], left - 1)
  BY <1>2, <1>6, <1>7, <1>8
<1>10. Denotes(Listed([i \in 1 .. Len(keys) |-> PairText(keys[i], texts[i])], OpenBrace, CloseBrace),
               Object([i \in 1 .. Len(keys) |-> <<keys[i], vals[i]>>]), left)
  BY <1>6, <1>7, <1>8, <1>9, DenotesObject
<1>11. /\ [i \in 1 .. Len(keys) |-> PairText(keys[i], texts[i])] =
            [i \in 1 .. N |-> PairText(<<key(i)>>, MemberText(c, path(i), inner))]
       /\ [i \in 1 .. Len(keys) |-> <<keys[i], vals[i]>>] =
            [i \in 1 .. N |-> <<<<key(i)>>, MemberTree(c, path(i), trees)>>]
  BY <1>6, <1>7, <1>8
<1>12. QED
  BY <1>4, <1>5, <1>10, <1>11

LEMMA MemberPaths ==
    ASSUME NEW section \in DOMAIN Layout, NEW i \in DOMAIN Layout[section]
    PROVE  /\ Layout[section][i][2].kind = "section" => Append(section, Layout[section][i][1]) \in DOMAIN Layout
           /\ Layout[section][i][2].kind # "section" => /\ Append(section, Layout[section][i][1]) \in DOMAIN Schema
                                                        /\ Append(section, Layout[section][i][1]) \notin DOMAIN Layout
<1> DEFINE path == Append(section, Layout[section][i][1])
           field == Layout[section][i][2]
<1>1. MemberFits(section, Layout[section][i])
  BY MembersFit
<1>2. field.kind # "section" => <<path, field>> \in Entries
  BY EntryFacts
<1>3. <<path, field>>[1] = path
  OBVIOUS
<1> HIDE DEF path, field
<1>4. field.kind # "section" => path \in DOMAIN Schema
  <2>1. SUFFICES ASSUME field.kind # "section" PROVE path \in DOMAIN Schema
    OBVIOUS
  <2>2. <<path, field>> \in Entries
    BY <1>2, <2>1
  <2>3. QED
    BY <1>3, <2>2, SchemaFacts
<1>5. /\ field.kind = "section" => path \in DOMAIN Layout
      /\ field.kind # "section" => path \notin DOMAIN Layout
  BY <1>1, Zenon DEF MemberFits, path, field
<1>6. QED
  BY <1>4, <1>5 DEF path, field

LEMMA FieldDenotes ==
    ASSUME NEW c, IsConfiguration(c), NEW path \in DOMAIN Schema, NEW inner, NEW trees,
           path \notin DOMAIN inner, path \notin DOMAIN trees, NEW left \in 0 .. MAX_DEPTH,
           left # 0 \/ Schema[path].kind \in {"bool", "u64"}
    PROVE  Denotes(MemberText(c, path, inner), MemberTree(c, path, trees), left)
<1>1. /\ MemberText(c, path, inner) = ValueText(Schema[path].kind, c[path])
      /\ MemberTree(c, path, trees) = ValueTree(Schema[path].kind, c[path])
  BY Zenon DEF MemberText, MemberTree
<1>2. Schema[path].kind \in Kinds /\ c[path] \in ValuesOf[Schema[path].kind]
  BY SchemaType DEF IsConfiguration
<1>3. QED
  BY <1>1, <1>2, ValueDenotes

Limits == <<"security", "rate_limit">>
LimitsText(c) == [path \in {Limits} |-> SectionText(c, path, <<>>)]
LimitsTree(c) == [path \in {Limits} |-> SectionTree(c, path, <<>>)]
Nested == {section \in DOMAIN Layout : Len(section) = 1}
NestedText(c) == [path \in Nested |-> SectionText(c, path, LimitsText(c))]
NestedTree(c) == [path \in Nested |-> SectionTree(c, path, LimitsTree(c))]
Tree(c) == SectionTree(c, <<>>, NestedTree(c))

LEMMA LimitsDenote ==
    ASSUME NEW c, IsConfiguration(c)
    PROVE  Denotes(SectionText(c, Limits, <<>>), SectionTree(c, Limits, <<>>), MAX_DEPTH - 2)
<1>1. Limits \in DOMAIN Layout
  BY Sections DEF Limits
<1>2. MAX_DEPTH - 2 \in 1 .. MAX_DEPTH /\ MAX_DEPTH - 2 - 1 \in 0 .. MAX_DEPTH
  BY JsonAssumption, DepthAssumption
<1>3. /\ DOMAIN Layout[Limits] = 1 .. 4
      /\ \A i \in 1 .. 4 : \A j \in 1 .. 4 : Layout[Limits][j][1] = Layout[Limits][i][1] => j = i
      /\ \A i \in 1 .. 4 : Layout[Limits][i][2] \in {On, Count(Preset)}
  BY RateLimitMembers DEF Limits
<1>4. On.kind = "bool" /\ Count(Preset).kind = "u64"
  BY DEF On, Count
<1>5. DOMAIN <<>> = {}
  OBVIOUS
<1> DEFINE none == <<>>
<1>6. DOMAIN none = {}
  OBVIOUS
<1> HIDE DEF none
<1>7. ASSUME NEW i \in DOMAIN Layout[Limits]
      PROVE  LET path == Append(Limits, Layout[Limits][i][1])
             IN  Denotes(MemberText(c, path, none), MemberTree(c, path, none), MAX_DEPTH - 2 - 1)
  <2> DEFINE path == Append(Limits, Layout[Limits][i][1])
  <2>1. Layout[Limits][i][2].kind \in {"bool", "u64"}
    BY <1>3, <1>4
  <2>2. path \in DOMAIN Schema /\ Schema[path] = Layout[Limits][i][2]
    BY <1>1, <1>3, <2>1, SchemaAt
  <2> HIDE DEF path
  <2>3. Denotes(MemberText(c, path, none), MemberTree(c, path, none), MAX_DEPTH - 2 - 1)
    BY <1>2, <1>6, <2>1, <2>2, FieldDenotes
  <2>4. QED
    BY <2>3 DEF path
<1>8. Denotes(SectionText(c, Limits, none), SectionTree(c, Limits, none), MAX_DEPTH - 2)
  BY <1>1, <1>2, <1>7, SectionDenotes
<1>9. QED
  BY <1>8 DEF none

LEMMA NestedDenote ==
    ASSUME NEW c, IsConfiguration(c), NEW section \in Nested
    PROVE  Denotes(SectionText(c, section, LimitsText(c)), SectionTree(c, section, LimitsTree(c)), MAX_DEPTH - 1)
<1>1. section \in DOMAIN Layout /\ \E s : section = <<s>>
  BY Sections DEF Nested
<1>2. MAX_DEPTH - 1 \in 1 .. MAX_DEPTH /\ MAX_DEPTH - 1 - 1 = MAX_DEPTH - 2 /\ MAX_DEPTH - 2 \in 0 .. MAX_DEPTH
      /\ MAX_DEPTH - 2 # 0
  BY JsonAssumption, DepthAssumption
<1> DEFINE inner == LimitsText(c)
           trees == LimitsTree(c)
<1>3. /\ DOMAIN inner = {Limits} /\ inner[Limits] = SectionText(c, Limits, <<>>)
      /\ DOMAIN trees = {Limits} /\ trees[Limits] = SectionTree(c, Limits, <<>>)
  BY DEF LimitsText, LimitsTree
<1>4. Limits \in DOMAIN Layout
  BY Sections DEF Limits
<1> HIDE DEF inner, trees
<1>5. ASSUME NEW i \in DOMAIN Layout[section]
      PROVE  LET path == Append(section, Layout[section][i][1])
             IN  Denotes(MemberText(c, path, inner), MemberTree(c, path, trees), MAX_DEPTH - 1 - 1)
  <2> DEFINE key == Layout[section][i][1]
             path == Append(section, key)
  <2>1. CASE path = Limits
    <3>1. MemberText(c, path, inner) = SectionText(c, Limits, <<>>)
      BY <1>3, <2>1, Zenon DEF MemberText
    <3>2. MemberTree(c, path, trees) = SectionTree(c, Limits, <<>>)
      BY <1>3, <2>1, Zenon DEF MemberTree
    <3> HIDE DEF path
    <3>3. Denotes(MemberText(c, path, inner), MemberTree(c, path, trees), MAX_DEPTH - 1 - 1)
      BY <1>2, <3>1, <3>2, LimitsDenote
    <3>4. QED
      BY <3>3 DEF path
  <2>2. CASE path # Limits
    <3>1. path \notin DOMAIN Layout
      <4>1. PICK s : section = <<s>>
        BY <1>1
      <4>2. Append(<<s>>, key) \in DOMAIN Layout => s = "security" /\ key = "rate_limit"
        BY NestedPaths, Zenon
      <4>3. s = "security" /\ key = "rate_limit" => Append(<<s>>, key) = Limits
        BY AppendShort, Zenon DEF Limits
      <4> HIDE DEF key
      <4>4. QED
        BY <2>2, <4>1, <4>2, <4>3
    <3>2. path \in DOMAIN Schema
      BY <1>1, <3>1, MemberPaths
    <3> HIDE DEF path
    <3>3. Denotes(MemberText(c, path, inner), MemberTree(c, path, trees), MAX_DEPTH - 1 - 1)
      BY <1>2, <1>3, <2>2, <3>2, FieldDenotes
    <3>4. QED
      BY <3>3 DEF path
  <2>3. QED
    BY <2>1, <2>2
<1>6. Denotes(SectionText(c, section, inner), SectionTree(c, section, trees), MAX_DEPTH - 1)
  BY <1>1, <1>2, <1>5, SectionDenotes
<1>7. QED
  BY <1>6 DEF inner, trees

\* The text of a configuration denotes its tree.
LEMMA TreeDenotes ==
    ASSUME NEW c, IsConfiguration(c)
    PROVE  Denotes(to_json_string(c), Tree(c), MAX_DEPTH)
<1> DEFINE inner == NestedText(c)
           trees == NestedTree(c)
           top == <<>>
<1>1. to_json_string(c) = SectionText(c, top, inner)
  BY Zenon DEF to_json_string, NestedText, LimitsText, Nested, Limits
<1>2. DOMAIN inner = Nested /\ DOMAIN trees = Nested
      /\ \A path \in Nested : /\ inner[path] = SectionText(c, path, LimitsText(c))
                              /\ trees[path] = SectionTree(c, path, LimitsTree(c))
  BY DEF NestedText, NestedTree
<1>3. top \in DOMAIN Layout
  BY Sections
<1>4. MAX_DEPTH \in 1 .. MAX_DEPTH /\ MAX_DEPTH - 1 \in 0 .. MAX_DEPTH /\ MAX_DEPTH - 1 # 0
  BY JsonAssumption, DepthAssumption
<1>5. \A key : Append(top, key) = <<key>>
  BY AppendShort, Zenon
<1>6. Tree(c) = SectionTree(c, top, trees)
  BY DEF Tree
<1> HIDE DEF inner, trees, top
<1>7. ASSUME NEW i \in DOMAIN Layout[top]
      PROVE  LET path == Append(top, Layout[top][i][1])
             IN  Denotes(MemberText(c, path, inner), MemberTree(c, path, trees), MAX_DEPTH - 1)
  <2> DEFINE path == Append(top, Layout[top][i][1])
  <2>1. CASE path \in Nested
    <3>1. MemberText(c, path, inner) = SectionText(c, path, LimitsText(c))
      BY <1>2, <2>1, Zenon DEF MemberText
    <3>2. MemberTree(c, path, trees) = SectionTree(c, path, LimitsTree(c))
      BY <1>2, <2>1, Zenon DEF MemberTree
    <3> HIDE DEF path
    <3>3. Denotes(MemberText(c, path, inner), MemberTree(c, path, trees), MAX_DEPTH - 1)
      BY <2>1, <3>1, <3>2, NestedDenote
    <3>4. QED
      BY <3>3 DEF path
  <2>2. CASE path \notin Nested
    <3>1. path \notin DOMAIN Layout
      <4>1. path = <<Layout[top][i][1]>>
        BY <1>5
      <4>2. Len(path) = 1
        BY <4>1
      <4> HIDE DEF path
      <4>3. QED
        BY <2>2, <4>2 DEF Nested
    <3>2. path \in DOMAIN Schema
      BY <1>3, <3>1, MemberPaths
    <3> HIDE DEF path
    <3>3. Denotes(MemberText(c, path, inner), MemberTree(c, path, trees), MAX_DEPTH - 1)
      BY <1>2, <1>4, <2>2, <3>2, FieldDenotes
    <3>4. QED
      BY <3>3 DEF path
  <2>3. QED
    BY <2>1, <2>2
<1>8. Denotes(SectionText(c, top, inner), SectionTree(c, top, trees), MAX_DEPTH)
  BY <1>3, <1>4, <1>7, SectionDenotes
<1>9. QED
  BY <1>1, <1>6, <1>8

-----------------------------------------------------------------------------
(* Fields are found where they were written. *)

\* A key is found once, and what is found is the member of that path.
LEMMA TreeGet ==
    ASSUME NEW c, NEW section \in DOMAIN Layout, NEW inner, NEW i \in DOMAIN Layout[section]
    PROVE  LET key == Layout[section][i][1]
           IN  Get(SectionTree(c, section, inner), <<key>>) = {MemberTree(c, Append(section, key), inner)}
<1> DEFINE N == Len(Layout[section])
           name(j) == Layout[section][j][1]
           tree(key) == MemberTree(c, Append(section, key), inner)
           members == [j \in DOMAIN Layout[section] |-> <<<<name(j)>>, tree(name(j))>>]
           json == SectionTree(c, section, inner)
           key == name(i)
           found == {j \in DOMAIN members : members[j][1] = <<key>>}
           first == {j \in found : \A k \in found : j <= k}
           Firsts(m, k) == {m[j][2] : j \in {l \in {h \in DOMAIN m : m[h][1] = k} :
                                               \A g \in {h \in DOMAIN m : m[h][1] = k} : l <= g}}
<1>1. N \in Nat /\ DOMAIN Layout[section] = 1 .. N /\ i \in 1 .. N
  BY LayoutLengths
<1>2. json = Object(members)
  BY Zenon DEF SectionTree
<1> HIDE DEF json, members, Firsts
<1>3. json.kind = "object" /\ json.value = members
  BY <1>2, Zenon DEF Object
<1>4. Get(json, <<key>>) = {members[j][2] : j \in first}
  <2>1. Get(json, <<key>>) = Firsts(IF json.kind = "object" THEN json.value ELSE <<>>, <<key>>)
    BY Zenon DEF Get, Firsts
  <2>2. (IF json.kind = "object" THEN json.value ELSE <<>>) = members
    BY <1>3
  <2>3. Get(json, <<key>>) = Firsts(members, <<key>>)
    BY <2>1, <2>2, Zenon
  <2>4. Firsts(members, <<key>>) = {members[j][2] : j \in first}
    BY Zenon DEF Firsts
  <2>5. QED
    BY <2>3, <2>4, Zenon
<1> HIDE DEF tree, name
<1>5. DOMAIN members = 1 .. N /\ \A j \in 1 .. N : members[j][1] = <<name(j)>> /\ members[j][2] = tree(name(j))
  BY <1>1 DEF members
<1> HIDE DEF N
<1>6. found \subseteq 1 .. N /\ i \in found
  BY <1>1, <1>5
<1>7. \A j \in found : members[j][2] = tree(key)
  <2>1. SUFFICES ASSUME NEW j \in found PROVE members[j][2] = tree(key)
    OBVIOUS
  <2>2. <<name(j)>> = <<key>> /\ j \in 1 .. N
    BY <1>5, <1>6
  <2>3. name(j) = key
    BY <2>2
  <2>4. QED
    BY <1>5, <2>2, <2>3
<1>8. \E j \in first : TRUE
  <2> HIDE DEF found
  <2>1. found \subseteq Nat
    BY <1>6
  <2>2. PICK j \in found : \A k \in found : j <= k
    BY <1>6, <2>1, Least
  <2>3. QED
    BY <2>2
<1>9. first \subseteq found
  OBVIOUS
<1> HIDE DEF first, found, key
<1>10. {members[j][2] : j \in first} = {tree(key)}
  BY <1>7, <1>8, <1>9
<1>11. QED
  BY <1>4, <1>10 DEF json, tree, key, name

TreeAt(c, root, section, inner) == At(root, section) = {SectionTree(c, section, inner)}
FoundAt(c, root, path, inner) == At(root, path) = {MemberTree(c, path, inner)}

LEMMA AtMember ==
    ASSUME NEW c, NEW root, NEW section \in DOMAIN Layout, NEW inner, NEW i \in DOMAIN Layout[section],
           TreeAt(c, root, section, inner), NEW path, path = Append(section, Layout[section][i][1])
    PROVE  FoundAt(c, root, path, inner)
<1> DEFINE key == Layout[section][i][1]
           S == SectionNames \cup {key}
           json == SectionTree(c, section, inner)
<1>1. section \in Seq(S) /\ key \in S
  BY SectionPaths
<1>2. Get(json, <<key>>) = {MemberTree(c, Append(section, key), inner)}
  BY TreeGet
<1>3. At(root, section) = {json}
  BY DEF TreeAt
<1> HIDE DEF S, json, key
<1>4. At(root, Append(section, key)) = UNION {Get(j, <<key>>) : j \in At(root, section)}
  BY <1>1, AtAppend
<1>5. At(root, Append(section, key)) = Get(json, <<key>>)
  BY <1>3, <1>4
<1>6. QED
  BY <1>2, <1>5 DEF key, FoundAt

LEMMA SectionAt ==
    ASSUME NEW c, NEW section \in DOMAIN Layout
    PROVE  \E inner : DOMAIN inner \subseteq DOMAIN Layout /\ At(Tree(c), section) = {SectionTree(c, section, inner)}
<1> DEFINE top == <<>>
           sections == NestedTree(c)
           limits == LimitsTree(c)
           none == <<>>
<1>1. /\ DOMAIN sections = Nested /\ DOMAIN limits = {Limits} /\ DOMAIN none = {}
      /\ \A path \in Nested : sections[path] = SectionTree(c, path, limits)
      /\ limits[Limits] = SectionTree(c, Limits, none)
  BY DEF NestedTree, LimitsTree
<1>2. top \in DOMAIN Layout /\ Limits \in DOMAIN Layout /\ Nested \subseteq DOMAIN Layout
  BY Sections DEF Limits, Nested
<1>3. At(Tree(c), top) = {SectionTree(c, top, sections)}
  BY AtRoot, Zenon DEF Tree
<1>4. \A key : Append(top, key) = <<key>>
  BY AppendShort, Zenon
<1>5. \A s : (\E i \in DOMAIN Layout[top] : Layout[top][i][1] = s) /\ <<s>> \in Nested
               => At(Tree(c), <<s>>) = {SectionTree(c, <<s>>, limits)}
  <2> HIDE DEF top, sections, limits, none
  <2>1. SUFFICES ASSUME NEW s, NEW i \in DOMAIN Layout[top], Layout[top][i][1] = s, <<s>> \in Nested
                 PROVE  At(Tree(c), <<s>>) = {SectionTree(c, <<s>>, limits)}
    OBVIOUS
  <2> DEFINE path == Append(top, Layout[top][i][1])
  <2>3. path = <<s>>
    BY <1>4, <2>1
  <2>7. path = Append(top, Layout[top][i][1])
    OBVIOUS
  <2> HIDE DEF path
  <2>8. TreeAt(c, Tree(c), top, sections)
    BY <1>3 DEF TreeAt
  <2>9. FoundAt(c, Tree(c), path, sections)
    BY <1>2, <2>7, <2>8, AtMember
  <2>2. At(Tree(c), path) = {MemberTree(c, path, sections)}
    BY <2>9 DEF FoundAt
  <2>4. path \in Nested
    BY <2>1, <2>3
  <2>5. MemberTree(c, path, sections) = SectionTree(c, path, limits)
    BY <1>1, <2>4, Zenon DEF MemberTree
  <2>6. QED
    BY <2>2, <2>3, <2>5
<1>6. ASSUME NEW s \in {"server", "static", "compression", "security", "tls", "admin", "logging"}
      PROVE  (\E i \in DOMAIN Layout[top] : Layout[top][i][1] = s) /\ <<s>> \in Nested
  <2>1. /\ Layout[<<>>][1][1] = "server" /\ Layout[<<>>][2][1] = "static" /\ Layout[<<>>][3][1] = "compression"
        /\ Layout[<<>>][4][1] = "security" /\ Layout[<<>>][5][1] = "tls" /\ Layout[<<>>][6][1] = "admin"
        /\ Layout[<<>>][7][1] = "logging" /\ DOMAIN Layout[<<>>] = 1 .. 8
    BY RootMembers
  <2>2. \E i \in 1 .. 8 : Layout[<<>>][i][1] = s
    <3>1. 1 \in 1 .. 8 /\ 2 \in 1 .. 8 /\ 3 \in 1 .. 8 /\ 4 \in 1 .. 8 /\ 5 \in 1 .. 8 /\ 6 \in 1 .. 8 /\ 7 \in 1 .. 8
      OBVIOUS
    <3>2. QED
      BY <2>1, <3>1, Zenon
  <2>3. Len(<<s>>) = 1 /\ <<s>> \in DOMAIN Layout
    BY Sections
  <2>4. QED
    BY <2>1, <2>2, <2>3 DEF Nested
<1> HIDE DEF top, sections, limits, none
<1>7. \A s \in {"server", "static", "compression", "security", "tls", "admin", "logging"} :
         At(Tree(c), <<s>>) = {SectionTree(c, <<s>>, limits)}
  BY <1>5, <1>6
<1>8. At(Tree(c), Limits) = {SectionTree(c, Limits, none)}
  <2> DEFINE upper == <<"security">>
             path == Append(upper, Layout[upper][2][1])
  <2>1. upper \in DOMAIN Layout /\ 2 \in DOMAIN Layout[upper] /\ Layout[upper][2][1] = "rate_limit"
    BY Sections, SecurityMembers
  <2>2. At(Tree(c), upper) = {SectionTree(c, upper, limits)}
    BY <1>7
  <2>3. Append(<<"security">>, "rate_limit") = Limits
    BY AppendShort, Zenon DEF Limits
  <2>4. path = Limits
    BY <2>1, <2>3
  <2> HIDE DEF upper
  <2>8. path = Append(upper, Layout[upper][2][1])
    OBVIOUS
  <2> HIDE DEF path
  <2>9. TreeAt(c, Tree(c), upper, limits)
    BY <2>2 DEF TreeAt
  <2>10. FoundAt(c, Tree(c), path, limits)
    BY <2>1, <2>8, <2>9, AtMember
  <2>5. At(Tree(c), path) = {MemberTree(c, path, limits)}
    BY <2>10 DEF FoundAt
  <2>6. MemberTree(c, path, limits) = SectionTree(c, Limits, none)
    BY <1>1, <2>4, Zenon DEF MemberTree
  <2>7. QED
    BY <2>4, <2>5, <2>6
<1>9. CASE section = top
  BY <1>1, <1>2, <1>3, <1>9
<1>10. CASE section = Limits
  BY <1>1, <1>8, <1>10
<1>11. CASE section # top /\ section # Limits
  <2>1. \E s \in {"server", "static", "compression", "security", "tls", "admin", "logging"} : section = <<s>>
    BY <1>11, Sections DEF top, Limits
  <2>2. At(Tree(c), section) = {SectionTree(c, section, limits)}
    BY <1>7, <2>1
  <2>3. QED
    BY <1>1, <1>2, <2>2
<1>12. QED
  BY <1>9, <1>10, <1>11

\* What was written is read.
LEMMA TreeFields ==
    ASSUME NEW c, IsConfiguration(c)
    PROVE  Fields(Tree(c)) = {c}
<1> DEFINE root == Tree(c)
           read == [path \in DOMAIN Schema |-> Field(root, path)]
<1>1. root.kind = "object"
  BY Zenon DEF Tree, SectionTree, Object
<1>2. ASSUME NEW path \in DOMAIN Schema PROVE Field(root, path) = {c[path]}
  <2>1. /\ Schema[path].kind \in Kinds /\ c[path] \in ValuesOf[Schema[path].kind] /\ path \notin DOMAIN Layout
    BY SchemaType DEF IsConfiguration
  <2>2. PICK section \in DOMAIN Layout : \E i \in DOMAIN Layout[section] : path = Append(section, Layout[section][i][1])
    BY SchemaType
  <2>3. PICK i \in DOMAIN Layout[section] : path = Append(section, Layout[section][i][1])
    BY <2>2
  <2>4. PICK inner : DOMAIN inner \subseteq DOMAIN Layout /\ At(root, section) = {SectionTree(c, section, inner)}
    BY SectionAt
  <2> HIDE DEF root
  <2>11. TreeAt(c, root, section, inner)
    BY <2>4 DEF TreeAt
  <2>12. FoundAt(c, root, path, inner)
    BY <2>3, <2>11, AtMember
  <2>5. At(root, path) = {MemberTree(c, path, inner)}
    BY <2>12 DEF FoundAt
  <2> DEFINE kind == Schema[path].kind
             json == ValueTree(kind, c[path])
  <2>6. MemberTree(c, path, inner) = json
    <3>1. path \notin DOMAIN inner
      BY <2>1, <2>4
    <3>2. QED
      BY <3>1, Zenon DEF MemberTree
  <2>7. ReadAs(kind, json) = {c[path]}
    BY <2>1, ValueReadBack
  <2> HIDE DEF json, kind
  <2>8. At(root, path) = {json}
    BY <2>5, <2>6
  <2>9. Field(root, path) = UNION {ReadAs(kind, j) : j \in At(root, path)}
    <3>1. At(root, path) # {}
      BY <2>8
    <3>2. QED
      BY <3>1, Zenon DEF Field, kind
  <2>10. QED
    BY <2>7, <2>8, <2>9
<1> HIDE DEF root
<1>3. DOMAIN read = DOMAIN Schema /\ \A path \in DOMAIN Schema : read[path] = {c[path]}
  BY <1>2
<1>4. Fields(root) = IF root.kind = "object" /\ \A path \in DOMAIN read : read[path] # {}
                     THEN {[path \in DOMAIN read |-> CHOOSE value \in read[path] : TRUE]} ELSE {}
  BY DEF Fields
<1> HIDE DEF read
<1>5. \A path \in DOMAIN Schema : (CHOOSE value \in read[path] : TRUE) = c[path]
  BY <1>3
<1>6. [path \in DOMAIN read |-> CHOOSE value \in read[path] : TRUE] = [path \in DOMAIN Schema |-> c[path]]
  BY <1>3, <1>5
<1>7. c = [path \in DOMAIN Schema |-> c[path]]
  BY Zenon DEF IsConfiguration
<1>8. root.kind = "object" /\ \A path \in DOMAIN read : read[path] # {}
  BY <1>1, <1>3 DEF root
<1>9. Fields(root) = {c}
  BY <1>4, <1>6, <1>7, <1>8
<1>10. QED
  BY <1>9 DEF root

\* What to_json_string writes, from_json_str reads back as the configuration
\* that was written.
THEOREM WrittenIsRead ==
    ASSUME NEW c, IsConfiguration(c), validate(c)
    PROVE  to_json_string(c) \in Seq(Symbol) /\ from_json_str(to_json_string(c)) = {c}
<1> DEFINE text == to_json_string(c)
           tree == Tree(c)
<1>1. Denotes(text, tree, MAX_DEPTH)
  BY TreeDenotes
<1>2. Fields(tree) = {c}
  BY TreeFields
<1> HIDE DEF text, tree
<1>3. parse(text) = {tree}
  BY <1>1, DenotesParse
<1>4. from_json(tree) = {c}
  BY <1>2 DEF from_json
<1>5. from_json_str(text) = UNION {from_json(root) : root \in parse(text)}
  BY Zenon DEF from_json_str
<1>6. from_json_str(text) = {c}
  BY <1>3, <1>4, <1>5
<1>7. text \in Seq(Symbol)
  BY <1>1 DEF Denotes
<1>8. QED
  BY <1>6, <1>7 DEF text

-----------------------------------------------------------------------------
(* The life of a configuration. *)

\* A configuration that a server may run with.
Sound(c) == IsConfiguration(c) /\ validate(c)

\* The file holds what the server wrote: a configuration, the one in force if
\* the server runs.
AsWritten(c) == Sound(c) /\ file = FileOf(to_json_string(c)) /\ (up => config = c)

\* The inductive invariant.
Inv ==
    /\ up \in BOOLEAN /\ fatal \in BOOLEAN /\ own \in BOOLEAN /\ repassed \in BOOLEAN
    /\ Sound(config) /\ Sound(boot)
    /\ up => ~fatal
    /\ file.text \in Seq(Symbol)
    /\ listed \subseteq DOMAIN Schema
    /\ RestartIsAnnounced
    /\ own => \E c : AsWritten(c)

LEMMA PasswordPath ==
    /\ <<"admin", "password_sha256">>[1] = "admin"
    /\ <<"admin", "password_sha256">> \notin
         {<<"server", "port">>, <<"server", "bind">>, <<"static", "root">>, <<"tls", "enabled">>,
          <<"tls", "cert_path">>, <<"tls", "key_path">>, <<"logging", "level">>,
          <<"server", "worker_threads">>}
OBVIOUS

\* The configuration after change_password.
WithPassword(c) == [c EXCEPT ![<<"admin", "password_sha256">>] = NewHash]

\* A new password leaves a sound configuration sound.
LEMMA PasswordSound ==
    ASSUME NEW c, Sound(c)
    PROVE  /\ Sound(WithPassword(c))
           /\ WithPassword(c)[<<"admin", "password_sha256">>] = NewHash
           /\ \A path \in DOMAIN Schema :
                path # <<"admin", "password_sha256">> => WithPassword(c)[path] = c[path]
<1> DEFINE secret == <<"admin", "password_sha256">>
           new == WithPassword(c)
<1>1. /\ c = [path \in DOMAIN Schema |-> c[path]]
      /\ \A path \in DOMAIN Schema : c[path] \in ValuesOf[Schema[path].kind]
  BY DEF Sound, IsConfiguration
<1>2. secret \in DOMAIN Schema /\ NewHash \in ValuesOf[Schema[secret].kind]
  BY SchemaPaths, ValuesOfFacts, DocumentAssumption DEF Text
<1>3. new = [path \in DOMAIN Schema |-> IF path = secret THEN NewHash ELSE c[path]]
  BY <1>1, Zenon DEF WithPassword
<1>4. new[secret] = NewHash
  BY <1>2, <1>3
<1> HIDE DEF secret
<1>5. \A path \in DOMAIN Schema : path # secret => new[path] = c[path]
  BY <1>3
<1> HIDE DEF new
<1>6. new = [path \in DOMAIN Schema |-> new[path]]
  BY <1>3
<1>7. IsConfiguration(new)
  BY <1>1, <1>2, <1>4, <1>5, <1>6 DEF IsConfiguration
<1> USE DEF secret
<1>8. ASSUME NEW path \in {<<"server", "port">>, <<"server", "bind">>, <<"static", "root">>, <<"tls", "enabled">>,
                          <<"tls", "cert_path">>, <<"tls", "key_path">>, <<"logging", "level">>}
      PROVE  new[path] = c[path]
  BY <1>5, SchemaPaths, PasswordPath
<1>9. validate(new)
  BY <1>8 DEF Sound, validate
<1>10. QED
  BY <1>4, <1>5, <1>7, <1>9 DEF Sound, new

\* The settings that a change of the configuration announces.
Watched(path) ==
    path[1] = "tls" \/ path \in {<<"server", "bind">>, <<"server", "port">>, <<"server", "worker_threads">>}

LEMMA Announced ==
    ASSUME NEW old, NEW new
    PROVE  /\ restart_required_fields(old, new) \subseteq DOMAIN Schema
           /\ \A path \in DOMAIN Schema :
                Watched(path) /\ old[path] # new[path] => path \in restart_required_fields(old, new)
BY SchemaPaths DEF restart_required_fields, Watched

\* What a start loads is sound, and is what the server wrote if nobody
\* touched the file.
LEMMA LoadedSound ==
    ASSUME file.text \in Seq(Symbol), NEW loaded \in Usable
    PROVE  /\ Sound(loaded)
           /\ \A c : Sound(c) /\ file = FileOf(to_json_string(c)) => loaded = c
<1>1. loaded \in load_config
  BY DEF Usable
<1>2. Sound(loaded)
  <2>1. CASE file.there
    <3>1. loaded \in from_json_str(file.text)
      BY <1>1, <2>1 DEF load_config
    <3>2. QED
      BY <3>1, FromJsonType DEF Sound
  <2>2. CASE ~file.there
    <3>1. loaded = Default
      BY <1>1, <2>2 DEF load_config
    <3>2. QED
      BY <3>1, DefaultFits DEF Sound
  <2>3. QED
    BY <2>1, <2>2
<1>3. ASSUME NEW c, Sound(c), file = FileOf(to_json_string(c)) PROVE loaded = c
  <2>1. file.there = TRUE /\ file.text = to_json_string(c)
    BY <1>3, Zenon DEF FileOf
  <2>2. from_json_str(to_json_string(c)) = {c}
    BY <1>3, WrittenIsRead DEF Sound
  <2>3. load_config = from_json_str(file.text)
    BY <2>1, Zenon DEF load_config
  <2>4. QED
    BY <1>1, <2>1, <2>2, <2>3
<1>4. QED
  BY <1>2, <1>3

\* The end of both admin requests.
LEMMA ReplaceSound ==
    ASSUME NEW new, Sound(new), Replace(new), up
    PROVE  /\ Sound(config') /\ file'.text \in Seq(Symbol)
           /\ \E c : AsWritten(c)'
           /\ config' = new /\ boot' = boot /\ up' = up /\ fatal' = fatal /\ own' = TRUE
<1>1. config' = new /\ boot' = boot /\ up' = up /\ fatal' = fatal /\ own' = TRUE
      /\ file' = FileOf(to_json_string(new))
  BY DEF Replace
<1>2. to_json_string(new) \in Seq(Symbol)
  BY WrittenIsRead DEF Sound
<1>3. file'.text = to_json_string(new)
  BY <1>1, Zenon DEF FileOf
<1>4. Sound(config)'
  BY <1>1, Zenon DEF Sound, IsConfiguration, validate
<1>5. AsWritten(new)'
  BY <1>1, Zenon DEF AsWritten, Sound, IsConfiguration, validate
<1>6. QED
  BY <1>1, <1>2, <1>3, <1>4, <1>5

LEMMA InvInit == Init => Inv
<1> SUFFICES ASSUME Init PROVE Inv
  OBVIOUS
<1>1. Sound(config) /\ Sound(boot)
  BY DefaultFits DEF Init, Sound
<1>2. file.text \in Seq(Symbol)
  <2>1. file.text = <<>>
    BY Zenon DEF Init, NoFile
  <2>2. QED
    BY <2>1, Defaults
<1>3. up = FALSE /\ fatal = FALSE /\ own = FALSE /\ repassed = FALSE /\ listed = {}
  BY DEF Init
<1>4. RestartIsAnnounced
  BY <1>3 DEF RestartIsAnnounced
<1>5. QED
  BY <1>1, <1>2, <1>3, <1>4 DEF Inv

LEMMA InvStep == Inv /\ [Next]_vars => Inv'
<1> SUFFICES ASSUME Inv, [Next]_vars PROVE Inv'
  OBVIOUS
<1>1. CASE \E document \in Documents : Edit(document)
  <2>1. PICK document \in Documents : Edit(document)
    BY <1>1
  <2>2. /\ ~up /\ file' = FileOf(document.text) /\ own' = FALSE
        /\ up' = up /\ config' = config /\ boot' = boot /\ fatal' = fatal
        /\ repassed' = repassed /\ listed' = listed
    BY <2>1 DEF Edit, process
  <2>3. file'.text \in Seq(Symbol)
    <3>1. file'.text = document.text
      BY <2>2, Zenon DEF FileOf
    <3>2. QED
      BY <3>1, DocumentAssumption
  <2>4. QED
    BY <2>2, <2>3, Zenon DEF Inv, Sound, IsConfiguration, validate, RestartIsAnnounced
<1>2. CASE Delete
  <2>1. /\ ~up /\ file' = NoFile /\ own' = FALSE
        /\ up' = up /\ config' = config /\ boot' = boot /\ fatal' = fatal
        /\ repassed' = repassed /\ listed' = listed
    BY <1>2 DEF Delete, process
  <2>2. file'.text \in Seq(Symbol)
    <3>1. file'.text = <<>>
      BY <2>1, Zenon DEF NoFile
    <3>2. QED
      BY <3>1, Defaults
  <2>3. QED
    BY <2>1, <2>2, Zenon DEF Inv, Sound, IsConfiguration, validate, RestartIsAnnounced
<1>3. CASE Start
  <2>1. ~up /\ file' = file /\ own' = own /\ listed' = {}
    BY <1>3 DEF Start
  <2>2. CASE \E loaded \in Usable : /\ config' = loaded /\ boot' = loaded
                                    /\ up' = TRUE /\ fatal' = FALSE
                                    /\ repassed' = (own /\ repassed)
    <3>1. PICK loaded \in Usable : /\ config' = loaded /\ boot' = loaded
                                   /\ up' = TRUE /\ fatal' = FALSE
                                   /\ repassed' = (own /\ repassed)
      BY <2>2
    <3>2. file.text \in Seq(Symbol)
      BY DEF Inv
    <3>3. Sound(loaded) /\ \A c : Sound(c) /\ file = FileOf(to_json_string(c)) => loaded = c
      BY <3>2, LoadedSound
    <3>4. Sound(config)' /\ Sound(boot)'
      BY <3>1, <3>3, Zenon DEF Sound, IsConfiguration, validate
    <3>5. own' => \E c : AsWritten(c)'
      <4> SUFFICES ASSUME own' PROVE \E c : AsWritten(c)'
        OBVIOUS
      <4>1. own
        BY <2>1
      <4>2. PICK c : AsWritten(c)
        BY <4>1, Zenon DEF Inv
      <4>3. Sound(c) /\ file = FileOf(to_json_string(c)) /\ loaded = c
        BY <3>3, <4>2 DEF AsWritten
      <4>4. AsWritten(c)'
        BY <2>1, <3>1, <4>3, Zenon DEF AsWritten, Sound, IsConfiguration, validate
      <4>5. QED
        BY <4>4
    <3>6. RestartIsAnnounced'
      BY <3>1 DEF RestartIsAnnounced
    <3>7. /\ up' \in BOOLEAN /\ fatal' \in BOOLEAN /\ own' \in BOOLEAN /\ repassed' \in BOOLEAN
          /\ (up' => ~fatal') /\ file'.text \in Seq(Symbol) /\ listed' \subseteq DOMAIN Schema
      BY <2>1, <3>1, <3>2, Zenon DEF Inv
    <3>8. QED
      BY <3>4, <3>5, <3>6, <3>7, Zenon DEF Inv
  <2>3. CASE fatal' = TRUE /\ up' = up /\ config' = config /\ boot' = boot /\ repassed' = repassed
    <3>1. up' = FALSE
      BY <2>1, <2>3, Zenon DEF Inv
    <3>2. Sound(config)' /\ Sound(boot)'
      BY <2>3, Zenon DEF Inv, Sound, IsConfiguration, validate
    <3>3. own' => \E c : AsWritten(c)'
      BY <2>1, <2>3, Zenon DEF Inv, AsWritten
    <3>4. RestartIsAnnounced'
      BY <3>1, Zenon DEF RestartIsAnnounced
    <3>5. /\ up' \in BOOLEAN /\ fatal' \in BOOLEAN /\ own' \in BOOLEAN /\ repassed' \in BOOLEAN
          /\ (up' => ~fatal') /\ file'.text \in Seq(Symbol) /\ listed' \subseteq DOMAIN Schema
      BY <2>1, <2>3, <3>1, Zenon DEF Inv
    <3>6. QED
      BY <3>2, <3>3, <3>4, <3>5, Zenon DEF Inv
  <2>4. QED
    BY <1>3, <2>2, <2>3, Zenon DEF Start
<1>4. CASE \E document \in Documents : put_config(document)
  <2>1. PICK document \in Documents : put_config(document)
    BY <1>4
  <2>2. PICK new \in from_json_str(document.text) :
           Replace(new) /\ listed' = listed \cup restart_required_fields(config, new)
    BY <2>1 DEF put_config
  <2>3. up /\ repassed' = FALSE
    BY <2>1 DEF put_config, PanelOpen
  <2>4. Sound(new)
    BY <2>2, FromJsonType, DocumentAssumption DEF Sound
  <2>5. /\ Sound(config') /\ file'.text \in Seq(Symbol)
        /\ \E c : AsWritten(c)'
        /\ config' = new /\ boot' = boot /\ up' = up /\ fatal' = fatal /\ own' = TRUE
    BY <2>2, <2>3, <2>4, ReplaceSound
  <2>6. Sound(boot)'
    BY <2>5, Zenon DEF Inv, Sound, IsConfiguration, validate
  <2>7. /\ restart_required_fields(config, new) \subseteq DOMAIN Schema
        /\ \A path \in DOMAIN Schema :
             Watched(path) /\ config[path] # new[path] => path \in restart_required_fields(config, new)
    BY Announced
  <2>8. \A path \in DOMAIN Schema : Watched(path) /\ config[path] # boot[path] => path \in listed
    BY <2>3 DEF Inv, RestartIsAnnounced, Watched
  <2>9. \A path \in DOMAIN Schema : Watched(path) /\ config'[path] # boot'[path] => path \in listed'
    BY <2>2, <2>5, <2>7, <2>8
  <2>10. RestartIsAnnounced'
    BY <2>9 DEF RestartIsAnnounced, Watched
  <2>11. listed' \subseteq DOMAIN Schema
    BY <2>2, <2>7 DEF Inv
  <2>12. /\ up' \in BOOLEAN /\ fatal' \in BOOLEAN /\ own' \in BOOLEAN /\ repassed' \in BOOLEAN
         /\ (up' => ~fatal')
    BY <2>3, <2>5, Zenon DEF Inv
  <2>13. QED
    BY <2>5, <2>6, <2>10, <2>11, <2>12, Zenon DEF Inv
<1>5. CASE change_password
  <2>1. up /\ repassed' = TRUE /\ listed' = listed /\ Replace(WithPassword(config))
    BY <1>5, Zenon DEF change_password, PanelOpen, WithPassword
  <2>2. Sound(config)
    BY DEF Inv
  <2>3. /\ Sound(WithPassword(config))
        /\ \A path \in DOMAIN Schema :
             path # <<"admin", "password_sha256">> => WithPassword(config)[path] = config[path]
    BY <2>2, PasswordSound
  <2>4. /\ Sound(config') /\ file'.text \in Seq(Symbol)
        /\ \E c : AsWritten(c)'
        /\ config' = WithPassword(config) /\ boot' = boot /\ up' = up /\ fatal' = fatal /\ own' = TRUE
    BY <2>1, <2>3, ReplaceSound
  <2>5. Sound(boot)'
    BY <2>4, Zenon DEF Inv, Sound, IsConfiguration, validate
  <2>6. \A path \in DOMAIN Schema : Watched(path) => path # <<"admin", "password_sha256">>
    BY PasswordPath DEF Watched
  <2>7. \A path \in DOMAIN Schema : Watched(path) /\ config[path] # boot[path] => path \in listed
    BY <2>1 DEF Inv, RestartIsAnnounced, Watched
  <2>8. \A path \in DOMAIN Schema : Watched(path) /\ config'[path] # boot'[path] => path \in listed'
    BY <2>1, <2>3, <2>4, <2>6, <2>7
  <2>9. RestartIsAnnounced'
    BY <2>8 DEF RestartIsAnnounced, Watched
  <2>10. /\ up' \in BOOLEAN /\ fatal' \in BOOLEAN /\ own' \in BOOLEAN /\ repassed' \in BOOLEAN
         /\ (up' => ~fatal') /\ listed' \subseteq DOMAIN Schema
    BY <2>1, <2>4, Zenon DEF Inv
  <2>11. QED
    BY <2>4, <2>5, <2>9, <2>10, Zenon DEF Inv
<1>6. CASE Stop
  <2>1. /\ up' = FALSE /\ config' = Default /\ boot' = Default /\ listed' = {}
        /\ file' = file /\ fatal' \in BOOLEAN /\ own' = own /\ repassed' = repassed
    BY <1>6 DEF Stop
  <2>2. Sound(config)' /\ Sound(boot)'
    BY <2>1, DefaultFits, Zenon DEF Sound, IsConfiguration, validate, Default, Schema
  <2>3. RestartIsAnnounced'
    BY <2>1, Zenon DEF RestartIsAnnounced
  <2>4. own' => \E c : AsWritten(c)'
    BY <2>1, Zenon DEF Inv, AsWritten
  <2>5. /\ up' \in BOOLEAN /\ fatal' \in BOOLEAN /\ own' \in BOOLEAN /\ repassed' \in BOOLEAN
        /\ (up' => ~fatal') /\ file'.text \in Seq(Symbol) /\ listed' \subseteq DOMAIN Schema
    BY <2>1, Zenon DEF Inv
  <2>6. QED
    BY <2>2, <2>3, <2>4, <2>5, Zenon DEF Inv
<1>7. CASE UNCHANGED vars
  <2>1. /\ up' = up /\ config' = config /\ boot' = boot /\ listed' = listed
        /\ file' = file /\ fatal' = fatal /\ own' = own /\ repassed' = repassed
    BY <1>7 DEF vars, process
  <2>2. QED
    BY <2>1, Zenon DEF Inv, AsWritten, Sound, IsConfiguration, validate, RestartIsAnnounced
<1>8. QED
  BY <1>1, <1>2, <1>3, <1>4, <1>5, <1>6, <1>7, Zenon DEF Next

LEMMA Invariance == Spec => []Inv
BY InvInit, InvStep, PTL DEF Spec

\* The server only ever runs with a configuration that validate accepts, from
\* whatever documents the file and the panel are given.
THEOREM ConfigTyped == Spec => []TypeOK
<1>1. Inv => TypeOK
  <2> SUFFICES ASSUME Inv PROVE TypeOK
    OBVIOUS
  <2>1. ASSUME NEW c, Sound(c) PROVE DOMAIN c = DOMAIN Schema /\ c[<<"server", "port">>] \in 0 .. U16Max
    <3>1. c = [path \in DOMAIN Schema |-> c[path]]
      BY <2>1 DEF Sound, IsConfiguration
    <3>2. DOMAIN c = DOMAIN Schema
      BY <3>1
    <3>3. c[<<"server", "port">>] \in {n \in Counts : n <= U16Max}
      BY <2>1, SchemaPaths, ValuesOfFacts DEF Sound, IsConfiguration
    <3>4. QED
      BY <3>2, <3>3, JsonAssumption, ConfigAssumption DEF Counts
  <2>2. Sound(config) /\ Sound(boot)
    BY DEF Inv
  <2>3. QED
    BY <2>1, <2>2 DEF Inv, TypeOK, Sound
<1>2. QED
  BY Invariance, <1>1, PTL

\* A restart from a file that nobody touched since the server wrote it gives
\* the configuration that was in force.
THEOREM ConfigRestarts == Spec => []RestartKeepsConfig
<1>1. Inv => RestartKeepsConfig
  <2> SUFFICES ASSUME Inv, up, own PROVE from_json_str(file.text) = {config}
    BY DEF RestartKeepsConfig
  <2>1. PICK c : AsWritten(c)
    BY Zenon DEF Inv
  <2>2. Sound(c) /\ file = FileOf(to_json_string(c)) /\ config = c
    BY <2>1, Zenon DEF AsWritten
  <2>3. file.text = to_json_string(c)
    BY <2>2, Zenon DEF FileOf
  <2>4. QED
    BY <2>2, <2>3, WrittenIsRead DEF Sound
<1>2. QED
  BY Invariance, <1>1, PTL

\* Where the settings that sockets, threads and TLS were set up with differ
\* from the configuration shown, the panel has said that a restart is required.
THEOREM ConfigAnnounces == Spec => []RestartIsAnnounced
<1>1. Inv => RestartIsAnnounced
  BY DEF Inv
<1>2. QED
  BY Invariance, <1>1, PTL

-----------------------------------------------------------------------------
(* From the document to the configuration in force. *)

\* The document without members mentions no field.
LEMMA NothingMentioned ==
    ASSUME NEW path \in DOMAIN Schema
    PROVE  At(Object(<<>>), path) = {}
<1> DEFINE root == Object(<<>>)
           members == IF root.kind = "object" THEN root.value ELSE <<>>
<1>1. ASSUME NEW key PROVE Get(root, <<key>>) = {}
  <2>1. members = <<>>
    BY DEF Object
  <2>2. DOMAIN members = {}
    BY <2>1
  <2>3. Get(root, <<key>>) =
          {members[i][2] : i \in {j \in {i \in DOMAIN members : members[i][1] = <<key>>} :
                                    \A k \in {i \in DOMAIN members : members[i][1] = <<key>>} : j <= k}}
    BY Zenon DEF Get
  <2> HIDE DEF members
  <2>4. QED
    BY <2>2, <2>3
<1> HIDE DEF root
<1>2. ASSUME NEW section \in DOMAIN Layout, NEW key, At(root, section) \subseteq {root}
      PROVE  At(root, Append(section, key)) = {}
  <2> DEFINE S == SectionNames \cup {key}
  <2>1. section \in Seq(S) /\ key \in S
    BY SectionPaths
  <2> HIDE DEF S
  <2>2. At(root, Append(section, key)) = UNION {Get(json, <<key>>) : json \in At(root, section)}
    BY <2>1, AtAppend
  <2>3. \A json \in At(root, section) : Get(json, <<key>>) = {}
    BY <1>1, <1>2
  <2>4. QED
    BY <2>2, <2>3
<1>3. At(root, <<>>) = {root}
  BY AtRoot
<1>4. \A key : At(root, Append(<<>>, key)) = {}
  BY <1>2, <1>3, Sections
<1>5. \A key : At(root, <<key>>) = {}
  <2>1. \A key : Append(<<>>, key) = <<key>>
    BY AppendShort, Zenon
  <2>2. QED
    BY <1>4, <2>1
<1>6. At(root, <<"security", "rate_limit">>) = {}
  <2>1. Append(<<"security">>, "rate_limit") = <<"security", "rate_limit">>
    BY AppendShort, Zenon
  <2>2. <<"security">> \in DOMAIN Layout
    BY Sections
  <2>3. At(root, Append(<<"security">>, "rate_limit")) = {}
    BY <1>2, <1>5, <2>2
  <2>4. QED
    BY <2>1, <2>3
<1>7. \A section \in DOMAIN Layout : At(root, section) \subseteq {root}
  BY <1>3, <1>5, <1>6, Sections
<1>8. PICK section \in DOMAIN Layout : \E key : path = Append(section, key)
  BY SchemaType
<1>9. QED
  BY <1>2, <1>7, <1>8 DEF root

\* A configuration that a document gives when it is read.
Gives(document, c) ==
    \/ document \in Documents /\ c \in from_json_str(document.text)
    \/ document = NoDocument /\ c = Default

\* What is left of it after a change of the password.
GoesBack(document, changed, c) ==
    \E given : Gives(document, given) /\ c = IF changed THEN WithPassword(given) ELSE given

\* The file and the configuration in force go back to the documents that the
\* history names.
OriginInv ==
    /\ up => GoesBack(asked, repassed, config)
    /\ own => file.there /\ \E c : AsWritten(c) /\ GoesBack(origin, repassed, c)
    /\ ~own /\ file.there => origin \in Documents /\ file.text = origin.text
    /\ ~file.there => origin = NoDocument

LEMMA GivenSound ==
    ASSUME NEW document, NEW c, Gives(document, c)
    PROVE  Sound(c)
BY FromJsonType, DefaultFits, DocumentAssumption DEF Gives, Sound

\* A second change of the password takes the place of the first.
LEMMA PasswordAgain ==
    ASSUME NEW document, NEW changed \in BOOLEAN, NEW c, GoesBack(document, changed, c)
    PROVE  GoesBack(document, TRUE, WithPassword(c))
<1> DEFINE secret == <<"admin", "password_sha256">>
<1>1. PICK given : Gives(document, given) /\ c = IF changed THEN WithPassword(given) ELSE given
  BY Zenon DEF GoesBack
<1>2. given = [path \in DOMAIN Schema |-> given[path]]
  BY <1>1, GivenSound, Zenon DEF Sound, IsConfiguration
<1> DEFINE once == [path \in DOMAIN Schema |-> IF path = secret THEN NewHash ELSE given[path]]
<1>3. WithPassword(given) = once
  BY <1>2, Zenon DEF WithPassword
<1>4. WithPassword(once) = once
  BY Zenon DEF WithPassword
<1>5. WithPassword(c) = WithPassword(given)
  <2> HIDE DEF once
  <2>1. CASE changed
    BY <1>1, <1>3, <1>4, <2>1
  <2>2. CASE ~ changed
    BY <1>1, <2>2
  <2>3. QED
    BY <2>1, <2>2
<1>6. QED
  BY <1>1, <1>5, Zenon DEF GoesBack

LEMMA OriginInit == Init => OriginInv
<1> SUFFICES ASSUME Init PROVE OriginInv
  OBVIOUS
<1>1. up = FALSE /\ own = FALSE /\ file = NoFile /\ origin = NoDocument
  BY DEF Init
<1>2. file.there = FALSE
  BY <1>1, Zenon DEF NoFile
<1>3. QED
  BY <1>1, <1>2, Zenon DEF OriginInv

\* After either admin request.
LEMMA ReplaceOrigin ==
    ASSUME NEW new, Sound(new), Replace(new), up, NEW document, NEW changed,
           GoesBack(document, changed, new),
           origin' = document, asked' = document, repassed' = changed
    PROVE  OriginInv'
<1>1. config' = new /\ up' = up /\ own' = TRUE /\ file' = FileOf(to_json_string(new))
  BY DEF Replace
<1>2. file'.there = TRUE
  BY <1>1, Zenon DEF FileOf
<1>3. AsWritten(new)'
  BY <1>1, Zenon DEF AsWritten, Sound, IsConfiguration, validate
<1>4. GoesBack(asked, repassed, config)'
  BY <1>1, Zenon DEF GoesBack, Gives, WithPassword
<1>5. GoesBack(origin', repassed', new)
  BY Zenon
<1>6. GoesBack(origin, repassed, new)'
  BY <1>5, Zenon DEF GoesBack, Gives, WithPassword
<1>7. QED
  BY <1>1, <1>2, <1>3, <1>4, <1>6, Zenon DEF OriginInv

LEMMA OriginStep == Inv /\ OriginInv /\ [Next]_vars => OriginInv'
<1> SUFFICES ASSUME Inv, OriginInv, [Next]_vars PROVE OriginInv'
  OBVIOUS
<1> USE DEF OriginInv
<1>1. CASE \E document \in Documents : Edit(document)
  <2>1. PICK document \in Documents : Edit(document)
    BY <1>1
  <2>2. /\ ~up /\ up' = up /\ file' = FileOf(document.text) /\ own' = FALSE /\ origin' = document
    BY <2>1 DEF Edit, process
  <2>3. file'.there = TRUE /\ file'.text = document.text
    BY <2>2, Zenon DEF FileOf
  <2>4. QED
    BY <2>1, <2>2, <2>3, Zenon
<1>2. CASE Delete
  <2>1. ~up /\ up' = up /\ file' = NoFile /\ own' = FALSE /\ origin' = NoDocument
    BY <1>2 DEF Delete, process
  <2>2. file'.there = FALSE
    BY <2>1, Zenon DEF NoFile
  <2>3. QED
    BY <2>1, <2>2, Zenon
<1>3. CASE Start
  <2>1. ~up /\ file' = file /\ own' = own /\ origin' = origin
    BY <1>3 DEF Start
  <2>2. CASE \E loaded \in Usable : /\ config' = loaded /\ up' = TRUE
                                    /\ asked' = origin /\ repassed' = (own /\ repassed)
    <3>1. PICK loaded \in Usable : /\ config' = loaded /\ up' = TRUE
                                   /\ asked' = origin /\ repassed' = (own /\ repassed)
      BY <2>2
    <3>2. file.text \in Seq(Symbol)
      BY Zenon DEF Inv
    <3>3. Sound(loaded) /\ \A c : Sound(c) /\ file = FileOf(to_json_string(c)) => loaded = c
      BY <3>2, LoadedSound
    <3>4. CASE own
      <4>1. PICK c : AsWritten(c) /\ GoesBack(origin, repassed, c)
        BY <3>4, Zenon
      <4>2. loaded = c /\ Sound(c) /\ file = FileOf(to_json_string(c))
        BY <3>3, <4>1, Zenon DEF AsWritten
      <4>3. repassed' = repassed
        BY <3>1, <3>4, Zenon DEF Inv
      <4>4. GoesBack(origin, repassed, loaded)
        BY <4>1, <4>2, Zenon
      <4>5. GoesBack(asked, repassed, config)'
        <5>1. config' = loaded /\ asked' = origin
          BY <3>1
        <5>2. GoesBack(asked', repassed', config')
          BY <4>3, <4>4, <5>1
        <5>3. QED
          BY <5>2, Zenon DEF GoesBack, Gives, WithPassword
      <4>6. AsWritten(loaded)'
        BY <2>1, <3>1, <4>2, Zenon DEF AsWritten, Sound, IsConfiguration, validate
      <4>7. GoesBack(origin, repassed, loaded)'
        BY <2>1, <4>3, <4>4, Zenon DEF GoesBack, Gives, WithPassword
      <4>8. QED
        BY <2>1, <3>4, <4>5, <4>6, <4>7, Zenon
    <3>5. CASE ~ own
      <4>1. loaded \in load_config /\ repassed' = FALSE
        BY <3>1, <3>5, Zenon DEF Usable
      <4>2. Gives(origin, loaded)
        <5>1. CASE file.there
          <6>1. loaded \in from_json_str(file.text)
            BY <4>1, <5>1, Zenon DEF load_config
          <6>2. QED
            BY <3>5, <5>1, <6>1, Zenon DEF Gives
        <5>2. CASE ~ file.there
          <6>1. loaded = Default
            BY <4>1, <5>2 DEF load_config
          <6>2. QED
            BY <5>2, <6>1, Zenon DEF Gives
        <5>3. QED
          BY <5>1, <5>2
      <4>3. GoesBack(origin, FALSE, loaded)
        BY <4>2, Zenon DEF GoesBack
      <4>4. GoesBack(asked, repassed, config)'
        BY <3>1, <4>1, <4>3, Zenon DEF GoesBack, Gives, WithPassword
      <4>5. QED
        BY <2>1, <3>5, <4>4, Zenon
    <3>6. QED
      BY <3>4, <3>5
  <2>3. CASE up' = up /\ config' = config /\ repassed' = repassed
    <3>1. ~up'
      BY <2>1, <2>3, Zenon
    <3>2. own' => \E c : AsWritten(c)' /\ GoesBack(origin, repassed, c)'
      BY <2>1, <2>3, Zenon DEF AsWritten, GoesBack, Gives
    <3>3. QED
      BY <2>1, <3>1, <3>2, Zenon
  <2>4. QED
    BY <1>3, <2>2, <2>3, Zenon DEF Start
<1>4. CASE \E document \in Documents : put_config(document)
  <2>1. PICK document \in Documents : put_config(document)
    BY <1>4
  <2>2. PICK new \in from_json_str(document.text) : Replace(new)
    BY <2>1 DEF put_config
  <2>3. up /\ origin' = document /\ asked' = document /\ repassed' = FALSE
    BY <2>1 DEF put_config, PanelOpen
  <2>4. Sound(new)
    BY <2>2, FromJsonType, DocumentAssumption DEF Sound
  <2>5. GoesBack(document, FALSE, new)
    BY <2>2, Zenon DEF GoesBack, Gives
  <2> HIDE DEF OriginInv
  <2>6. QED
    BY <2>2, <2>3, <2>4, <2>5, ReplaceOrigin
<1>5. CASE change_password
  <2>1. up /\ repassed' = TRUE /\ origin' = asked /\ asked' = asked /\ Replace(WithPassword(config))
    BY <1>5, Zenon DEF change_password, PanelOpen, WithPassword
  <2>2. Sound(config) /\ repassed \in BOOLEAN
    BY DEF Inv
  <2>3. Sound(WithPassword(config))
    BY <2>2, PasswordSound
  <2>4. GoesBack(asked, repassed, config)
    BY <2>1, Zenon
  <2>5. GoesBack(asked, TRUE, WithPassword(config))
    BY <2>2, <2>4, PasswordAgain
  <2> HIDE DEF OriginInv
  <2>6. QED
    BY <2>1, <2>3, <2>5, ReplaceOrigin
<1>6. CASE Stop
  <2>1. up' = FALSE /\ file' = file /\ own' = own /\ origin' = origin /\ repassed' = repassed
    BY <1>6 DEF Stop
  <2>2. own' => \E c : AsWritten(c)' /\ GoesBack(origin, repassed, c)'
    BY <2>1, Zenon DEF AsWritten, GoesBack, Gives
  <2>3. QED
    BY <2>1, <2>2, Zenon
<1>7. CASE UNCHANGED vars
  <2>1. /\ up' = up /\ config' = config /\ file' = file /\ own' = own
        /\ origin' = origin /\ asked' = asked /\ repassed' = repassed
    BY <1>7 DEF vars, process
  <2>2. own' => \E c : AsWritten(c)' /\ GoesBack(origin, repassed, c)'
    BY <2>1, Zenon DEF AsWritten, GoesBack, Gives
  <2>3. up' => GoesBack(asked, repassed, config)'
    BY <2>1, Zenon DEF GoesBack, Gives
  <2>4. QED
    BY <2>1, <2>2, <2>3, Zenon
<1>8. QED
  BY <1>1, <1>2, <1>3, <1>4, <1>5, <1>6, <1>7, Zenon DEF Next

\* A document that gives what it says when it is read is obeyed as long as it
\* is in force: neither writing the configuration back, nor a restart, nor a
\* change of the password, in any order, loses or alters a field.
THEOREM ConfigObeys == DocumentsRead => (Spec => []AcceptedIsAsWritten)
<1> SUFFICES ASSUME DocumentsRead PROVE Spec => []AcceptedIsAsWritten
  OBVIOUS
<1>1. OriginInv => AcceptedIsAsWritten
  <2> DEFINE secret == <<"admin", "password_sha256">>
             Obeyed(root, path, value) == Disputed(root, path) \/ Follows(root, path, value)
  <2> SUFFICES ASSUME OriginInv, up
               PROVE  \E root \in asked.json : \A path \in DOMAIN Schema :
                         IF repassed /\ path = secret THEN config[path] = NewHash
                         ELSE Obeyed(root, path, config[path])
    BY Zenon DEF AcceptedIsAsWritten
  <2>1. PICK given : /\ Gives(asked, given)
                     /\ config = IF repassed THEN WithPassword(given) ELSE given
    BY Zenon DEF OriginInv, GoesBack
  <2>2. PICK root \in asked.json : \A path \in DOMAIN Schema : Obeyed(root, path, given[path])
    <3>1. CASE asked \in Documents /\ given \in from_json_str(asked.text)
      BY <3>1, Zenon DEF DocumentsRead
    <3>2. CASE asked = NoDocument /\ given = Default
      <4>1. Object(<<>>) \in asked.json
        <5>1. asked.json = {Object(<<>>)}
          BY <3>2, Zenon DEF NoDocument
        <5>2. QED
          BY <5>1
      <4>2. \A path \in DOMAIN Schema : Follows(Object(<<>>), path, given[path])
        BY <3>2, NothingMentioned, Zenon DEF Follows
      <4>3. QED
        BY <4>1, <4>2
    <3>3. QED
      BY <2>1, <3>1, <3>2, Zenon DEF Gives
  <2>3. /\ WithPassword(given)[secret] = NewHash
        /\ \A path \in DOMAIN Schema : path # secret => WithPassword(given)[path] = given[path]
    BY <2>1, GivenSound, PasswordSound
  <2> HIDE DEF secret, Obeyed
  <2>4. ASSUME NEW path \in DOMAIN Schema
        PROVE  IF repassed /\ path = secret THEN config[path] = NewHash
               ELSE Obeyed(root, path, config[path])
    <3>1. CASE repassed
      <4>1. config = WithPassword(given)
        BY <2>1, <3>1, Zenon
      <4>2. CASE path = secret
        BY <2>3, <3>1, <4>1, <4>2, Zenon
      <4>3. CASE path # secret
        BY <2>2, <2>3, <4>1, <4>3, Zenon
      <4>4. QED
        BY <4>2, <4>3
    <3>2. CASE ~ repassed
      <4>1. config = given
        BY <2>1, <3>2, Zenon
      <4>2. QED
        BY <2>2, <3>2, <4>1, Zenon
    <3>3. QED
      BY <3>1, <3>2
  <2>5. QED
    BY <2>4, Zenon
<1>2. Init => Inv /\ OriginInv
  BY InvInit, OriginInit
<1>3. Inv /\ OriginInv /\ [Next]_vars => (Inv /\ OriginInv)'
  BY InvStep, OriginStep
<1>4. QED
  BY <1>1, <1>2, <1>3, PTL DEF Spec
=============================================================================
