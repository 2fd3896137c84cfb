---------------------------- MODULE LexerProofs ----------------------------
(***************************************************************************)
(* The scanner finds the tokens of maximal munch, for every alphabet, all  *)
(* keywords and every line.  The runs of the automaton and the two passes  *)
(* over the line are recursive functions; that there are such functions is *)
(* shown first, by induction on the part of the line they are defined for, *)
(* with the set of lengths for which there is one in place of a predicate. *)
(***************************************************************************)
EXTENDS Lexer, NaturalsInduction, WellFoundedInduction, SequenceTheorems, TLAPS

USE ClassAssumption, UpperCaseAssumption

\* A set of numbers that has 0 and, up to N, with each number the next.
LEMMA Climb ==
  ASSUME NEW N \in Nat, NEW P, 0 \in P,
         \A n \in 0..N : n < N /\ n \in P => n + 1 \in P
  PROVE  \A n \in 0..N : n \in P
<1> DEFINE gaps == {n \in 0..N : n \notin P}
<1> SUFFICES ASSUME gaps # {} PROVE FALSE
  OBVIOUS
<1>1. gaps \subseteq Nat
  OBVIOUS
<1>2. PICK g \in gaps : \A h \in gaps : ~ (<<h, g>> \in OpToRel(<, Nat))
  BY <1>1, NatLessThanWellFounded, WFMin
<1>3. \A h \in gaps : ~ (h < g)
  BY <1>1, <1>2 DEF OpToRel
<1>4. g \in 0..N /\ g \notin P /\ g # 0 /\ g - 1 \in 0..N
  OBVIOUS
<1>5. g - 1 \in P
  BY <1>3, <1>4
<1> QED
  BY <1>4, <1>5

\* A set of numbers from a to b that is not empty has a greatest one.
LEMMA MaxOfSome ==
  ASSUME NEW a \in Nat, NEW b \in Nat, NEW S, S \subseteq a..b, S # {}
  PROVE  Max(S) \in S /\ \A x \in S : x <= Max(S)
<1> DEFINE gaps == {b - x : x \in S}
<1>1. gaps \subseteq Nat /\ gaps # {}
  OBVIOUS
<1>2. PICK g \in gaps : \A h \in gaps : ~ (<<h, g>> \in OpToRel(<, Nat))
  BY <1>1, NatLessThanWellFounded, WFMin
<1>3. \A h \in gaps : ~ (h < g)
  BY <1>1, <1>2 DEF OpToRel
<1>4. PICK x \in S : g = b - x
  OBVIOUS
<1>5. ASSUME NEW y \in S PROVE x >= y
  <2>1. b - y \in gaps /\ x \in Int /\ y \in Int
    BY <1>4
  <2> HIDE DEF gaps
  <2> QED
    BY <1>3, <1>4, <2>1
<1> QED
  BY <1>4, <1>5 DEF Max

-----------------------------------------------------------------------------
(* The automaton.                                                          *)

Span(first, n) == first - 1 .. first - 1 + n

IsRun(line, first, n, g) ==
    g = [k \in Span(first, n) |->
            IF k = first - 1 THEN "START" ELSE NextState(g[k - 1], Class[line[k]])]

LEMMA RunStates ==
  ASSUME NEW line \in Seq(Chars), NEW first \in 1..Len(line)
  PROVE  LET state == Run(line, first)
         IN  /\ state[first - 1] = "START"
             /\ \A k \in first..Len(line) :
                   state[k] = NextState(state[k - 1], Class[line[k]])
<1> DEFINE N == Len(line) - (first - 1)
<1> DEFINE P == {n \in 0..N : \E g : IsRun(line, first, n, g)}
<1>0. N \in Nat
  OBVIOUS
<1>1. 0 \in P
  <2> DEFINE g == [k \in Span(first, 0) |-> "START"]
  <2>1. Span(first, 0) = {first - 1}
    BY DEF Span
  <2>2. IsRun(line, first, 0, g)
    BY <2>1 DEF IsRun
  <2> QED
    BY <1>0, <2>2
<1>2. ASSUME NEW n \in 0..N, n < N, n \in P
      PROVE  n + 1 \in P
  <2>1. PICK g : IsRun(line, first, n, g)
    BY <1>2
  <2> DEFINE m == first + n
  <2> DEFINE h == [k \in Span(first, n + 1) |->
                      IF k = m THEN NextState(g[k - 1], Class[line[k]]) ELSE g[k]]
  <2>2. Span(first, n + 1) = Span(first, n) \union {m} /\ m \notin Span(first, n)
        /\ m - 1 \in Span(first, n) /\ m # first - 1
    BY DEF Span
  <2>3. ASSUME NEW k \in Span(first, n + 1)
        PROVE  h[k] = IF k = first - 1 THEN "START" ELSE NextState(h[k - 1], Class[line[k]])
    <3>1. CASE k = m
      BY <2>2, <3>1
    <3>2. CASE k # m
      <4>1. k \in Span(first, n) /\ h[k] = g[k]
        BY <2>2, <3>2
      <4>2. g[k] = IF k = first - 1 THEN "START" ELSE NextState(g[k - 1], Class[line[k]])
        BY <2>1, <4>1 DEF IsRun
      <4>3. k # first - 1 => k - 1 \in Span(first, n) /\ h[k - 1] = g[k - 1]
        BY <2>2, <4>1 DEF Span
      <4> QED
        BY <4>1, <4>2, <4>3
    <3> QED
      BY <3>1, <3>2
  <2>4. IsRun(line, first, n + 1, h)
    BY <2>3 DEF IsRun
  <2>5. n + 1 \in 0..N
    BY <1>0, <1>2
  <2> QED
    BY <2>4, <2>5
<1> HIDE DEF N, P
<1>3. N \in P
  <2>1. \A n \in 0..N : n \in P
    BY <1>0, <1>1, <1>2, Climb
  <2> QED
    BY <1>0, <2>1
<1>4. \E g : IsRun(line, first, N, g)
  BY <1>3 DEF P
<1>5. Span(first, N) = first - 1 .. Len(line)
  BY DEF Span, N
<1>6. Run(line, first) = CHOOSE g : IsRun(line, first, N, g)
  BY <1>5 DEF Run, IsRun
<1>7. IsRun(line, first, N, Run(line, first))
  BY <1>4, <1>6
<1> DEFINE state == Run(line, first)
<1>8. state = [k \in first - 1 .. Len(line) |->
                 IF k = first - 1 THEN "START" ELSE NextState(state[k - 1], Class[line[k]])]
  BY <1>5, <1>7 DEF IsRun
<1> HIDE DEF state
<1>9. state[first - 1] = "START"
  BY <1>8
<1>10. ASSUME NEW k \in first..Len(line)
       PROVE  state[k] = NextState(state[k - 1], Class[line[k]])
  BY <1>8
<1> QED
  BY <1>9, <1>10 DEF state

\* What the characters from first to k are, for each state that can be left or
\* accepts.
At(line, k) == Class[line[k]]

Digits(line, first, k) == \A j \in first..k : At(line, j) = "digit"

Numeral(line, first, k) ==
    \/ Digits(line, first, k)
    \/ k > first /\ At(line, first) = "minus" /\ Digits(line, first + 1, k)

Word(line, first, k)  == \A j \in first..k : At(line, j) = "letter"
White(line, first, k) == \A j \in first..k : At(line, j) \in {"space", "newline"}

Open(line, first, k) ==
    /\ At(line, first) = "quotation"
    /\ \A j \in first + 1 .. k : At(line, j) \notin {"quotation", "minus"}

Quoted(line, first, k) ==
    k > first /\ Open(line, first, k - 1) /\ At(line, k) = "quotation"

\* The states of the automaton, without START.
States == {"INT", "INT_NEG", "IDEN", "WS", "STRING_1", "STRING_2", "SYNTAX_ERROR", "ERROR"}

StateMeans(line, first, k, state) ==
    /\ state \in States
    /\ state = "INT"      <=> Numeral(line, first, k)
    /\ state = "INT_NEG"  <=> k = first /\ At(line, k) = "minus"
    /\ state = "IDEN"     <=> Word(line, first, k)
    /\ state = "WS"       <=> White(line, first, k)
    /\ state = "STRING_1" <=> Open(line, first, k)
    /\ state = "STRING_2" <=> Quoted(line, first, k)
    /\ state = "SYNTAX_ERROR" <=>
          k > first /\ Numeral(line, first, k - 1) /\ At(line, k) = "letter"

LEMMA FirstState ==
  ASSUME NEW line \in Seq(Chars), NEW first \in 1..Len(line)
  PROVE  StateMeans(line, first, first, NextState("START", At(line, first)))
<1>1. At(line, first) \in Lexemes
  BY DEF At
<1>2. first..first = {first} /\ first + 1 .. first = {}
  OBVIOUS
<1>3. NextState("START", At(line, first)) =
        CASE At(line, first) = "digit" -> "INT" [] At(line, first) = "minus" -> "INT_NEG"
          [] At(line, first) = "letter" -> "IDEN"
          [] At(line, first) \in {"space", "newline"} -> "WS"
          [] At(line, first) = "quotation" -> "STRING_1" [] OTHER -> "ERROR"
  BY <1>1 DEF NextState, Transitions, Lexemes
<1> QED
  BY <1>1, <1>2, <1>3 DEF StateMeans, States, Lexemes, Numeral, Digits, Word, White, Open, Quoted

LEMMA NextStateMeans ==
  ASSUME NEW line \in Seq(Chars), NEW first \in 1..Len(line),
         NEW k \in first + 1 .. Len(line), NEW state, StateMeans(line, first, k - 1, state)
  PROVE  StateMeans(line, first, k, NextState(state, At(line, k)))
<1> DEFINE c == At(line, k)
<1>1. c \in Lexemes
  BY DEF At
<1>2. first..k = first..(k - 1) \union {k} /\ first + 1 .. k = first + 1 .. (k - 1) \union {k}
  OBVIOUS
<1>3. NextState(state, c) =
        CASE state = "INT" /\ c = "digit" -> "INT" [] state = "INT" /\ c = "letter" -> "SYNTAX_ERROR"
          [] state = "INT_NEG" /\ c = "digit" -> "INT"
          [] state = "IDEN" /\ c = "letter" -> "IDEN"
          [] state = "WS" /\ c \in {"space", "newline"} -> "WS"
          [] state = "STRING_1" /\ c = "quotation" -> "STRING_2"
          [] state = "STRING_1" /\ c \notin {"quotation", "minus"} -> "STRING_1"
          [] OTHER -> "ERROR"
  BY <1>1 DEF NextState, Transitions, Lexemes, StateMeans, States
<1> QED
  BY <1>1, <1>2, <1>3 DEF StateMeans, States, Lexemes, Numeral, Digits, Word, White, Open, Quoted

LEMMA RunMeans ==
  ASSUME NEW line \in Seq(Chars), NEW first \in 1..Len(line), NEW k \in first..Len(line)
  PROVE  StateMeans(line, first, k, Run(line, first)[k])
<1> DEFINE state == Run(line, first)
<1> DEFINE N == Len(line) - first
<1> DEFINE P == {n \in 0..N : StateMeans(line, first, first + n, state[first + n])}
<1>0. N \in Nat
  OBVIOUS
<1>1. /\ state[first - 1] = "START"
      /\ \A j \in first..Len(line) : state[j] = NextState(state[j - 1], At(line, j))
  BY RunStates DEF At
<1> HIDE DEF state
<1>2. 0 \in P
  BY <1>0, <1>1, FirstState
<1>3. ASSUME NEW n \in 0..N, n < N, n \in P
      PROVE  n + 1 \in P
  <2>1. n + 1 \in 0..N /\ first + (n + 1) \in first + 1 .. Len(line)
        /\ first + (n + 1) - 1 = first + n
    BY <1>0, <1>3
  <2>2. StateMeans(line, first, first + (n + 1), NextState(state[first + n], At(line, first + (n + 1))))
    BY <1>3, <2>1, NextStateMeans
  <2>3. state[first + (n + 1)] = NextState(state[first + n], At(line, first + (n + 1)))
    BY <1>1, <2>1
  <2> QED
    BY <2>1, <2>2, <2>3
<1>4. k - first \in 0..N /\ first + (k - first) = k
  OBVIOUS
<1> HIDE DEF N, P
<1>5. k - first \in P
  BY <1>0, <1>2, <1>3, <1>4, Climb
<1>6. StateMeans(line, first, first + (k - first), state[first + (k - first)])
  BY <1>5 DEF P
<1> QED
  BY <1>4, <1>6 DEF state

-----------------------------------------------------------------------------
(* Lexemes.                                                                *)

LEMMA Cut ==
  ASSUME NEW line \in Seq(Chars), NEW first \in 1..Len(line), NEW k \in first..Len(line)
  PROVE  LET word == SubSeq(line, first, k)
         IN  /\ word \in Seq(Chars) /\ Len(word) = k - first + 1
             /\ DOMAIN word = 1..Len(word)
             /\ \A j \in 1..Len(word) : word[j] = line[first + j - 1]
OBVIOUS

\* The form of a lexeme, as a property of the part of the line it is.
LEMMA FormAt ==
  ASSUME NEW line \in Seq(Chars), NEW first \in 1..Len(line), NEW k \in first..Len(line)
  PROVE  LET word == SubSeq(line, first, k)
         IN  /\ HasForm("IDENTIFIER", word) <=> Word(line, first, k)
             /\ HasForm("WHITESPACE", word) <=> White(line, first, k)
             /\ HasForm("INTEGER", word)    <=> Numeral(line, first, k)
             /\ HasForm("STRING", word)     <=> Quoted(line, first, k)
<1> DEFINE word == SubSeq(line, first, k)
<1>0. /\ word \in Seq(Chars) /\ Len(word) = k - first + 1
      /\ DOMAIN word = 1..Len(word)
      /\ \A j \in 1..Len(word) : word[j] = line[first + j - 1]
  <2> HIDE DEF word
  <2> QED
    BY Cut DEF word
<1> HIDE DEF word
<1>1. /\ word \in Seq(Chars) /\ Len(word) = k - first + 1 /\ word # <<>>
      /\ DOMAIN word = 1..Len(word)
      /\ \A j \in 1..Len(word) : word[j] = line[first + j - 1]
  BY <1>0
<1>2. \A j \in first..k : j - first + 1 \in 1..Len(word) /\ Class[word[j - first + 1]] = At(line, j)
  BY <1>1 DEF At
<1>3. \A j \in 1..Len(word) : first + j - 1 \in first..k /\ Class[word[j]] = At(line, first + j - 1)
  BY <1>1 DEF At
<1>4. \A classes : AllOf(word, classes) <=> \A j \in first..k : At(line, j) \in classes
  <2> SUFFICES ASSUME NEW classes
               PROVE  AllOf(word, classes) <=> \A j \in first..k : At(line, j) \in classes
    OBVIOUS
  <2>1. ASSUME AllOf(word, classes), NEW j \in first..k
        PROVE  At(line, j) \in classes
    BY <1>1, <1>2, <2>1 DEF AllOf
  <2>2. ASSUME \A j \in first..k : At(line, j) \in classes
        PROVE  AllOf(word, classes)
    BY <1>1, <1>3, <2>2 DEF AllOf
  <2> QED
    BY <2>1, <2>2
<1>5. Class[word[1]] = At(line, first) /\ Class[word[Len(word)]] = At(line, k)
  BY <1>1 DEF At
<1>6. HasForm("IDENTIFIER", word) <=> Word(line, first, k)
  BY <1>1, <1>4 DEF HasForm, Word
<1>7. HasForm("WHITESPACE", word) <=> White(line, first, k)
  BY <1>1, <1>4 DEF HasForm, White
<1>8. AllOf(Tail(word), {"digit"}) <=> Digits(line, first + 1, k)
  <2>1. /\ DOMAIN Tail(word) = 1..(Len(word) - 1)
        /\ \A j \in 1..(Len(word) - 1) : Tail(word)[j] = word[j + 1]
    BY <1>1
  <2>2. \A j \in 1..(Len(word) - 1) :
           first + j \in first + 1 .. k /\ Class[Tail(word)[j]] = At(line, first + j)
    BY <1>1, <2>1 DEF At
  <2>3. \A j \in first + 1 .. k :
           j - first \in 1..(Len(word) - 1) /\ Class[Tail(word)[j - first]] = At(line, j)
    BY <1>1, <2>1 DEF At
  <2> QED
    BY <2>1, <2>2, <2>3 DEF AllOf, Digits
<1>9. HasForm("INTEGER", word) <=> Numeral(line, first, k)
  BY <1>1, <1>4, <1>5, <1>8 DEF HasForm, Numeral, Digits
<1>10. HasForm("STRING", word) <=> Quoted(line, first, k)
  <2>1. HasForm("STRING", word) <=>
          /\ k > first /\ At(line, first) = "quotation" /\ At(line, k) = "quotation"
          /\ \A j \in 2 .. Len(word) - 1 : Class[word[j]] \notin {"quotation", "minus"}
    <3>1. HasForm("STRING", word) <=>
            /\ Len(word) > 1
            /\ \A j \in 1..Len(word) :
                  IF j \in {1, Len(word)} THEN Class[word[j]] = "quotation"
                  ELSE Class[word[j]] \notin {"quotation", "minus"}
      BY <1>1 DEF HasForm
    <3>2. Len(word) \in Nat /\ (Len(word) > 1 <=> k > first)
      BY <1>1
    <3>3. \A j : j \in 1..Len(word) /\ j \notin {1, Len(word)} <=> j \in 2 .. Len(word) - 1
      BY <3>2
    <3>4. 1 \in 1..Len(word) /\ Len(word) \in 1..Len(word)
      BY <1>1
    <3> QED
      BY <1>5, <3>1, <3>2, <3>3, <3>4
  <2>2. (\A j \in 2 .. Len(word) - 1 : Class[word[j]] \notin {"quotation", "minus"})
          <=> \A j \in first + 1 .. k - 1 : At(line, j) \notin {"quotation", "minus"}
    <3>1. \A j \in 2 .. Len(word) - 1 :
             first + j - 1 \in first + 1 .. k - 1 /\ Class[word[j]] = At(line, first + j - 1)
      BY <1>1, <1>3
    <3>2. \A j \in first + 1 .. k - 1 :
             j - first + 1 \in 2 .. Len(word) - 1 /\ Class[word[j - first + 1]] = At(line, j)
      BY <1>1, <1>2
    <3> QED
      BY <3>1, <3>2
  <2> QED
    BY <2>1, <2>2 DEF Quoted, Open
<1> QED
  BY <1>6, <1>7, <1>9, <1>10 DEF word

\* The ends of the lexemes of a type that start at a character.
Ends(line, first, type) ==
    {k \in first..Len(line) : HasForm(type, SubSeq(line, first, k))}

\* The state that accepts each type.
Accepts == [IDENTIFIER |-> "IDEN", WHITESPACE |-> "WS", INTEGER |-> "INT", STRING |-> "STRING_2"]

LEMMA AcceptingEnds ==
  ASSUME NEW line \in Seq(Chars), NEW first \in 1..Len(line), NEW k \in first..Len(line),
         NEW type \in Forms
  PROVE  /\ k \in Ends(line, first, type) <=> Run(line, first)[k] = Accepts[type]
         /\ Accepts[type] \in DOMAIN TokenMap /\ TokenMap[Accepts[type]] = type
<1>1. StateMeans(line, first, k, Run(line, first)[k])
  BY RunMeans
<1>2. k \in Ends(line, first, type) <=> HasForm(type, SubSeq(line, first, k))
  BY DEF Ends
<1>3. /\ HasForm("IDENTIFIER", SubSeq(line, first, k)) <=> Word(line, first, k)
      /\ HasForm("WHITESPACE", SubSeq(line, first, k)) <=> White(line, first, k)
      /\ HasForm("INTEGER", SubSeq(line, first, k))    <=> Numeral(line, first, k)
      /\ HasForm("STRING", SubSeq(line, first, k))     <=> Quoted(line, first, k)
  BY FormAt
<1>4. type \in {"IDENTIFIER", "WHITESPACE", "INTEGER", "STRING"}
  BY DEF Forms
<1> QED
  BY <1>1, <1>2, <1>3, <1>4 DEF StateMeans, Accepts, TokenMap

\* The first character tells the type.
LEMMA OneForm ==
  ASSUME NEW line \in Seq(Chars), NEW first \in 1..Len(line),
         NEW type \in Forms, NEW other \in Forms,
         Ends(line, first, type) # {}, Ends(line, first, other) # {}
  PROVE  type = other
<1> DEFINE Starts == [IDENTIFIER |-> {"letter"}, WHITESPACE |-> {"space", "newline"},
                      INTEGER |-> {"digit", "minus"}, STRING |-> {"quotation"}]
<1>1. ASSUME NEW t \in Forms, NEW k \in Ends(line, first, t)
      PROVE  At(line, first) \in Starts[t]
  <2>1. k \in first..Len(line) /\ first \in first..k /\ HasForm(t, SubSeq(line, first, k))
    BY DEF Ends
  <2>2. /\ t = "IDENTIFIER" => Word(line, first, k)
        /\ t = "WHITESPACE" => White(line, first, k)
        /\ t = "INTEGER" => Numeral(line, first, k)
        /\ t = "STRING" => Quoted(line, first, k)
    BY <2>1, FormAt
  <2>3. /\ Word(line, first, k) => At(line, first) = "letter"
        /\ White(line, first, k) => At(line, first) \in {"space", "newline"}
        /\ Numeral(line, first, k) => At(line, first) \in {"digit", "minus"}
        /\ Quoted(line, first, k) => At(line, first) = "quotation"
    BY <2>1 DEF Word, White, Numeral, Digits, Quoted, Open
  <2> QED
    BY <2>2, <2>3 DEF Forms
<1>2. At(line, first) \in Starts[type] /\ At(line, first) \in Starts[other]
  BY <1>1
<1> QED
  BY <1>2 DEF Forms

\* What a lexeme gives, as Munch has it.
Bare(type, word) == IF type = "STRING" THEN SubSeq(word, 2, Len(word) - 1) ELSE word
Kind(type, word) == IF type = "IDENTIFIER" THEN Identify(word) ELSE type

CutOff(line, end, type) ==
    type = "INTEGER" /\ end < Len(line) /\ Class[line[end + 1]] = "letter"

Result(line, type, end, word) ==
    IF Kind(type, word) = "IDENTIFIER" \/ CutOff(line, end, type) THEN Thrown
    ELSE IF type = "WHITESPACE" THEN Read(<<>>)
    ELSE Read(<<Token(Kind(type, word), Bare(type, word))>>)

\* The last accepting state is at the end of the longest lexeme.
LEMMA NextTokenLongest ==
  ASSUME NEW line \in Seq(Chars), NEW first \in 1..Len(line), NEW type \in Forms,
         Ends(line, first, type) # {}
  PROVE  LET end  == Max(Ends(line, first, type))
             next == NextToken(line, first)
         IN  /\ end \in first..Len(line)
             /\ next.result = Result(line, type, end, SubSeq(line, first, end))
             /\ ~ next.result.thrown => next.end = end
<1> DEFINE state == Run(line, first)
<1> DEFINE accepting == {k \in first .. Len(line) : state[k] \in DOMAIN TokenMap}
<1> DEFINE ends == Ends(line, first, type)
<1> DEFINE end == Max(ends)
<1> DEFINE word == SubSeq(line, first, end)
<1>1. \A k \in first..Len(line) :
         /\ k \in ends <=> state[k] = Accepts[type]
         /\ Accepts[type] \in DOMAIN TokenMap /\ TokenMap[Accepts[type]] = type
  BY AcceptingEnds
<1>2. ends \subseteq first..Len(line) /\ ends # {}
  BY DEF Ends
<1>3. end \in ends /\ \A k \in ends : k <= end
  <2>1. first \in Nat /\ Len(line) \in Nat
    OBVIOUS
  <2> HIDE DEF ends
  <2> QED
    BY <1>2, <2>1, MaxOfSome
<1>4. end \in first..Len(line) /\ state[end] = Accepts[type] /\ TokenMap[state[end]] = type
  BY <1>1, <1>2, <1>3
<1>5. accepting = ends
  <2> SUFFICES ASSUME NEW k \in first..Len(line), state[k] \in DOMAIN TokenMap
               PROVE  k \in ends
    BY <1>1, <1>2
  <2>1. PICK t \in Forms : state[k] = Accepts[t]
    BY DEF TokenMap, Forms, Accepts
  <2>2. k \in Ends(line, first, t)
    BY <2>1, AcceptingEnds
  <2>3. t = type
    BY <1>2, <2>2, OneForm
  <2> QED
    BY <2>2, <2>3
<1>6. (\E k \in first..Len(line) : state[k] = "SYNTAX_ERROR") <=> CutOff(line, end, type)
  <2>1. \A k \in first..Len(line) : StateMeans(line, first, k, state[k])
    BY RunMeans
  <2>2. ASSUME NEW k \in first..Len(line), state[k] = "SYNTAX_ERROR"
        PROVE  CutOff(line, end, type)
    <3>1. k > first /\ Numeral(line, first, k - 1) /\ At(line, k) = "letter"
      BY <2>1, <2>2 DEF StateMeans
    <3>2. k - 1 \in first..Len(line) /\ state[k - 1] = "INT"
      BY <2>1, <3>1 DEF StateMeans
    <3>3. k - 1 \in Ends(line, first, "INTEGER") /\ "INTEGER" \in Forms
      BY <3>2, AcceptingEnds DEF Forms, Accepts
    <3>4. type = "INTEGER"
      BY <1>2, <3>3, OneForm
    <3>5. k - 1 <= end
      BY <1>3, <3>3, <3>4
    <3>6. ~ (k <= end)
      <4> SUFFICES ASSUME k <= end PROVE FALSE
        OBVIOUS
      <4>1. state[end] = "INT"
        BY <1>4, <3>4 DEF Accepts
      <4>2. Numeral(line, first, end)
        BY <1>4, <2>1, <4>1 DEF StateMeans
      <4>3. k \in first + 1 .. end
        BY <1>4, <3>1
      <4> QED
        BY <1>4, <3>1, <4>2, <4>3 DEF Numeral, Digits
    <3>7. end = k - 1
      BY <1>4, <3>5, <3>6
    <3> QED
      BY <3>1, <3>4, <3>7 DEF CutOff, At
  <2>3. ASSUME CutOff(line, end, type)
        PROVE  \E k \in first..Len(line) : state[k] = "SYNTAX_ERROR"
    <3>1. /\ type = "INTEGER" /\ end + 1 \in first..Len(line) /\ end + 1 > first
          /\ (end + 1) - 1 = end /\ At(line, end + 1) = "letter"
      BY <1>4, <2>3 DEF CutOff, At
    <3>2. Numeral(line, first, end)
      BY <1>4, <2>1, <3>1 DEF StateMeans, Accepts
    <3>3. state[end + 1] = "SYNTAX_ERROR"
      <4>1. StateMeans(line, first, end + 1, state[end + 1])
        BY <2>1, <3>1
      <4> HIDE DEF state, end
      <4> QED
        BY <3>1, <3>2, <4>1 DEF StateMeans
    <3> QED
      BY <3>1, <3>3
  <2> QED
    BY <2>2, <2>3
<1>7. NextToken(line, first) =
        IF CutOff(line, end, type) THEN [end |-> first, result |-> Thrown]
        ELSE [end |-> end, result |-> Made(state[end], word)]
  BY <1>2, <1>5, <1>6 DEF NextToken
<1>8. ~ CutOff(line, end, type) => Made(state[end], word) = Result(line, type, end, word)
  BY <1>4 DEF Made, Result, Kind, Bare, Forms
<1> HIDE DEF state, end, word
<1>9. CutOff(line, end, type) => Result(line, type, end, word) = Thrown
  BY DEF Result
<1>10. /\ NextToken(line, first).result = Result(line, type, end, word)
       /\ ~ NextToken(line, first).result.thrown => NextToken(line, first).end = end
  BY <1>7, <1>8, <1>9 DEF Thrown
<1> QED
  BY <1>4, <1>10 DEF end, word

LEMMA NextTokenNone ==
  ASSUME NEW line \in Seq(Chars), NEW first \in 1..Len(line),
         \A type \in Forms : Ends(line, first, type) = {}
  PROVE  NextToken(line, first).result = Thrown
<1> DEFINE state == Run(line, first)
<1>1. ASSUME NEW k \in first..Len(line), state[k] \in DOMAIN TokenMap
      PROVE  FALSE
  <2>1. PICK t \in Forms : state[k] = Accepts[t]
    BY <1>1 DEF TokenMap, Forms, Accepts
  <2>2. k \in Ends(line, first, t)
    BY <2>1, AcceptingEnds
  <2> QED
    BY <2>2
<1>2. {k \in first .. Len(line) : state[k] \in DOMAIN TokenMap} = {}
  BY <1>1
<1> QED
  BY <1>2 DEF NextToken

-----------------------------------------------------------------------------
(* The two passes over the line.  Each is a function defined from the end  *)
(* of the line backwards, as tokens have at least one character.           *)

\* What GenerateTokens makes of the line from a character on, and what Munch
\* does, given what each makes of the rest.
FromBody(line, g, first) ==
    LET next == NextToken(line, first)
        rest == IF next.end >= Len(line) THEN Read(<<>>) ELSE g[next.end + 1]
    IN  IF next.result.thrown \/ rest.thrown THEN Thrown
        ELSE Read(next.result.tokens \o rest.tokens)

AfterBody(line, g, first) ==
    IF first > Len(line) THEN Read(<<>>)
    ELSE IF \A type \in Forms : Ends(line, first, type) = {} THEN Thrown
    ELSE
      LET type == CHOOSE type \in Forms : Ends(line, first, type) # {}
          end  == Max(Ends(line, first, type))
          word == SubSeq(line, first, end)
          rest == g[end + 1]
          bare == IF type = "STRING" THEN SubSeq(word, 2, Len(word) - 1) ELSE word
          kind == IF type = "IDENTIFIER" THEN Identify(word) ELSE type
      IN  IF \/ rest.thrown
             \/ kind = "IDENTIFIER"
             \/ type = "INTEGER" /\ end < Len(line) /\ Class[line[end + 1]] = "letter"
          THEN Thrown
          ELSE IF type = "WHITESPACE" THEN rest
          ELSE Read(<<Token(kind, bare)>> \o rest.tokens)

Last(line, n) == Len(line) + (2 - n) .. Len(line) + 1

LEMMA NextTokenEnd ==
  ASSUME NEW line \in Seq(Chars), NEW first \in 1 .. Len(line) + 1
  PROVE  NextToken(line, first).end \in Nat /\ NextToken(line, first).end >= first
<1> DEFINE accepting == {k \in first .. Len(line) : Run(line, first)[k] \in DOMAIN TokenMap}
<1>1. first \in Nat /\ Len(line) \in Nat
  OBVIOUS
<1>2. accepting \subseteq first .. Len(line)
  OBVIOUS
<1>3. NextToken(line, first).end \in {first, Max(accepting)}
      /\ (accepting = {} => NextToken(line, first).end = first)
  BY DEF NextToken
<1> HIDE DEF accepting
<1>4. accepting # {} => Max(accepting) \in accepting
  BY <1>1, <1>2, MaxOfSome
<1>5. CASE accepting = {}
  BY <1>1, <1>3, <1>5
<1>6. CASE accepting # {}
  <2>1. Max(accepting) \in Nat /\ Max(accepting) >= first
    <3>1. Max(accepting) \in first .. Len(line)
      BY <1>2, <1>4, <1>6
    <3> QED
      BY <1>1, <3>1
  <2> QED
    BY <1>1, <1>3, <2>1
<1> QED
  BY <1>5, <1>6

LEMMA LastGrows ==
  ASSUME NEW line \in Seq(Chars), NEW n \in 0 .. Len(line)
  PROVE  LET m == Len(line) + (1 - n)
         IN  /\ Last(line, n + 1) = Last(line, n) \union {m} /\ m \notin Last(line, n)
             /\ Last(line, n + 1) \subseteq 1 .. Len(line) + 1
             /\ \A first \in Last(line, n + 1) : \A e \in Nat :
                   e >= first /\ e <= Len(line) => e + 1 \in Last(line, n)
<1>1. Len(line) \in Nat
  OBVIOUS
<1> DEFINE m == Len(line) + (1 - n)
<1>2. Last(line, n) = m + 1 .. Len(line) + 1 /\ Last(line, n + 1) = m .. Len(line) + 1
  BY <1>1 DEF Last
<1>3. m \in 1 .. Len(line) + 1
  BY <1>1
<1> HIDE DEF m
<1>4. m .. Len(line) + 1 = (m + 1 .. Len(line) + 1) \union {m}
  BY <1>1, <1>3
<1>5. \A first \in m .. Len(line) + 1 : \A e \in Nat :
         e >= first /\ e <= Len(line) => e + 1 \in m + 1 .. Len(line) + 1
  BY <1>1, <1>3
<1>6. m .. Len(line) + 1 \subseteq 1 .. Len(line) + 1 /\ m \notin m + 1 .. Len(line) + 1
  BY <1>1, <1>3
<1> QED
  BY <1>2, <1>4, <1>5, <1>6 DEF m

IsFrom(line, n, g) == g = [first \in Last(line, n) |-> FromBody(line, g, first)]

LEMMA GenerateTokensFrom ==
  ASSUME NEW line \in Seq(Chars)
  PROVE  \E g : /\ \A first \in 1 .. Len(line) + 1 : g[first] = FromBody(line, g, first)
                /\ GenerateTokens(line) = g[1]
<1> DEFINE N == Len(line) + 1
<1> DEFINE P == {n \in 0..N : \E g : IsFrom(line, n, g)}
<1>0. N \in Nat
  OBVIOUS
<1>1. 0 \in P
  <2> DEFINE g == [first \in {} |-> first]
  <2>1. Last(line, 0) = {}
    BY DEF Last
  <2>2. IsFrom(line, 0, g)
    BY <2>1 DEF IsFrom
  <2> QED
    BY <1>0, <2>2
<1>2. ASSUME NEW n \in 0..N, n < N, n \in P
      PROVE  n + 1 \in P
  <2>1. PICK g : IsFrom(line, n, g)
    BY <1>2
  <2> DEFINE m == Len(line) + (1 - n)
  <2> DEFINE h == [first \in Last(line, n + 1) |->
                      IF first = m THEN FromBody(line, g, first) ELSE g[first]]
  <2>2. /\ Last(line, n + 1) = Last(line, n) \union {m} /\ m \notin Last(line, n)
        /\ Last(line, n + 1) \subseteq 1 .. Len(line) + 1
        /\ \A first \in Last(line, n + 1) : \A e \in Nat :
              e >= first /\ e <= Len(line) => e + 1 \in Last(line, n)
    BY <1>2, LastGrows
  <2>3. ASSUME NEW first \in Last(line, n + 1)
        PROVE  FromBody(line, h, first) = FromBody(line, g, first)
    <3>1. NextToken(line, first).end \in Nat /\ NextToken(line, first).end >= first
      BY <2>2, NextTokenEnd
    <3>2. ~ (NextToken(line, first).end >= Len(line)) =>
             h[NextToken(line, first).end + 1] = g[NextToken(line, first).end + 1]
      BY <2>2, <3>1
    <3> HIDE DEF h
    <3> QED
      BY <3>2 DEF FromBody
  <2>4. ASSUME NEW first \in Last(line, n + 1)
        PROVE  h[first] = FromBody(line, h, first)
    <3>1. CASE first = m
      BY <2>3, <3>1
    <3>2. CASE first # m
      <4>1. first \in Last(line, n) /\ h[first] = g[first]
        BY <2>2, <3>2
      <4>2. g[first] = FromBody(line, g, first)
        BY <2>1, <4>1 DEF IsFrom
      <4> QED
        BY <2>3, <4>1, <4>2
    <3> QED
      BY <3>1, <3>2
  <2>5. IsFrom(line, n + 1, h)
    BY <2>4 DEF IsFrom
  <2>6. n + 1 \in 0..N
    BY <1>0, <1>2
  <2> QED
    BY <2>5, <2>6
<1> HIDE DEF N, P
<1>3. N \in P
  <2>1. \A n \in 0..N : n \in P
    BY <1>0, <1>1, <1>2, Climb
  <2> QED
    BY <1>0, <2>1
<1>4. \E g : IsFrom(line, N, g)
  BY <1>3 DEF P
<1>5. Last(line, N) = 1 .. Len(line) + 1
  BY DEF Last, N
<1> DEFINE from == CHOOSE g : IsFrom(line, N, g)
<1>6. IsFrom(line, N, from)
  BY <1>4
<1>7. GenerateTokens(line) = from[1]
  BY <1>5 DEF GenerateTokens, FromBody, IsFrom
<1> HIDE DEF from
<1>8. \A first \in 1 .. Len(line) + 1 : from[first] = FromBody(line, from, first)
  BY <1>5, <1>6 DEF IsFrom
<1> QED
  BY <1>7, <1>8

\* The type of the lexeme at a character, where there is one.
TypeAt(line, first) == CHOOSE type \in Forms : Ends(line, first, type) # {}

LEMMA LongestAt ==
  ASSUME NEW line \in Seq(Chars), NEW first \in 1..Len(line),
         ~ \A type \in Forms : Ends(line, first, type) = {}
  PROVE  LET type == TypeAt(line, first)
             end  == Max(Ends(line, first, type))
         IN  /\ type \in Forms /\ Ends(line, first, type) # {}
             /\ end \in first..Len(line) /\ end \in Ends(line, first, type)
<1> DEFINE type == TypeAt(line, first)
<1> DEFINE ends == Ends(line, first, type)
<1>1. type \in Forms /\ ends # {}
  BY DEF TypeAt
<1>2. ends \subseteq first..Len(line) /\ first \in Nat /\ Len(line) \in Nat
  BY DEF Ends
<1> HIDE DEF ends
<1>3. Max(ends) \in first..Len(line) /\ Max(ends) \in ends
  BY <1>1, <1>2, MaxOfSome
<1> QED
  BY <1>1, <1>3 DEF ends

IsAfter(line, n, g) == g = [first \in Last(line, n) |-> AfterBody(line, g, first)]

LEMMA MunchAfter ==
  ASSUME NEW line \in Seq(Chars)
  PROVE  \E g : /\ \A first \in 1 .. Len(line) + 1 : g[first] = AfterBody(line, g, first)
                /\ Munch(line) = IF line = <<>> THEN Thrown ELSE g[1]
<1> DEFINE N == Len(line) + 1
<1> DEFINE P == {n \in 0..N : \E g : IsAfter(line, n, g)}
<1>0. N \in Nat
  OBVIOUS
<1>1. 0 \in P
  <2> DEFINE g == [first \in {} |-> first]
  <2>1. Last(line, 0) = {}
    BY DEF Last
  <2>2. IsAfter(line, 0, g)
    BY <2>1 DEF IsAfter
  <2> QED
    BY <1>0, <2>2
<1>2. ASSUME NEW n \in 0..N, n < N, n \in P
      PROVE  n + 1 \in P
  <2>1. PICK g : IsAfter(line, n, g)
    BY <1>2
  <2> DEFINE m == Len(line) + (1 - n)
  <2> DEFINE h == [first \in Last(line, n + 1) |->
                      IF first = m THEN AfterBody(line, g, first) ELSE g[first]]
  <2>2. /\ Last(line, n + 1) = Last(line, n) \union {m} /\ m \notin Last(line, n)
        /\ Last(line, n + 1) \subseteq 1 .. Len(line) + 1
        /\ \A first \in Last(line, n + 1) : \A e \in Nat :
              e >= first /\ e <= Len(line) => e + 1 \in Last(line, n)
    BY <1>2, LastGrows
  <2>3. ASSUME NEW first \in Last(line, n + 1)
        PROVE  AfterBody(line, h, first) = AfterBody(line, g, first)
    <3>1. CASE first > Len(line) \/ \A type \in Forms : Ends(line, first, type) = {}
      <4> HIDE DEF h
      <4> QED
        BY <3>1 DEF AfterBody
    <3>2. CASE ~ (first > Len(line) \/ \A type \in Forms : Ends(line, first, type) = {})
      <4> DEFINE end == Max(Ends(line, first, TypeAt(line, first)))
      <4>1. first \in 1..Len(line)
        BY <2>2, <3>2
      <4>2. end \in first..Len(line)
        BY <3>2, <4>1, LongestAt
      <4> HIDE DEF end
      <4>3. h[end + 1] = g[end + 1]
        BY <2>2, <4>1, <4>2
      <4> HIDE DEF h
      <4> QED
        BY <4>3 DEF AfterBody, TypeAt, end
    <3> QED
      BY <3>1, <3>2
  <2>4. ASSUME NEW first \in Last(line, n + 1)
        PROVE  h[first] = AfterBody(line, h, first)
    <3>1. CASE first = m
      BY <2>3, <3>1
    <3>2. CASE first # m
      <4>1. first \in Last(line, n) /\ h[first] = g[first]
        BY <2>2, <3>2
      <4>2. g[first] = AfterBody(line, g, first)
        BY <2>1, <4>1 DEF IsAfter
      <4> QED
        BY <2>3, <4>1, <4>2
    <3> QED
      BY <3>1, <3>2
  <2>5. IsAfter(line, n + 1, h)
    BY <2>4 DEF IsAfter
  <2>6. n + 1 \in 0..N
    BY <1>0, <1>2
  <2> QED
    BY <2>5, <2>6
<1> HIDE DEF N, P
<1>3. N \in P
  <2>1. \A n \in 0..N : n \in P
    BY <1>0, <1>1, <1>2, Climb
  <2> QED
    BY <1>0, <2>1
<1>4. \E g : IsAfter(line, N, g)
  BY <1>3 DEF P
<1>5. Last(line, N) = 1 .. Len(line) + 1
  BY DEF Last, N
<1> DEFINE after == CHOOSE g : IsAfter(line, N, g)
<1>6. IsAfter(line, N, after)
  BY <1>4
<1>7. Munch(line) = IF line = <<>> THEN Thrown ELSE after[1]
  BY <1>5 DEF Munch, AfterBody, IsAfter, Ends
<1> HIDE DEF after
<1>8. \A first \in 1 .. Len(line) + 1 : after[first] = AfterBody(line, after, first)
  BY <1>5, <1>6 DEF IsAfter
<1> QED
  BY <1>7, <1>8

\* Both give the same from every character on, and it is a list of tokens.  No
\* keyword is an integer, so that what is called one has the form of one.
KeywordTypes == {Keywords[name] : name \in DOMAIN Keywords}

AnyToken ==
    {t \in [token_type : Forms \union KeywordTypes, lexeme_string : Seq(Chars)] :
        t.token_type = "INTEGER" /\ "INTEGER" \notin KeywordTypes
          => HasForm("INTEGER", t.lexeme_string)}

Results  == {Thrown} \union {Read(list) : list \in Seq(AnyToken)}

LEMMA TokenType ==
  ASSUME NEW type \in Forms, NEW word \in Seq(Chars), HasForm(type, word)
  PROVE  Token(Kind(type, word), Bare(type, word)) \in AnyToken
<1> DEFINE t == Token(Kind(type, word), Bare(type, word))
<1>1. Kind(type, word) \in Forms \union KeywordTypes
  BY DEF Kind, Identify, KeywordTypes, Forms
<1>2. Bare(type, word) \in Seq(Chars)
  BY DEF Bare
<1>3. /\ t \in [token_type : Forms \union KeywordTypes, lexeme_string : Seq(Chars)]
      /\ t.token_type = Kind(type, word) /\ t.lexeme_string = Bare(type, word)
  BY <1>1, <1>2 DEF Token
<1> HIDE DEF t
<1>4. ASSUME Kind(type, word) = "INTEGER", "INTEGER" \notin KeywordTypes
      PROVE  HasForm("INTEGER", Bare(type, word))
  <2>1. type = "INTEGER"
    BY <1>4 DEF Kind, Identify, KeywordTypes
  <2> QED
    BY <2>1 DEF Bare
<1> QED
  BY <1>3, <1>4 DEF AnyToken, t

LEMMA ReadAfter ==
  ASSUME NEW rest \in Results, NEW list \in Seq(AnyToken)
  PROVE  /\ ~ rest.thrown => /\ Read(<<>> \o rest.tokens) = rest
                             /\ Read(list \o rest.tokens) \in Results
         /\ ~ Read(list).thrown /\ Read(list).tokens = list
         /\ rest.thrown => rest = Thrown
<1>1. ~ Read(list).thrown /\ Read(list).tokens = list
  BY DEF Read
<1>2. CASE rest = Thrown
  BY <1>1, <1>2 DEF Thrown
<1>3. CASE rest # Thrown
  <2>1. PICK l \in Seq(AnyToken) : rest = Read(l)
    BY <1>3 DEF Results
  <2>2. ~ rest.thrown /\ rest.tokens = l
    BY <2>1 DEF Read
  <2>3. <<>> \o l = l /\ list \o l \in Seq(AnyToken)
    BY <2>1, ConcatEmptySeq, ConcatProperties
  <2> QED
    BY <1>1, <2>1, <2>2, <2>3 DEF Results
<1> QED
  BY <1>2, <1>3

\* One token and the rest, made by the scanner and by Munch from the same rest.
LEMMA SameStep ==
  ASSUME NEW line \in Seq(Chars), NEW first \in 1..Len(line), NEW from, NEW after,
         \A k \in first + 1 .. Len(line) + 1 :
            after[k] \in Results /\ (k <= Len(line) => from[k] = after[k]),
         after[Len(line) + 1] = Read(<<>>)
  PROVE  /\ AfterBody(line, after, first) \in Results
         /\ FromBody(line, from, first) = AfterBody(line, after, first)
<1> DEFINE next == NextToken(line, first)
<1> DEFINE rest == IF next.end >= Len(line) THEN Read(<<>>) ELSE from[next.end + 1]
<1>1. FromBody(line, from, first) =
        IF next.result.thrown \/ rest.thrown THEN Thrown
        ELSE Read(next.result.tokens \o rest.tokens)
  BY DEF FromBody
<1>2. Thrown.thrown /\ Thrown \in Results
  BY DEF Thrown, Results
<1>3. CASE \A type \in Forms : Ends(line, first, type) = {}
  <2>1. next.result = Thrown
    BY <1>3, NextTokenNone
  <2>2. AfterBody(line, after, first) = Thrown
    BY <1>3 DEF AfterBody
  <2> QED
    BY <1>1, <1>2, <2>1, <2>2
<1>4. CASE ~ \A type \in Forms : Ends(line, first, type) = {}
  <2> DEFINE type == TypeAt(line, first)
  <2> DEFINE end == Max(Ends(line, first, type))
  <2> DEFINE word == SubSeq(line, first, end)
  <2> DEFINE made == Result(line, type, end, word)
  <2>0. end \in Ends(line, first, type)
    BY <1>4, LongestAt
  <2>1. /\ type \in Forms /\ Ends(line, first, type) # {} /\ end \in first..Len(line)
        /\ HasForm(type, word)
    <3>1. type \in Forms /\ Ends(line, first, type) # {} /\ end \in first..Len(line)
      BY <1>4, LongestAt
    <3>2. HasForm(type, word)
      BY <2>0 DEF Ends
    <3> QED
      BY <3>1, <3>2
  <2>2. AfterBody(line, after, first) =
          IF after[end + 1].thrown \/ Kind(type, word) = "IDENTIFIER" \/ CutOff(line, end, type)
          THEN Thrown
          ELSE IF type = "WHITESPACE" THEN after[end + 1]
          ELSE Read(<<Token(Kind(type, word), Bare(type, word))>> \o after[end + 1].tokens)
    <3>1. ~ (first > Len(line))
      OBVIOUS
    <3> QED
      BY <1>4, <3>1 DEF AfterBody, TypeAt, Kind, Bare, CutOff
  <2>3. next.result = made /\ (~ next.result.thrown => next.end = end)
    <3> HIDE DEF type
    <3> QED
      BY <2>1, NextTokenLongest
  <2>4. word \in Seq(Chars) /\ end \in Int /\ end + 1 \in first + 1 .. Len(line) + 1
    <3> HIDE DEF end
    <3> QED
      BY <2>1
  <2>5. after[end + 1] \in Results
    BY <2>4
  <2> HIDE DEF type, end, word, next, rest
  <2>6. ~ next.result.thrown => rest = after[end + 1]
    <3>1. CASE end = Len(line)
      BY <2>3, <2>4, <3>1 DEF rest
    <3>2. CASE end # Len(line)
      <4>1. end < Len(line) /\ end + 1 <= Len(line) /\ ~ (end >= Len(line))
        BY <2>1, <2>4, <3>2
      <4>2. from[end + 1] = after[end + 1]
        BY <2>4, <4>1
      <4> QED
        BY <2>3, <4>1, <4>2 DEF rest
    <3> QED
      BY <3>1, <3>2
  <2>7. CASE Kind(type, word) = "IDENTIFIER" \/ CutOff(line, end, type)
    BY <1>1, <1>2, <2>2, <2>3, <2>7 DEF Result
  <2>8. CASE ~ (Kind(type, word) = "IDENTIFIER" \/ CutOff(line, end, type))
    <3> DEFINE list == IF type = "WHITESPACE" THEN <<>>
                       ELSE <<Token(Kind(type, word), Bare(type, word))>>
    <3>1. made = Read(list)
      BY <2>8 DEF Result
    <3>2. list \in Seq(AnyToken)
      <4>1. Token(Kind(type, word), Bare(type, word)) \in AnyToken
        BY <2>1, <2>4, TokenType
      <4>2. <<>> \in Seq(AnyToken)
        OBVIOUS
      <4> QED
        BY <4>1, <4>2
    <3> HIDE DEF list
    <3>3. ~ next.result.thrown /\ next.result.tokens = list
      BY <2>3, <2>5, <3>1, <3>2, ReadAfter
    <3>4. rest = after[end + 1]
      BY <2>6, <3>3
    <3>5. CASE rest.thrown
      BY <1>1, <1>2, <2>2, <3>4, <3>5
    <3>6. CASE ~ rest.thrown
      <4>1. Read(<<>> \o rest.tokens) = rest /\ Read(list \o rest.tokens) \in Results
        BY <2>5, <3>2, <3>4, <3>6, ReadAfter
      <4>2. FromBody(line, from, first) = Read(list \o rest.tokens)
        BY <1>1, <3>3, <3>6
      <4>3. AfterBody(line, after, first) = Read(list \o rest.tokens)
        BY <2>2, <2>8, <3>4, <3>6, <4>1 DEF list
      <4> QED
        BY <4>1, <4>2, <4>3
    <3> QED
      BY <3>5, <3>6
  <2> QED
    BY <2>7, <2>8
<1> QED
  BY <1>3, <1>4

\* nextToken's loop over the automaton and GenerateTokens' loop over the line
\* give the tokens of maximal munch, and an exception where there are none,
\* whatever the alphabet, the keywords and the line (Lexer.cpp:28-152).
THEOREM LexerCorrect ==
  ASSUME NEW line \in Seq(Chars)
  PROVE  GenerateTokens(line) = Munch(line) /\ GenerateTokens(line) \in Results
<1> DEFINE L == Len(line)
<1>0. L \in Nat
  OBVIOUS
<1>1. PICK from : /\ \A first \in 1 .. L + 1 : from[first] = FromBody(line, from, first)
                  /\ GenerateTokens(line) = from[1]
  BY GenerateTokensFrom
<1>2. PICK after : /\ \A first \in 1 .. L + 1 : after[first] = AfterBody(line, after, first)
                   /\ Munch(line) = IF line = <<>> THEN Thrown ELSE after[1]
  BY MunchAfter
<1>3. CASE line = <<>>
  <2>1. L = 0 /\ 1 \in 1 .. L + 1
    BY <1>3
  <2>2. NextToken(line, 1).result = Thrown
    <3>1. {k \in 1 .. Len(line) : Run(line, 1)[k] \in DOMAIN TokenMap} = {}
      BY <2>1
    <3> QED
      BY <3>1 DEF NextToken
  <2>3. FromBody(line, from, 1) = Thrown
    BY <2>2 DEF FromBody, Thrown
  <2>4. GenerateTokens(line) = Thrown
    BY <1>1, <2>1, <2>3
  <2> QED
    BY <1>2, <1>3, <2>4 DEF Results
<1>4. CASE line # <<>>
  <2> DEFINE Same(k) == after[k] \in Results /\ (k <= L => from[k] = after[k])
  <2> DEFINE P == {n \in 0 .. L : \A k \in L + 1 - n .. L + 1 : Same(k)}
  <2>1. after[L + 1] = Read(<<>>)
    <3>1. L + 1 \in 1 .. L + 1 /\ L + 1 > Len(line)
      BY <1>0
    <3> QED
      BY <1>2, <3>1 DEF AfterBody
  <2>2. Read(<<>>) \in Results
    <3>1. <<>> \in Seq(AnyToken)
      OBVIOUS
    <3> QED
      BY <3>1 DEF Results
  <2>3. 0 \in P
    <3>1. L + 1 - 0 .. L + 1 = {L + 1} /\ ~ (L + 1 <= L)
      BY <1>0
    <3> QED
      BY <1>0, <2>1, <2>2, <3>1
  <2>4. ASSUME NEW n \in 0 .. L, n < L, n \in P
        PROVE  n + 1 \in P
    <3> DEFINE m == L - n
    <3>1. m \in 1 .. Len(line) /\ m \in 1 .. L + 1 /\ n + 1 \in 0 .. L
      BY <1>0, <2>4
    <3>2. L + 1 - n = m + 1 /\ L + 1 - (n + 1) = m
      BY <1>0
    <3>3. m .. L + 1 = (m + 1 .. L + 1) \union {m}
      BY <1>0, <3>1
    <3>4. \A k \in m + 1 .. L + 1 : Same(k)
      BY <2>4, <3>2
    <3> HIDE DEF m
    <3>5. /\ AfterBody(line, after, m) \in Results
          /\ FromBody(line, from, m) = AfterBody(line, after, m)
      BY <2>1, <3>1, <3>4, SameStep
    <3>6. Same(m)
      BY <1>1, <1>2, <3>1, <3>5
    <3> HIDE DEF Same
    <3>7. \A k \in m .. L + 1 : Same(k)
      BY <3>3, <3>4, <3>6
    <3> QED
      BY <3>1, <3>2, <3>7
  <2> HIDE DEF P
  <2>5. L \in P
    <3>1. \A n \in 0 .. L : n \in P
      BY <1>0, <2>3, <2>4, Climb
    <3> QED
      BY <1>0, <3>1
  <2>6. L >= 1 /\ 1 \in L + 1 - L .. L + 1
    BY <1>0, <1>4
  <2>7. Same(1)
    BY <2>5, <2>6 DEF P
  <2> QED
    BY <1>1, <1>2, <1>4, <2>6, <2>7
<1> QED
  BY <1>3, <1>4

\* What is handed on as an integer is one or more digits, a minus before them
\* or not, so that std::stoi finds a number in it, whatever its range
\* (Parse_Input.cpp:185).
THEOREM NumbersHaveDigits ==
  ASSUME NEW line \in Seq(Chars), "INTEGER" \notin KeywordTypes
  PROVE  LET list == GenerateTokens(line).tokens
         IN  \A k \in DOMAIN list :
                list[k].token_type = "INTEGER" => HasForm("INTEGER", list[k].lexeme_string)
<1>1. GenerateTokens(line) \in Results
  BY LexerCorrect
<1>2. CASE GenerateTokens(line) = Thrown
  <2>1. GenerateTokens(line).tokens = <<>>
    BY <1>2 DEF Thrown
  <2> QED
    BY <2>1
<1>3. CASE GenerateTokens(line) # Thrown
  <2>1. PICK list \in Seq(AnyToken) : GenerateTokens(line) = Read(list)
    BY <1>1, <1>3 DEF Results
  <2>2. GenerateTokens(line).tokens = list
    BY <2>1 DEF Read
  <2>3. \A k \in DOMAIN list : list[k] \in AnyToken
    BY <2>1
  <2> QED
    BY <2>2, <2>3 DEF AnyToken
<1> QED
  BY <1>2, <1>3
=============================================================================
