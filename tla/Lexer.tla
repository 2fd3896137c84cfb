------------------------------- MODULE Lexer -------------------------------
(***************************************************************************)
(* The lexer of the client's command lines (Client/Lexer): a scanner that  *)
(* runs a finite automaton over the characters and turns what it has read  *)
(* into a token.                                                           *)
(*                                                                         *)
(* Lines are sequences of characters.  Which characters there are is left  *)
(* open: what counts is the lexeme class of each, its upper-case form and  *)
(* the words that are keywords.                                            *)
(***************************************************************************)
EXTENDS Integers, Sequences, FiniteSetsExt

CONSTANTS Chars,          \* characters
          Class,          \* [Chars -> Lexemes]
          UpperCase,      \* [Chars -> Chars]
          Digit,          \* the value of each digit
          Keywords        \* keywords in upper case, with their token types

Lexemes == {"letter", "digit", "space", "newline", "quotation", "minus", "unknown"}

ASSUME ClassAssumption == Class \in [Chars -> Lexemes]
ASSUME UpperCaseAssumption == UpperCase \in [Chars -> Chars]
ASSUME DigitAssumption == \A c \in Chars : Class[c] = "digit" => Digit[c] \in 0..9

-----------------------------------------------------------------------------
(* The automaton.                                                          *)

\* The entries initTransitions makes; all others of the table are ERROR.
Transitions ==
    [START    |-> [digit |-> "INT", minus |-> "INT_NEG", letter |-> "IDEN",
                   space |-> "WS", newline |-> "WS", quotation |-> "STRING_1"],
     INT      |-> [digit |-> "INT", letter |-> "SYNTAX_ERROR"],
     INT_NEG  |-> [digit |-> "INT"],
     IDEN     |-> [letter |-> "IDEN"],
     WS       |-> [space |-> "WS", newline |-> "WS"],
     STRING_1 |-> [letter |-> "STRING_1", digit |-> "STRING_1", space |-> "STRING_1",
                   newline |-> "STRING_1", unknown |-> "STRING_1",
                   quotation |-> "STRING_2"]]

\* Mutant of NextState: a word goes on with digits.
NextStateWordDigits(state, lexeme) ==
    IF state = "IDEN" /\ lexeme = "digit" THEN "IDEN"
    ELSE IF state \in DOMAIN Transitions /\ lexeme \in DOMAIN Transitions[state]
    THEN Transitions[state][lexeme]
    ELSE "ERROR"

NextState(state, lexeme) ==
    IF state \in DOMAIN Transitions /\ lexeme \in DOMAIN Transitions[state]
    THEN Transitions[state][lexeme]
    ELSE "ERROR"

TokenMap == [INT |-> "INTEGER", IDEN |-> "IDENTIFIER", WS |-> "WHITESPACE",
             STRING_2 |-> "STRING"]

\* The states on the way from START at the character first, by the number of
\* the last character read.
Run(line, first) ==
    LET state[k \in first - 1 .. Len(line)] ==
            IF k = first - 1 THEN "START"
            ELSE NextState(state[k - 1], Class[line[k]])
    IN  state

-----------------------------------------------------------------------------
(* Tokens.                                                                 *)

Token(type, lexeme) == [token_type |-> type, lexeme_string |-> lexeme]

\* What a lexer call gives: tokens, or an exception.
Thrown     == [thrown |-> TRUE,  tokens |-> <<>>]
Read(list) == [thrown |-> FALSE, tokens |-> list]

\* The lexeme as it ends up in the token: a word must be a keyword, in
\* whatever case; a string loses its quotes; white space makes no token.
Identify(word) ==
    LET name == [k \in DOMAIN word |-> UpperCase[word[k]]]
    IN  IF name \in DOMAIN Keywords THEN Keywords[name] ELSE "IDENTIFIER"

Made(state, lexeme) ==
    CASE TokenMap[state] = "IDENTIFIER" ->
           IF Identify(lexeme) = "IDENTIFIER"
           THEN Thrown
           ELSE Read(<<Token(Identify(lexeme), lexeme)>>)
      [] TokenMap[state] = "STRING" ->
           Read(<<Token("STRING", SubSeq(lexeme, 2, Len(lexeme) - 1))>>)
      [] TokenMap[state] = "WHITESPACE" -> Read(<<>>)
      [] OTHER -> Read(<<Token(TokenMap[state], lexeme)>>)

\* nextToken: the token ends with the last accepting state; none, or a syntax
\* error on the way, is an exception.  end is the last character of the token.
\* The code pushes the states on a stack, which it empties at an accepting one,
\* and pops them, a character each, when the automaton stops.  That is not
\* modelled: for this table the two agree, as no state that is not accepting
\* follows an accepting one except ERROR and SYNTAX_ERROR.
NextToken(line, first) ==
    LET state     == Run(line, first)
        accepting == {k \in first .. Len(line) : state[k] \in DOMAIN TokenMap}
        end       == Max(accepting)
    IN  IF accepting = {} \/ \E k \in first .. Len(line) : state[k] = "SYNTAX_ERROR"
        THEN [end |-> first, result |-> Thrown]
        ELSE [end |-> end, result |-> Made(state[end], SubSeq(line, first, end))]

\* GenerateTokens: token after token until the line ends.  An empty line has
\* no first token, and is an error.
GenerateTokens(line) ==
    LET from[first \in 1 .. Len(line) + 1] ==
            LET next == NextToken(line, first)
                rest == IF next.end >= Len(line) THEN Read(<<>>) ELSE from[next.end + 1]
            IN  IF next.result.thrown \/ rest.thrown THEN Thrown
                ELSE Read(next.result.tokens \o rest.tokens)
    IN  from[1]

\* std::stoi: the number a lexeme of type INTEGER denotes.
Stoi(lexeme) ==
    LET negative == Class[lexeme[1]] = "minus"
        number[k \in 0 .. Len(lexeme)] ==
            IF k = 0 \/ (k = 1 /\ negative) THEN 0
            ELSE 10 * number[k - 1] + Digit[lexeme[k]]
    IN  IF negative THEN -number[Len(lexeme)] ELSE number[Len(lexeme)]

-----------------------------------------------------------------------------
(* What the lexer is to compute, without an automaton.                     *)

AllOf(word, classes) == \A k \in DOMAIN word : Class[word[k]] \in classes

\* The form of each token type's lexemes.
HasForm(type, word) ==
    CASE type = "IDENTIFIER" -> word # <<>> /\ AllOf(word, {"letter"})
      [] type = "WHITESPACE" -> word # <<>> /\ AllOf(word, {"space", "newline"})
      [] type = "INTEGER" ->
           \/ word # <<>> /\ AllOf(word, {"digit"})
           \/ Len(word) > 1 /\ Class[word[1]] = "minus" /\ AllOf(Tail(word), {"digit"})
      [] type = "STRING" ->
           /\ Len(word) > 1
           /\ \A k \in DOMAIN word :
                 IF k \in {1, Len(word)} THEN Class[word[k]] = "quotation"
                 ELSE Class[word[k]] \notin {"quotation", "minus"}

Forms == {"IDENTIFIER", "WHITESPACE", "INTEGER", "STRING"}

\* Maximal munch: the longest lexeme that starts at a character, and the rest.
\* An integer ends where no letter follows.
Munch(line) ==
    LET length(type, first) ==
            {k \in first .. Len(line) : HasForm(type, SubSeq(line, first, k))}
        after[first \in 1 .. Len(line) + 1] ==
            IF first > Len(line) THEN Read(<<>>)
            ELSE IF \A type \in Forms : length(type, first) = {} THEN Thrown
            ELSE
              LET type == CHOOSE type \in Forms : length(type, first) # {}
                  end  == Max(length(type, first))
                  word == SubSeq(line, first, end)
                  rest == after[end + 1]
                  bare == IF type = "STRING" THEN SubSeq(word, 2, Len(word) - 1) ELSE word
                  kind == IF type = "IDENTIFIER" THEN Identify(word) ELSE type
              IN  IF \/ rest.thrown
                     \/ kind = "IDENTIFIER"
                     \/ type = "INTEGER" /\ end < Len(line) /\ Class[line[end + 1]] = "letter"
                  THEN Thrown
                  ELSE IF type = "WHITESPACE" THEN rest
                  ELSE Read(<<Token(kind, bare)>> \o rest.tokens)
    IN  IF line = <<>> THEN Thrown ELSE after[1]
=============================================================================
