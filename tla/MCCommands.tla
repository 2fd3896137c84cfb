----------------------------- MODULE MCCommands -----------------------------
EXTENDS Commands, TLC

(* Letters that are keywords, some of them prefixes of others; two digits; *)
(* an int of five bits.                                                    *)
MCLetters == {"t", "T", "o", "O", "d", "D", "x", "s", "l", "n", "c", "a", "m", "f", "u", "w", "e"}
MCClass ==
    [c \in MCLetters |-> "letter"] @@ ("0" :> "digit") @@ ("1" :> "digit") @@ (" " :> "space")
      @@ ("\n" :> "newline") @@ ("'" :> "quotation") @@ ("-" :> "minus") @@ ("?" :> "unknown")
MCChars == DOMAIN MCClass
MCUpperCase ==
    [c \in MCChars |-> CASE c = "t" -> "T" [] c = "o" -> "O" [] c = "d" -> "D" [] OTHER -> c]
MCDigit == ("0" :> 0) @@ ("1" :> 1)

MCKeywords ==
    (<<"D">> :> "DRAW") @@ (<<"T">> :> "TEXT") @@ (<<"T", "O">> :> "TOOL")
      @@ (<<"O">> :> "CIRCLE") @@ (<<"l">> :> "LINE") @@ (<<"l", "l">> :> "RECTANGLE")
      @@ (<<"s">> :> "SELECT") @@ (<<"x">> :> "DELETE") @@ (<<"n">> :> "NONE")
      @@ (<<"c">> :> "CLEAR") @@ (<<"c", "c">> :> "COLOUR") @@ (<<"a">> :> "ALL")
      @@ (<<"m">> :> "MINE") @@ (<<"f">> :> "FILL") @@ (<<"u">> :> "UNDO")
      @@ (<<"w">> :> "SHOW") @@ (<<"e">> :> "EXIT") @@ (<<"x", "x">> :> "HELP")
      @@ (<<"l", "s">> :> "LIST")

\* All lines of at most three characters, and those of four that can be parts of
\* numbers and strings.
MCShort == UNION {[1..n -> {"t", "O", "1", " ", "'", "-", "?"}] : n \in 0..3}
             \union [1..4 -> {"t", "1", "'", "-"}]

\* Words with a space between each two.
Spaced(words) ==
    LET upto[n \in 0..Len(words)] ==
            IF n = 0 THEN <<>>
            ELSE IF n = 1 THEN words[1]
            ELSE upto[n - 1] \o <<" ">> \o words[n]
    IN  upto[Len(words)]

W(c) == <<c>>
MCNumbers == {W("0"), <<"1", "1">>, <<"-", "1", "0">>, <<"1", "0", "0">>}
MCParameters == MCNumbers \union {W("n"), W("a"), W("m"), W("T"), W("l"), W("O"), <<"l", "l">>}

MCDraws ==
    {<<W("d"), n, W("0")>> \o rest : n \in {W("0"), <<"1", "0", "0">>},
        rest \in {<<>>, <<W("1")>>, <<W("1"), W("1")>>, <<W("1"), W("1"), W("1")>>,
                  <<W("f")>>, <<W("1"), W("f")>>, <<W("1"), W("1"), W("f")>>,
                  <<W("1"), W("m")>>, <<W("1"), W("1"), W("f"), W("f")>>,
                  <<<<"'", "?", "t", "1", " ", "'">>>>, <<<<"'", "-", "'">>>>, <<<<"'", "'">>>>}}

MCLong ==
    {Spaced(words) : words \in
        MCDraws
          \union {<<W(c), p>> : c \in {"s", "x", "c", "w"}, p \in MCParameters}
          \union {<<<<"t", "o">>, p>> : p \in MCParameters}
          \union {<<<<"c", "c">>, W("0"), W("0"), n>> : n \in MCParameters}
          \union {<<W("u")>>, <<W("u"), W("a")>>, <<W("e")>>, <<W("e"), W("0")>>,
                  <<W("s"), W("0"), W("0")>>, <<W("x"), W("0"), W("0")>>, <<<<"x", "x">>>>,
                  <<<<"l", "s">>, W("a"), W("m")>>, <<W("w"), W("a"), W("a")>>}}
      \union {<<"d", "1", " ", "1", " ", "1", " ", "1">>, <<"1", "1", "'", "t", "'", "O">>,
              <<"'", "\n", "'", "'", "'", "-", "1">>, <<"\n", "T", "\n", "-">>}

MCLines == MCShort \union MCLong

MCKinds == AllKinds
MCShapes == Tools \union {NoShape, EmptyText}
MCTargets == -16..15
MCIntMin == -16
=============================================================================
