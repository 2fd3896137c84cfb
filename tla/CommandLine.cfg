\* One client whose user types lines.
SPECIFICATION Spec
CONSTANTS
    Chars <- MCChars
    Class <- MCClass
    UpperCase <- MCUpperCase
    Digit <- MCDigit
    Keywords <- MCKeywords
    Lines <- MCLines
    Kinds <- MCKinds
    Shapes <- MCShapes
    Targets <- MCTargets
    UserId = 1
    IntMin <- MCIntMin
    IntMax = 15
INVARIANTS TypeOK LexerMunches SentIsIssuable SelectionForNextDraw
\* exit, an exception that nobody catches and signals end the client.
CHECK_DEADLOCK FALSE
