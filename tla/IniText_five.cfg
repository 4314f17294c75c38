\* Every text of up to five characters.
SPECIFICATION Spec
CONSTANTS
    Chars <- MCChars
    Blanks = {"-"}
    Quotes = {"'", "Q"}
    Ansi <- MCAnsi
    BufSize = 5
    Typed <- MCTyped
INVARIANTS
    TypeOK
PROPERTIES
    SurvivesIfPlain
    Settles
