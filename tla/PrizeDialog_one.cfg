\* One copy; its dialogs share nothing with those of another.
SPECIFICATION Spec
CONSTANTS
    c1 = c1
    Copies = {c1}
    Values <- MCValues
    Texts <- MCTexts
    Read <- MCRead
    Show <- MCShow
    Empty = Empty
    ann = ann
    pw = pw
    Loads <- MCLoads
    NoDialog = NoDialog
INVARIANTS
    TypeOK
    SendsWhatIsShown
    ConfigAsAccepted
