CONSTANTS
    a = a
    b = b
    r1 = r1
    Contents = {a, b}
    Valid = {a, b}
    Missing = Missing
    nil = nil
    Readers = {r1}
    MaxEdits = 2
    EditsDuringUpdate = TRUE
SPECIFICATION FairSpec
PROPERTY ValidFileIsActivated
