CONSTANTS
    a = a
    b = b
    r1 = r1
    Contents = {a, b}
    Valid = {a}
    Missing = Missing
    nil = nil
    Readers = {r1}
    MaxEdits = 2
    EditsDuringUpdate = FALSE
SPECIFICATION FairSpec
PROPERTY UnreadableFileIsDropped
