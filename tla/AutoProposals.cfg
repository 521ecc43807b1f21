SPECIFICATION Spec
CONSTANTS
    Contents = {c1, c2}
    Clean = clean
    MaxEdits = 2
    MaxExtras = 2
INVARIANTS OneAtATime NotOfferedAgain
PROPERTIES OrphansSettle FindingsAreOffered
CHECK_DEADLOCK FALSE
