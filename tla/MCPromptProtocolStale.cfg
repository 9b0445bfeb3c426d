SPECIFICATION Spec
CONSTANTS
    nameA = nameA
    nameB = nameB
    cbA = cbA
    cbB = cbB
    o1 = o1
    o2 = o2
    null = null
    Callback = {cbA}
    Name = {nameA, nameB}
    NameOf <- MCNameOf
    Object = {o1, o2}
    NoObject = null
    Mode = "single"
    MaxPerform = 2
    Limit <- MCLimit
    Synchronous = {}
    Cancelling = {}
    Impatient = {}
    Dismissable = FALSE
    Mortal = FALSE
    Hasty = {cbA}
CHECK_DEADLOCK FALSE
VIEW View
INVARIANTS
    AnswerMatchesQuestion
