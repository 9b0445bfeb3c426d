SPECIFICATION Spec
CONSTANTS
    nameA = nameA
    nameB = nameB
    cbA1 = cbA1
    cbA2 = cbA2
    cbB1 = cbB1
    o1 = o1
    o2 = o2
    o3 = o3
    q1 = q1
    null = null
    Name <- MCName
    Callback <- MCCallback
    NameOf <- MCNameOf
    Object = {o1, o2, o3}
    NoObject = null
    Question = {q1}
    NoQuestion = null
    Mode = "single"
    Vanishing <- MCName
    Dismissable = TRUE
SYMMETRY Symmetry
INVARIANTS
    RecordsSound
    NoAnswerAfterStop
PROPERTIES
    ImplementsQueue
    HandlersWakeNext
