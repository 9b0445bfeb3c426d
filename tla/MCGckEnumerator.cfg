SPECIFICATION Spec
CONSTANTS
    e1 = e1  e2 = e2  s1 = s1  s2 = s2  s3 = s3
    o1 = o1  o2 = o2  o3 = o3  h1 = h1  h2 = h2  h3 = h3  c1 = c1  c2 = c2
    Enumerator = {e1, e2}
    Caller = {c1, c2}
    Slot = {s1, s2, s3}
    Object = {o1, o2, o3}
    Session = {h1, h2, h3}
    None = None
    Contents <- EnumContents
    Matching = {s1, s3}
    Modules <- EnumModules
    Slots <- EnumSlots
    Given <- EnumGiven
    GivenSlot <- EnumGivenSlot
    Chainable <- EnumChainable
    Async = {c2}
    Want <- EnumWant
    MaxSkipped = 1
INVARIANT EnumerationSound
PROPERTY WholeListing
CHECK_DEADLOCK FALSE
