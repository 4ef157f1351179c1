\* Two disconnections, and a customer who connects again in between.
SPECIFICATION Spec
CONSTANTS
    link1 = link1
    link2 = link2
    login = login
    callback1 = callback1
    callback2 = callback2
    disconnect1 = disconnect1
    disconnect2 = disconnect2
    person = person
    None = None
    Links = {link1, link2}
    LoginLinks = {login}
    Person <- MCPerson
    Callbacks = {callback1, callback2}
    Disconnects = {disconnect1, disconnect2}
    MaxFaults = 1
SYMMETRY MCSymmetry
PROPERTIES
    ErasedIsRevoked
\* A customer may do nothing more.
CHECK_DEADLOCK FALSE
