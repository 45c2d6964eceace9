SPECIFICATION RolesSpec
CONSTANTS
    p1 = p1
    p2 = p2
    p3 = p3
    p4 = p4
    Pings = {p1, p2, p3, p4}
    MaxFrames = 3
PROPERTY
    ControlCallbackOnEveryFrame
