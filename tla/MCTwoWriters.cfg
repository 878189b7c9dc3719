SPECIFICATION Spec
CONSTANTS
    Creators = {c1}
    Writers = {w1, w2}
    Appenders = {a1}
    Limit = 1
    MaxEvents = 1
PROPERTY
    TerminalIsFinal
