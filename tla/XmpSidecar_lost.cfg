SPECIFICATION Spec
CONSTANTS
    w1 = w1
    w2 = w2
    a = a
    b = b
    t = t
    Writers = {w1, w2}
    Fields = {"kw", "rating"}
    Foreign = {"gps"}
    Data <- MCData
    ToolDocs <- MCToolDocs
    Modes = {"0600"}
    Absent = Absent
    Leave = Leave
    BadDoc = BadDoc
    EmptyDoc = EmptyDoc
PROPERTIES OthersPreserved
