CONSTANTS
    r1 = r1  r2 = r2  r3 = r3  i1 = i1  i2 = i2  d1 = d1  d2 = d2
    n1 = n1  u1 = u1  b1 = b1
    Reqs = {r1, r2}
    Ids = {i1, i2}
    Descs = {d1, d2}
    FileNames = {n1}
    Datas = {NilData, b1}
    Location <- MCLocation
    NoName = NoName  NilData = NilData  NoFile = NoFile
    NoRow = NoRow  NoObject = NoObject
    LateFailure = FALSE
SYMMETRY MCSymmetry
SPECIFICATION Spec
INVARIANTS NoFileMeansEmptyFileId
