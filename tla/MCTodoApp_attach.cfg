CONSTANTS
    r1 = r1  r2 = r2  i1 = i1  i2 = i2  d1 = d1
    n1 = n1  u1 = u1  u2 = u2  b1 = b1
    Reqs = {r1, r2}
    Ids = {i1, i2}
    Descs = {d1}
    FileNames = {n1, u1}
    Datas = {NilData, b1}
    Location <- MCLocation
    NoName = NoName  NilData = NilData  NoFile = NoFile
    NoRow = NoRow  NoObject = NoObject  NoDesc = NoDesc
    LateFailure = FALSE
SYMMETRY MCSymmetry
SPECIFICATION AppSpec
INVARIANTS CreatedItemCarriesUploadedFileId
