SPECIFICATION Spec
CONSTANTS
    Hosts = {h1, h2}
    Uploads = {u1, u2}
    Documents = {d1}
    Archives = {a1}
    Commands = {c1, c2}
    Content <- SameContent
    Losable = {d1}
    None = None
SYMMETRY Symmetry
INVARIANTS
    RowHasFile
    FilesAccounted
    LinkedHasRow
    OneAssetPerCommand
