SPECIFICATION Spec
CONSTANTS
    c1 = c1
    c2 = c2
    k1 = k1
    k2 = k2
    Clients <- TwoClients
    Writers <- OneWriter
    Keys <- TwoKeys
    Manifest = Manifest
    None = None
    MaxSaves = 2
    MaxFails = 1
    MaxLosses = 1
SYMMETRY KeySymmetry
INVARIANT TypeOK
INVARIANT OneFilePerName
PROPERTY AnnouncedIsTrue
PROPERTY EntriesFollowFiles
