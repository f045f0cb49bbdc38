SPECIFICATION FairSpec
CONSTANTS
    c1 = c1
    c2 = c2
    k1 = k1
    k2 = k2
    Clients <- OneClient
    Writers <- OneWriter
    Keys <- OneKey
    Manifest = Manifest
    None = None
    MaxSaves = 1
    MaxFails = 0
    MaxLosses = 1
PROPERTY FolderRediscovered
