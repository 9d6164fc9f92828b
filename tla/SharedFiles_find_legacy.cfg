SPECIFICATION FileFairSpec
CONSTANTS
    Files = {f1}
    Pictures = {f1}
    OldAssets = {a1}
    Uploads = {u1}
    Cleaners = {w1}
    MaxDropped = 1
PROPERTIES LegacyIsCleaned
