SPECIFICATION Spec
CONSTANTS
    Urls = {u, v, w}
    None = None
    HasContext = FALSE
    MAX_IMAGES = 2
    MaxMessages = 3
    MaxEntries = 2
CHECK_DEADLOCK FALSE
SYMMETRY Symmetry
INVARIANT TypeOK
PROPERTY NewestImagesFirst
