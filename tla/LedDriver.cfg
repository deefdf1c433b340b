SPECIFICATION Spec
CONSTANTS
    Writers = {w1, w2}
    Loader = Loader
SYMMETRY Symmetry
INVARIANTS
    StoresAreMapped
    OpenFileKeepsModule
    NothingIsLeft
    LampIsOfBatch
