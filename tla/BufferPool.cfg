SPECIFICATION Spec
CONSTANTS
    Tasks = {t1, t2}
    ClassSize <- TwoClasses
    MaxPooled = 8
    MaxBuffers = 2
    MaxFrame = 9
    Sizes = {0, 2, 3, 8, 9, 10}
SYMMETRY Symmetry
INVARIANTS
    FitsUnlessReshaped
