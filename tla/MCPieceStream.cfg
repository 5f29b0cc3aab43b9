SPECIFICATION Spec
CONSTANTS
    Pieces = {i0, i1}
    Calls = {c1}
INVARIANT WrittenPiecesStay
