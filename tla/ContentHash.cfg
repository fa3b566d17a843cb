SPECIFICATION Spec
CONSTANTS
    Names <- MCNames
    Contents <- MCContents
INVARIANTS Stable Faithful
CHECK_DEADLOCK FALSE
