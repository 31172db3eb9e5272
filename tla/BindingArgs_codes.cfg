SPECIFICATION BindingSpec
CONSTANTS
    Nil = Nil
    Width = 5
    Ints <- MC_Ints
    Lens = {0, 1, 2, 3, 4, 6, 8, 9}
    WorkLens = {2, 3, 4, 5, 7, 8, 9, 10, 12, 15}
    Rows <- MC_Rows
INVARIANT NilMeansSuccess
CHECK_DEADLOCK FALSE
