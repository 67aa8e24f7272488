SPECIFICATION Spec
CHECK_DEADLOCK FALSE
CONSTANTS
    Root = Root
    Leaf = Leaf
    NoCluster = NoCluster
    NoItem = NoItem
    alpha = alpha
    beta = beta
    Item <- MCItem
    SliceItem <- MCSliceItem
    SliceFault <- MCSliceFault
    Needle = alpha
    MaxRows = 1
    Revisits = FALSE
INVARIANT RowsAreOfTheirCluster
