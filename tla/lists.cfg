SPECIFICATION Spec
CONSTANTS
    l1 = l1
    l2 = l2
    Lists = {l1, l2}
    Values = {1, 2}
    BlockSize = 2
    MaxLen = 4
INVARIANTS
    Consistent
    ShortcutRight
PROPERTIES
    ImplementsList
VIEW ListsOnly
SYMMETRY TwoLists
