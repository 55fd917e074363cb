\* The automatic table size gives eight positions for three slots; the other
\* gives two, and the table fills up before the slots do.
CONSTANTS
    Key = {1, 2, 3, 4}
    HashKey <- MCHashKey
    NumSlots = 3
    HashTableSizes = {0, 2}
    MinValueSize = 2
    MaxValueSize = 4
    ValueAlign = 2
    SizeMod = 8
    Unit = {"a", "b"}
    Values <- MCValues
    SegmentLists <- MCSegmentLists
    Sizes = {2, 4, 6}
SPECIFICATION StoreSpec
INVARIANTS
    KvStoreTypeOK
    ProbeChains
    SlotsOwnedOnce
PROPERTIES
    ImplementsKvMap
