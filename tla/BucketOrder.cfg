\* Two blocks of five buckets after each other, every heap over them.
SPECIFICATION Spec
CONSTANTS
    numBuckets = 5
    MaxSize = 2
    MaxSorts = 2
INVARIANTS
    OrderedBySize
    PopsLargest
