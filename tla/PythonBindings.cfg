SPECIFICATION Spec
CONSTANTS
    Ids = {1, 2}
    Components = {0, 1}
    Dimension = 2
    Cosine <- DotProduct
    Counts = {1}
    Threads = {t1, t2}
    Nobody = Nobody
    Capacity = 2
    MaxLength = 3
SYMMETRY
    Interchangeable
PROPERTIES
    ImplementsStore
