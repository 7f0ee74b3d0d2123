SPECIFICATION FifoSpec
CONSTANTS
    Depth = 2
    Item = {0, 1, 2}
    Zero = 0
    AlmostFullThreshold = 1
PROPERTY
    ImplementsQueue
