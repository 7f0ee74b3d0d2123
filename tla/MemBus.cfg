SPECIFICATION BusSpec
CONSTANTS
    Addr = {2047, 2048, 2175, 2176, 4096, 6143, 16384, 24576, 24639, 24640, 67584}
INVARIANTS
    ReachesItsMemory
    AnswersTheRequest
