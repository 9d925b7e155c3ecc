\* Two areas of two good pages, clusters of one, priority 1 given or -1
\* taken, failing reads in swapoff; counts stay below SWAP_MAP_MAX (AllocComplete is therefore not checked).
CONSTANTS
    NTypes = 2
    MaxPage = 2
    Cluster = 1
    MapMax = 3
    MaxRefs = 2
    PrefPrios <- MCPrefPrios
    MinPrio <- MCMinPrio
    ReadFails = TRUE
    HeaderDups = FALSE
    Headers <- MCHeaders
SPECIFICATION Spec
INVARIANT TypeOK CountMatchesRefs NrSwapPagesExact SwapListWellFormed
PROPERTY SwapoffTerminates
