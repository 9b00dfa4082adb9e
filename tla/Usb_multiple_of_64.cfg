SPECIFICATION UsbSpec
CONSTANTS
    MaxWrite = 4096
    IoSizes <- SmallIoSizes
    FwSizes <- MCFwSizes
    Shorts <- MCShorts
    MaxRead = 4096
    Size = 32777
    Wires <- MCWires
    Lens <- MCLens
    MaxQueued = 0
    Topologies <- MCTopologies
    Indices = {0, 1, 2}
    Kernels <- MCKernels
INVARIANTS
    IoSizesLiked
