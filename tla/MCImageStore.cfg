SPECIFICATION Spec
CONSTANTS
    Refs <- MCRefs
    LocalRefs = {"box"}
    BlankRefs = {" "}
    DirOf <- MCDirOf
    Layers = {"a", "b", "c"}
    Entries <- MCEntries
    Manifests = {"m1", "m2"}
    LayersOf <- MCLayersOf
    Tagged <- MCTagged
    Retagged <- MCRetagged
    Requests = {1, 2, 3, 4}
    Workloads <- MCWorkloads
    Chunks = 2
INVARIANTS BlobsVerified  OneOverlay
 
CHECK_DEADLOCK FALSE
