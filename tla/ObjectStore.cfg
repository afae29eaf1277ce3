\* Two requests and the startup collection contend for the writer; rev2 replaces a file of rev1.
SPECIFICATION FairSpec
CONSTANTS
    Trace <- MCTrace
    Revision <- MCRevision
    Digest <- MCDigest
    OwnerOf <- MCOwnerOf
    ObjectsOf <- MCObjectsOf
    Client = {c1, c2}
    Boot = boot
    BatchSize = 2
    None = None
INVARIANTS IInv ReferencedPresent CollectionComplete
PROPERTIES ImplementsLibrary WaitersServed
