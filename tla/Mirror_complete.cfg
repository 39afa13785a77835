SPECIFICATION Spec
CONSTANTS
    Files = {"a", "b"}
    NoFile = NoFile
    Versions <- MCVersions
    Manifests <- MCManifests
    Chunks = 1
    Inodes = {1, 2, 3, 4}
INVARIANT CompleteMeansAll
