SPECIFICATION Spec
CONSTANTS
    MaxFileSize = 9
    MaxBlockSize = 4
    MaxPerGen = 4
    Hosts = {{TRUE}, {TRUE, FALSE}, {FALSE}}
INVARIANTS
    TypeOK
    ClientLayoutAgrees
    FirstGenerationLargest
    NoShortRead
    EncodesItsGeneration
    OutputIsFilePrefix
