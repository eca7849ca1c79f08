CONSTANTS
    A = A  B = B  C = C  Env = Env  Cwd = Cwd
    Names <- NamesABC
    Leader = A
    Dirs = {Env, Cwd}
    Roots <- RootsOfTwo
    Jobs <- SmallJobs
    RecordSize = 2
    NoFile = NoFile  Down = Down  Sample = Sample
    MaxRuns = 2
SPECIFICATION Spec
INVARIANTS TypeOK ServesOwnRows  AllRowsOnDisk
PROPERTIES StartsComplete
