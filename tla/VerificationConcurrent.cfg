CONSTANTS
    Submissions = {s1, s2, s3}
    MaxAttempts = 1
    Concurrency = 2
SPECIFICATION Spec
INVARIANTS
    TypeOK
    AttemptsBoundedByOverlap
    CountedIsLogged
    EngineHasImages
    AnsweredLeavesNoImage
    DeletedForGood
SYMMETRY Interchangeable
CHECK_DEADLOCK FALSE
