SPECIFICATION FairSpec
CONSTANTS
    Session = {s1, s2, s3}
    None = None
    Ceiling = 2
    Helper = {"extdep:ffmpeg"}
INVARIANTS RunsAtMostOnce StormIsReported
PROPERTY EveryoneIsServed
