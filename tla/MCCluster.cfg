SPECIFICATION FairSpec
CONSTANTS
    w1 = w1
    w2 = w2
    r1 = r1
    h1 = h1
    Writers = {w1, w2}
    Readers = {r1}
    Handles = {h1}
    MaxSyncs = 2
    MaxSaves = 2
INVARIANTS
    AtRestOneSnapshot
    ClusterInv
PROPERTIES
    ReadersMoveForward
    ReadyStaysReady
    ReadersConverge
    FollowsFeed
