SPECIFICATION FairSpec
CONSTANTS
    eth = eth
    wifi = wifi
    t1 = t1
    t2 = t2
    Bonds <- MCBonds
    Ifaces <- MCIfaces
    Members <- MCMembers
    LinkOf <- MCLinkOf
    Scores = {1, 2}
    Tasks <- MCTasks
    Nobody = Nobody
    MinViable = 2
    FailoverCooldown = 1
    BadReadingThreshold = 1
INVARIANTS
    TypeOK
    MembersConserved
    LinkOwned
    AnnouncementsSpaced
PROPERTIES
    FailoverAnnounced
