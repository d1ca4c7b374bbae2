SPECIFICATION FairSpec
CONSTANTS
    chan = chan
    tab = tab
    all = all
    a = a
    b = b
    star = star
    c1 = c1
    c2 = c2
    s1 = s1
    s2 = s2
    s3 = s3
    m1 = m1
    m2 = m2
    Channels = {chan, tab, all}
    Names = {a, b, star}
    IsTable <- TableOnly
    Wildcard = star
    Sources <- ChannelAndTable
    None = None
    Conns = {c1, c2}
    Subs = {s1}
    Messages = {m1}
    Undecodable = {}
    ChannelName <- DistinctName
    MaxFaults = 0
    MayOverlap = FALSE
PROPERTY
    AllTablesAreHeard
CHECK_DEADLOCK FALSE
