\* numbers: three topics, two of one hash, over a ceiling of one, and another
\* authority numbers the first and the third.  resume: one
\* client, a buffer of two frames, five published.  stream: one exact ordinal and one
\* range above a hole, so that seven frames overflow both.  throttle: three topics in a map
\* of two.  client: three sockets at a time.  group: three sockets, room for two.
\* document: two mounts, two flushes, two edits.  presence: two sockets
\* of one or of two users, forgotten after one heartbeat without them.  ledger: two
\* topics, two subscribers each, two asks of a connection, one retry.  offset: one topic, three
\* frames, three asks, two retries.
SPECIFICATION PartsSpec
CONSTANTS
    t1 = t1
    t2 = t2
    t3 = t3
    Topics <- MCTopics
    Watched = {t1}
    Hash <- MCHash
    Capacity = 1
    FloorCap = 1
    ScanLimit = 1
    Backoff = 1
    MaxSeq = 2
    Foreign <- MCForeign
    Clients = {c1}
    MaxLogged = 5
    MaxFrames = 2
    MaxPendingAbove = 1
    Grace = 2
    MaxOrd = 7
    MaxQueue = 2
    MaxUnderWay = 2
    Topic = {u1, u2, u3}
    Interval = 2
    MaxTopics = 2
    MaxValue = 2
    Sock = {s1, s2, s3}
    NoSock = NoSock
    MaxAttempts = 2
    Member = {m1, m2, m3}
    Role = {admin, viewer}
    NoRole = NoRole
    MaxMembers = 2
    MaxPhantoms = 1
    Holder = {h1, h2}
    Flusher = {p1, p2}
    MaxEdits = 2
    SnapshotEvery = 2
    Used = {x1, x2}
    Streamed = {x1}
    ws1 = ws1
    ws2 = ws2
    ann = ann
    bob = bob
    Socket = {ws1, ws2}
    User = {ann, bob}
    Owners <- MCOwners
    Profile <- MCProfile
    MaxAge = 1
CONSTRAINT FewAtATime
INVARIANTS NeverRepeats NoSilentGap ReportsAreExact LatestIsDelivered OneWayOn RostersAgree
           NoEditIsLost RosterIsTrue LedgersAgree OffsetIsEarned
PROPERTY EvictionIsJustified
CHECK_DEADLOCK FALSE
