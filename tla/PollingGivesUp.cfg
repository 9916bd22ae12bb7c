SPECIFICATION FairSpec
CONSTANTS
    p1 = p1
    p2 = p2
    p3 = p3
    Poems = {p1}
    Kinds = {"image"}
    MaxChanges = 2
    MaxFailures = 1
    MaxPosts = 2
    Deletable = {}
PROPERTIES PollsUntilSettled
CHECK_DEADLOCK FALSE
