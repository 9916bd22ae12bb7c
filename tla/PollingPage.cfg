SPECIFICATION FairSpec
CONSTANTS
    p1 = p1
    p2 = p2
    p3 = p3
    Poems = {p1, p2, p3}
    Kinds = {"image"}
    MaxChanges = 3
    MaxFailures = 1
    MaxPosts = 2
    Deletable = {p1, p2, p3}
INVARIANTS OnePollPerPoem ShownDoneIsDone
PROPERTIES NoStepBack PollsWhileAnswered
CHECK_DEADLOCK FALSE
