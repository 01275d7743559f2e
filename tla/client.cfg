SPECIFICATION FairSpec
CONSTANTS
    None = None
    n1 = n1
    n2 = n2
    Names = {n1, n2}
    Contains <- Nested
    Hosts = {h1}
    Ram <- More
    Screens = {s1}
    Chat = Chat
INVARIANT ClientInv
PROPERTY GhostsExpire
PROPERTY ChatAnswers
