SPECIFICATION PostSpec
CONSTANTS
    Topics = {p1}
    PostKeys = {k1}
    Contents = {e1}
    Requests = {q1}
    Replies = {y1}
    MaxMoves = 2
PROPERTIES UndoSparesChanges
CHECK_DEADLOCK FALSE
