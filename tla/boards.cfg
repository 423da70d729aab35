CONSTANTS
    b1 = b1  c1 = c1  m1 = m1   a1 = a1  x = x  y = y  r1 = r1  r2 = r2
    NoMedia = NoMedia  None = None
    Boards = {b1}  Comments = {c1}  BoardOf <- PostOfAll  Author <- WrittenByM1
    Members = {m1}  Admins = {a1}  MediaLists = {NoMedia, x, y}  Requests = {r1, r2}
SYMMETRY Symmetry
CONSTRAINT QuietComments
SPECIFICATION Spec
INVARIANTS
    TypeOK
    LikesCounted
    MediaOfOneEdit
    ResolvedIsHidden
PROPERTY
    GoneForGood
