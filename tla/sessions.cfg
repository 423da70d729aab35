CONSTANTS
    m1 = m1  a1 = a1  a2 = a2  t1 = t1  t2 = t2   d1 = d1  r1 = r1  r2 = r2
    None = None
    Members = {m1}  Admins = {a1, a2}  Tokens = {t1, t2}  Devices = {d1}
    Requests = {r1, r2}
SYMMETRY Symmetry
CONSTRAINT QuietAdmins
SPECIFICATION Spec
INVARIANTS
    TypeOK
    VoidIsDead
    SessionsRevocable
    ErasedForGood
PROPERTY
    TokenLifeSpec
\* every account is gone
CHECK_DEADLOCK FALSE
