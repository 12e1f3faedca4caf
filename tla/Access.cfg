SPECIFICATION Spec
CONSTANTS
    s1 = s1  s2 = s2  a = a  b = b  u = u  NoOne = NoOne
    Sessions = {s1, s2}
    People = {a, b, u}
    Founders = {a, b}
    Offers = {"gerencia"}
    NewRoles = {"admin", "gerencia"}
    Ttl = 0
    MaxInvitations = 2
    MaxLinks = 2
    MaxTime = 1
SYMMETRY Symmetry
PROPERTIES OnlyOpenLinksAdmit LastAdminNeedsOverlap
CHECK_DEADLOCK FALSE
