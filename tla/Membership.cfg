\* The owner and one other, two requests at a time, two invitations.
SPECIFICATION Spec
CONSTANTS
    People = {owner, e1}
    Owner = owner
    Requests = {q1, q2}
    Invitations = {i1, i2}
    Roles = {"owner", "editor"}
    None = None
SYMMETRY Symmetry
INVARIANTS
    MembersBelong
PROPERTIES
    OnlyManagersLetIn
    RoleNeedsAnInvitation
