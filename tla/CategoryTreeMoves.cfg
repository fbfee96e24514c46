SPECIFICATION Spec
CONSTANTS
    None = None
    Unset = Unset
    CategoryIds = {c1, c2, c3}
    Requests = {r1, r2}
    Calls = {"create", "rename", "detach", "move", "delete"}
SYMMETRY Alike
INVARIANTS TypeOK ClosureIsOrder NeverUnderOwnOffspring
PROPERTY AttachedToLive
