SPECIFICATION Spec
CONSTANTS
    None = None
    Unset = Unset
    CategoryIds = {c1, c2, c3}
    Requests = {r1}
    Calls = {"create", "move"}
SYMMETRY Alike
INVARIANT Acyclic
