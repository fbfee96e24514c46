SPECIFICATION Spec
CONSTANTS
    None = None
    UserIds = {u1, u2}
    TokenIds = {t1}
    Emails = {e1, e2}
    Passwords = {p1, p2}
    GivenRoles = {"USER"}
    Requests = {r1, r2}
    Calls = {"register", "create", "update", "password", "login", "refresh", "logout"}
SYMMETRY Alike
INVARIANTS TypeOK EmailsUnique LoggedOutStaysOut SomeRoot
PROPERTIES PasswordsAndRolesKept ChangesAreAsked
