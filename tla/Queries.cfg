SPECIFICATION Spec
CONSTANTS
    None = None
    p1 = p1
    p2 = p2
    b1 = b1
    b2 = b2
    c1 = c1
    c2 = c2
    u1 = u1
    i1 = i1
    i2 = i2
    Products = {p1, p2}
    Brands = {b1, b2}
    Categories = {c1, c2}
    Users = {u1}
    Images = {i1, i2}
    MainImages = {i1}
    ImageOf <- ImageOfValue
    BrandOf <- BrandOfValue
    CategoryOf <- CategoryOfValue
    ParentOf <- ParentOfValue
    NameOf <- NameOfValue
    Matching = {p1, b1, c1, u1}
    Sent <- Calls
    MaxIds = 2
    DefaultSize = 2
    MaxSize = 2
    MaxChanges = 2
INVARIANTS TypeOK AnswersAsked
PROPERTIES PublicSeesPublic
