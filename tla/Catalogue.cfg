SPECIFICATION Spec
CONSTANTS
    None = None
    ProductIds = {p1, p2}
    BrandIds = {b1, b2}
    CategoryIds = {c1}
    ImageIds = {i1}
    Values = {v1}
    Updates <- SmallUpdates
    ProductExtras <- SmallProductExtras
    BrandExtras <- SmallBrandExtras
    Requests = {r1, r2}
SYMMETRY Alike
CONSTRAINT Small
INVARIANT TypeOK
PROPERTIES RefersToLive ImagesStay ChangesAreAsked BrandsComeBackAsAsked
