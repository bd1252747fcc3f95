\* Two callers, two items, one value per field; three revisions are the two a company needs
\* to be ready and a change after it, two reviews let the second one see the change.
SPECIFICATION Spec
CONSTANTS
    i1 = i1
    i2 = i2
    c1 = c1
    c2 = c2
    Items <- MCItems
    Callers <- MCCallers
    Fields = {"industry"}
    RequiredFields = {"industry"}
    CopiedFields = {"industry"}
    Values = {"a"}
    None = None
    Categories = {"service", "case"}
    RequiredCategories = {"service"}
    Texts = {"t"}
    Questions = {"website"}
    Answers = {"no site"}
    MaxListed = 1
    MaxRevision = 3
    MaxShown = 2
SYMMETRY Symmetry
INVARIANTS
    TypeOK
    ReadyIsExact
PROPERTIES
    ImplementsReviewedFacts
