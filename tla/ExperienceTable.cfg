SPECIFICATION Spec
CONSTANTS
    prompt = prompt
    responses = responses
    masks = masks
    int64 = int64
    float32 = float32
    s1 = s1
    s2 = s2
    s3 = s3
    s4 = s4
    NSamples = 2
    MaxGroups = 2
    Segments <- MCSegments
    Columns <- MCColumns
    SharedColumns <- MCShared
    Dtypes <- MCDtypes
    Orders <- MCOrders
SYMMETRY Symmetric
INVARIANTS
    TypeOK
    RefCountsExact
    DecodedAsEncoded
    OneCopyPerGroup
