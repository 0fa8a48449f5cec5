SPECIFICATION Spec
CONSTANTS
    Algorithms <- AllAlgorithms
    Givens <- AllGivens
    Draws <- SmallDraws
    Genuine <- GenuineKeys
    Texts <- KeyTexts
    NotUtf8 <- InvalidUtf8
    KeySize <- SmallKeySize
    Order <- SmallOrder
    Width <- SmallWidth
    MinimumLength <- SmallMinimumLength
INVARIANTS
    ExportedKeyComesBack
    SignatureVerifies
    AcceptedSignatureIsExact
    PreparedFits
    KeyTextsAreRecognised
CHECK_DEADLOCK FALSE
