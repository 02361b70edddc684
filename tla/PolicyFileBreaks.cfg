SPECIFICATION Spec
SYMMETRY Alike
CONSTANTS
    None = None
    K1 = K1
    K2 = K2
    Keys = {K1, K2}
    Words = {"u"}
    Texts <- MixedTexts
    Pieces <- TokensAndBlock
    Policies <- TwoPolicies
    Kinds = {"policy", "skill"}
    MaxEdits = 2
    MaxLength = 17
    MaxApplies = 2
INVARIANTS OwnBlockIsRecognised
CHECK_DEADLOCK FALSE
