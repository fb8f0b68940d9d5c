\* MakeRelativePathOrUrl with the relative() fallback for Boost < 1.60.
CONSTANTS
    Chars <- MCChars
    MaxLen = 5
    Levels = {1}
    Names <- MCNames
    MaxDepth = 2
    MaxRel = 2
    Schemes <- MCSchemes
    Cwd <- MCCwd
SPECIFICATION Spec
CHECK_DEADLOCK FALSE
INVARIANT RelativeResolves
