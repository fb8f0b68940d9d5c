\* Basename and Dirname of every pathname of up to five characters.
CONSTANTS
    Chars <- MCChars
    MaxLen = 5
    Levels = {1}
    Names <- MCNames
    MaxDepth = 2
    MaxRel = 2
    Schemes <- MCSchemes
    Cwd <- MCCwd
SPECIFICATION Spec
CHECK_DEADLOCK FALSE
INVARIANT BasenameCorrect
INVARIANT DirnameSplit
INVARIANT AbsoluteResolves
