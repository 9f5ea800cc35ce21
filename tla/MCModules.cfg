CONSTANTS
    Mod = {"root", "lib", "lost", "one"}
    Name = {"f"}
    None = None
    Symbols <- MCSymbols
    Bundles <- MCBundles
    MaxImports = 2
    MaxFuncs = 1
SPECIFICATION Spec
INVARIANTS
    ImportsAcyclic
    HandlesStayValid
PROPERTIES
    HandlesKeepMeaning
