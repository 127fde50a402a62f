SPECIFICATION Spec
CONSTANT MaxOptions = 2
INVARIANTS TypeOK DeclaredIsServed OptionsCombine NilOptionIsNoServer
