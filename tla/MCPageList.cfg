CONSTANT MaxSize = 7
SPECIFICATION Spec
INVARIANT TypeOK
INVARIANT Tiled
INVARIANT UnloadedPagesExact
INVARIANT CountsAgree
PROPERTY ImplementsPageMap
