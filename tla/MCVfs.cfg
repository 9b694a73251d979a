SPECIFICATION Spec
CONSTANTS
    b = b
    POOL = 5
    Names <- MCNames
    MakePaths <- MCMakePaths
    TouchPaths <- MCTouchPaths
    LinkPaths <- MCLinkPaths
    Paths <- MCPaths
    CdPaths <- MCCdPaths
    Blocks = {b1}
    Empty = Empty
    DotDot = DotDot
    Slash = Slash
    Users = Users
    Home = Home
    Null = Null
INVARIANTS Tree NothingFreed CopyWhole MvKeepsOne FindWhole
PROPERTIES DetachedFrozen CopyEnds
