------------------------------- MODULE MCVfs -------------------------------
(* "/Users", which is there at first, "/Users/root", which is not, one     *)
(* more place, a name without a slash, and "/Users/", by which mkdir makes *)
(* a directory whose name is empty.                                        *)
EXTENDS Vfs

CONSTANT b

MCNames == {Empty, DotDot, Slash, Users, Home, b}

UsersPath == <<Empty, Users>>
HomePath == <<Empty, Users, Home>>

MCMakePaths == {UsersPath, HomePath, <<Home>>, <<Empty, Users, Empty>>}
MCTouchPaths == {UsersPath, HomePath}
MCLinkPaths == {HomePath}
MCPaths == {UsersPath, HomePath, <<Empty, b>>}
MCCdPaths == {<<Empty, Empty>>, HomePath}
=============================================================================
