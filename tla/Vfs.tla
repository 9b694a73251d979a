-------------------------------- MODULE Vfs --------------------------------
(***************************************************************************)
(* The file system of vfs.c and the commands of shell.c that change it:    *)
(* mkdir, touch, rm, cp, mv, ln -s and cd.  (ln without -s is cp.)         *)
(*                                                                         *)
(* A path is the sequence of names between its slashes: "/a/b" is          *)
(* <<Empty, a, b>>, "a" is <<a>>, "/a/" is <<Empty, a, Empty>> and "/" is  *)
(* <<Empty, Empty>>.  A directory's list of children is a sequence, the    *)
(* head first.  A node that rm unlinked is never used again: node_pool     *)
(* only grows.                                                             *)
(*                                                                         *)
(* Contents and sizes are left out: the only nodes vfs_init gives contents *)
(* are nodes it links nowhere, and nothing writes contents later, so every *)
(* node a path reaches is empty.  Permissions are left out too: chmod sets *)
(* them and ls shows them, and nothing ever asks for them.                 *)
(***************************************************************************)
EXTENDS Integers, Sequences, FiniteSets

CONSTANTS
    POOL,           \* nodes in node_pool (128)
    Names,          \* all names of nodes, the five below included
    Empty,          \* the name before, between or after slashes
    DotDot,         \* ".."
    Slash,          \* "/", the name of the root node
    Users, Home,    \* "Users" and "root", the names in "/Users/root"
    MakePaths,      \* what mkdir is given,
    TouchPaths,     \* what touch is given,
    LinkPaths,      \* what ln is given as the name of the link,
    Paths,          \* what rm, cp and mv are given and links point to,
    CdPaths,        \* and what cd is given
    Blocks,         \* heap blocks that link targets are copied into
    Null

Root == 0
Nodes == 0 .. POOL
Types == {"dir", "file", "link", "gone"}

ASSUME PoolAssumption == POOL \in Nat /\ POOL >= 2
ASSUME NullAssumption == Null \notin Nodes /\ Null \notin Blocks
ASSUME NamesAssumption ==
    /\ {Empty, DotDot, Slash, Users, Home} \subseteq Names
    /\ Empty # DotDot
    /\ MakePaths \cup TouchPaths \cup LinkPaths \cup Paths \cup CdPaths
         \subseteq Seq(Names) \ {<<>>}

VARIABLES
    pool_idx,  \* nodes taken from the pool; they are numbered from 1
    name,      \* name of each node
    type,      \* its type, "gone" (0) once it was removed
    parent,    \* its parent, Null for the root
    children,  \* its list of children
    target,    \* the block of its link_target, Null if it has none
    used,      \* the heap blocks in use for link targets
    cwd,       \* the shell's working directory
    prev_cwd,  \* and the one before, Null at first
    phase,     \* of the command: "idle", "copy" (in vfs_cp), "done"
    job,       \* the arguments of the copy, and what becomes of it
    todo       \* the calls of vfs_create_node the copy still has to make

tree == <<pool_idx, name, type, parent, children, target>>
shell == <<cwd, prev_cwd>>
copying == <<phase, job, todo>>
vars == <<tree, used, shell, copying>>

Created == 0 .. pool_idx
NoJob == [op |-> "none", src |-> Null, from |-> <<>>, to |-> <<>>,
          first |-> Null, failed |-> FALSE, inside |-> FALSE, want |-> {}, had |-> <<>>]

\* What mv, and nothing else, needs to know at its end.
Move(s, from, to) == [NoJob EXCEPT !.src = s, !.from = from, !.to = to]

\* vfs_init makes fourteen nodes; of the six it links one is kept here, and of
\* the eight it links nowhere the one whose path the shell uses.
Init ==
    /\ pool_idx = 2
    /\ name = [n \in Nodes |-> CASE n = Root -> Slash
                                 [] n = 1    -> Users
                                 [] n = 2    -> Home
                                 [] OTHER    -> Empty]
    /\ type = [n \in Nodes |-> IF n <= 2 THEN "dir" ELSE "gone"]
    /\ parent = [n \in Nodes |-> CASE n = 1 -> Root [] n = 2 -> 1 [] OTHER -> Null]
    /\ children = [n \in Nodes |-> IF n = Root THEN <<1>> ELSE <<>>]
    /\ target = [n \in Nodes |-> Null]
    /\ used = {}
    /\ cwd = Root
    /\ prev_cwd = Null
    /\ phase = "idle"
    /\ job = NoJob
    /\ todo = <<>>

-----------------------------------------------------------------------------
(* Finding nodes.                                                          *)

\* vfs_find_child: the first child of that name.
Find(d, nm) ==
    LET hits == {i \in 1 .. Len(children[d]) : name[children[d][i]] = nm}
    IN  IF type[d] # "dir" \/ hits = {} THEN Null
        ELSE children[d][CHOOSE i \in hits : \A j \in hits : i <= j]

\* vfs_lookup: every path, absolute or not, starts from the root.
Lookup(p) ==
    LET walk[i \in Nat] ==
          IF i = 0 THEN Root
          ELSE LET cur == walk[i - 1]
               IN  CASE cur = Null \/ p[i] = Empty -> cur
                     [] p[i] = DotDot /\ cur # Null ->
                          IF parent[cur] = Null THEN cur ELSE parent[cur]
                     [] OTHER -> Find(cur, p[i])
    IN  IF p = <<Empty>> THEN Null ELSE walk[Len(p)]

Last(p) == p[Len(p)]
Absolute(p) == Len(p) >= 2 /\ p[1] = Empty

\* Mutant: a name without a slash is taken in the working directory.
ParentOfInCwd(p) ==
    CASE Len(p) = 1     -> cwd
      [] Len(p) = 2 /\ p[1] = Empty -> Root
      [] OTHER          -> Lookup(SubSeq(p, 1, Len(p) - 1))

\* get_parent: where the last name of the path would be found.  A path without a
\* slash is cut to the empty path, which vfs_lookup does not find.
ParentOf(p) ==
    CASE Len(p) = 1     -> Null
      [] Len(p) = 2 /\ p[1] = Empty -> Root
      [] OTHER          -> Lookup(SubSeq(p, 1, Len(p) - 1))

IsDir(n) == n # Null /\ type[n] = "dir"

-----------------------------------------------------------------------------
(* Creating and removing nodes.                                            *)

Room == pool_idx < POOL

\* vfs_create_node and vfs_add_child, with the pool not exhausted.
AddNode(nm, ty, d, tgt) ==
    LET n == pool_idx + 1
    IN  /\ pool_idx' = n
        /\ name' = [name EXCEPT ![n] = nm]
        /\ type' = [type EXCEPT ![n] = ty]
        /\ parent' = [parent EXCEPT ![n] = d]
        /\ children' = [children EXCEPT ![n] = <<>>, ![d] = <<n>> \o @]
        /\ target' = [target EXCEPT ![n] = tgt]

Listed(n) ==
    /\ parent[n] # Null
    /\ \E i \in 1 .. Len(children[parent[n]]) : children[parent[n]][i] = n

\* The nodes vfs_rm looks at: it goes down through directories only.
Swept(t) ==
    LET in[m \in Nodes] ==
          \/ m = t
          \/ m > t /\ Listed(m) /\ type[parent[m]] = "dir" /\ in[parent[m]]
    IN  {m \in Nodes : in[m]}

Freed(t) == {target[m] : m \in Swept(t)} \ {Null}

Without(s, i) == [j \in 1 .. Len(s) - 1 |-> IF j < i THEN s[j] ELSE s[j + 1]]

\* Mutant: only the first child is ever unlinked.
UnlinkFirst(d, i) ==
    children' = [children EXCEPT ![d] = IF i = 1 THEN Tail(@) ELSE @]

Unlink(d, i) == children' = [children EXCEPT ![d] = Without(@, i)]

\* Mutant: the last node of the pool is given back, whichever was removed.
RemoveAndRecycle(d, i) ==
    LET t == children[d][i]
    IN  /\ used' = used \ Freed(t)
        /\ Unlink(d, i)
        /\ type' = [type EXCEPT ![t] = "gone"]
        /\ pool_idx' = pool_idx - 1
        /\ UNCHANGED <<name, parent, target>>

\* vfs_rm, once it has found the node: child i of directory d.
Remove(d, i) ==
    LET t == children[d][i]
    IN  /\ used' = used \ Freed(t)
        /\ Unlink(d, i)
        /\ type' = [type EXCEPT ![t] = "gone"]
        /\ UNCHANGED <<pool_idx, name, parent, target>>

\* What vfs_rm finds under a path: a directory and an index in its list.
Found(p, d, i) ==
    /\ d = ParentOf(p)
    /\ i \in 1 .. Len(children[d])
    /\ children[d][i] = Find(d, Last(p))

-----------------------------------------------------------------------------
(* The commands.  A command that returns early changes nothing.            *)

Mkdir(p) ==
    /\ phase = "idle"
    /\ \E d \in Created :
         /\ d = ParentOf(p)
         /\ type[d] = "dir"
         /\ Find(d, Last(p)) = Null
         /\ Room
         /\ AddNode(Last(p), "dir", d, Null)
    /\ UNCHANGED <<used, shell, copying>>

Touch(p) ==
    /\ phase = "idle"
    /\ \E d \in Created :
         /\ d = ParentOf(p)
         /\ type[d] = "dir"
         /\ Find(d, Last(p)) = Null
         /\ Room
         /\ AddNode(Last(p), "file", d, Null)
    /\ UNCHANGED <<used, shell, copying>>

\* The command looks the path up before it calls vfs_rm, which splits it.
Rm(p, recursive) ==
    /\ phase = "idle"
    /\ Lookup(p) # Null
    /\ IsDir(Lookup(p)) => recursive
    /\ \E d \in Created : \E i \in 1 .. Len(children[d]) :
         Found(p, d, i) /\ Remove(d, i)
    /\ UNCHANGED <<shell, copying>>

\* ln -s: the parent need not be a directory, and nothing looks for a child of
\* the same name.
LnS(t, l) ==
    /\ phase = "idle"
    /\ Room
    /\ \E x \in Created, d \in Created, b \in (Blocks \ used) \cup {Null} :
         /\ x = Lookup(t)
         /\ IF IsDir(Lookup(l))
            THEN d = Lookup(l) /\ AddNode(name[x], "link", d, b)
            ELSE d = ParentOf(l) /\ AddNode(Last(l), "link", d, b)
         /\ used' = used \cup ({b} \ {Null})
    /\ UNCHANGED <<shell, copying>>

GoTo(n) == cwd' = n /\ prev_cwd' = cwd

Cd(p) ==
    /\ phase = "idle"
    /\ \E n \in Created :
         /\ n = IF p = <<Empty, Empty>> THEN Root
                ELSE IF Len(p) = 1 /\ Find(cwd, p[1]) # Null THEN Find(cwd, p[1])
                ELSE Lookup(p)
         /\ type[n] = "dir"
         /\ p # <<DotDot>>
         /\ GoTo(n)
    /\ UNCHANGED <<tree, used, copying>>

CdUp ==
    /\ phase = "idle"
    /\ parent[cwd] # Null
    /\ GoTo(parent[cwd])
    /\ UNCHANGED <<tree, used, copying>>

CdBack ==
    /\ phase = "idle"
    /\ prev_cwd # Null
    /\ GoTo(prev_cwd)
    /\ UNCHANGED <<tree, used, copying>>

\* cd ~
CdHome ==
    /\ phase = "idle"
    /\ \E n \in Created : n = Lookup(<<Empty, Users, Home>>) /\ GoTo(n)
    /\ UNCHANGED <<tree, used, copying>>

-----------------------------------------------------------------------------
(* find -name, which changes nothing: it goes down by paths, and looks each *)
(* directory up again by the path it has put together.  (One that starts   *)
(* at a name of a single character is left out: it is taken for "/" and no *)
(* slash is put behind it.)                                                *)

TheRoot == <<Empty, Empty>>

\* Mutant: the name is put behind the root.
SubPathOfRoot(p, nm) == <<Empty, nm>>

\* The path of a child of that name.
SubPath(p, nm) ==
    (IF p = TheRoot THEN <<Empty>> ELSE p)
      \o (IF nm = Slash THEN <<Empty, Empty>> ELSE <<nm>>)

\* A path that leads nowhere is complained of.
Kids(d) == IF d = Null THEN {} ELSE {children[d][i] : i \in 1 .. Len(children[d])}

\* The calls that the calls with these paths make.
FindCalls(ps) ==
    UNION {{SubPath(q, name[c]) : c \in {k \in Kids(Lookup(q)) : type[k] = "dir"}} :
              q \in ps}

\* The paths cmd_find is called with, n calls deep.  There are no more nodes than
\* POOL + 1: calls that are deeper never come to an end.
FindDepth(p) ==
    LET at[n \in Nat] == IF n = 0 THEN {p} ELSE FindCalls(at[n - 1])
    IN  at

FindEnds(p) == FindDepth(p)[POOL + 1] = {}

\* The nodes whose names are compared.
Seen(p) ==
    LET at == FindDepth(p)
    IN  UNION {Kids(Lookup(q)) : q \in UNION {at[n] : n \in 0 .. POOL}}

-----------------------------------------------------------------------------
(* cp and mv.  vfs_cp decides what to copy where, deep_copy makes one node *)
(* per step, and mv removes the source in the end.                         *)

\* A node of the tree rooted in n, and where it is below n.
Under(n) ==
    LET in[m \in Nodes] == m = n \/ (m > n /\ Listed(m) /\ in[parent[m]])
    IN  {m \in Nodes : in[m]}

Below(n, m) ==
    LET path[k \in Under(n)] == IF k = n THEN <<>> ELSE Append(path[parent[k]], name[k])
    IN  path[m]

\* What a tree holds, and how many nodes: the same names may occur twice.
Shape(n) ==
    {<<Below(n, m), type[m], Cardinality(Under(m))>> : m \in Under(n)}

\* What a tree is, node by node: its nodes, their places and their link targets.
Holding(n) == [m \in Under(n) |-> <<parent[m], name[m], type[m], target[m]>>]

\* The directory that is to receive a copy under the name of the source.
Receiver(p) ==
    IF Absolute(p) /\ IsDir(Lookup(p)) THEN Lookup(p)
    ELSE IF IsDir(ParentOf(p)) /\ IsDir(Find(ParentOf(p), Last(p)))
         THEN Find(ParentOf(p), Last(p))
         ELSE Null

\* vfs_cp up to its first vfs_create_node.  Neither the name of the copy of a
\* directory nor the place of a file is checked against what is there already.
StartCopy(op, from, to) ==
    /\ phase = "idle"
    /\ \E s \in Created, d \in Created :
         LET in == Receiver(to)
             deep == in # Null \/ type[s] = "dir"
         IN  /\ s = Lookup(from)
             /\ d = IF in # Null THEN in ELSE ParentOf(to)
             /\ type[d] = "dir"
             /\ todo' = <<[src |-> s, dst |-> d, deep |-> deep,
                           name |-> IF deep THEN name[s] ELSE Last(to)]>>
             /\ job' = [IF op = "cp" THEN NoJob ELSE Move(s, from, to) EXCEPT
                          !.op = op, !.inside = d \in Under(s),
                          !.had = IF op = "cp" THEN <<>> ELSE Holding(s),
                          !.want = IF deep THEN Shape(s) ELSE {<<<<>>, type[s], 1>>}]
    /\ phase' = "copy"
    /\ UNCHANGED <<tree, used, shell>>

\* Mutant: the first child of a directory is not copied.
ChildrenToCopyFromSecond(it, n, kids) ==
    IF it.deep THEN [i \in 1 .. Len(kids) - 1 |->
                       [src |-> kids[i + 1], dst |-> n, deep |-> TRUE,
                        name |-> name[kids[i + 1]]]]
    ELSE <<>>

\* deep_copy calls itself for the children the source has by then, the copy
\* included when it was put into the source.
ChildrenToCopy(it, n, kids) ==
    IF it.deep THEN [i \in 1 .. Len(kids) |->
                       [src |-> kids[i], dst |-> n, deep |-> TRUE,
                        name |-> IF kids[i] = n THEN it.name ELSE name[kids[i]]]]
    ELSE <<>>

\* link_target is not copied.
LinkCopy(it) == Null

\* One call of vfs_create_node by vfs_cp or deep_copy, and vfs_add_child.
CopyNode ==
    /\ phase = "copy"
    /\ todo # <<>>
    /\ Room
    /\ LET it == Head(todo)
           n == pool_idx + 1
       IN  /\ AddNode(it.name, type[it.src], it.dst, LinkCopy(it))
           /\ todo' = ChildrenToCopy(it, n, children'[it.src]) \o Tail(todo)
           /\ job' = [job EXCEPT !.first = IF @ = Null THEN n ELSE @]
    /\ UNCHANGED <<used, shell, phase>>

\* Mutant: a failed copy is tried again.
CopyFailsAndRetries ==
    /\ phase = "copy"
    /\ todo # <<>>
    /\ ~Room
    /\ job' = [job EXCEPT !.failed = ~@]
    /\ UNCHANGED <<tree, used, shell, phase, todo>>

\* The pool is exhausted: this node and what is below it is left out, and only
\* the first failure is reported.
CopyFails ==
    /\ phase = "copy"
    /\ todo # <<>>
    /\ ~Room
    /\ todo' = Tail(todo)
    /\ job' = [job EXCEPT !.failed = TRUE]
    /\ UNCHANGED <<tree, used, shell, phase>>

\* vfs_rm in vfs_mv: whatever the path of the source leads to now.
RemoveSource ==
    LET ok(d, i) == Found(job.from, d, i)
    IN  \/ \E d \in Created : \E i \in 1 .. Len(children[d]) : ok(d, i) /\ Remove(d, i)
        \/ /\ ~\E d \in Created : \E i \in 1 .. Len(children[d]) : ok(d, i)
           /\ UNCHANGED <<tree, used>>

\* Mutant: mv does not look at what vfs_cp returned.
Moves == job.op = "mv"

\* vfs_mv removes the source if vfs_cp returned 0: it made its first node.
Succeeded == job.op = "mv" /\ job.first # Null

Return ==
    /\ phase = "copy"
    /\ todo = <<>>
    /\ phase' = "done"
    /\ IF Succeeded THEN RemoveSource ELSE UNCHANGED <<tree, used>>
    /\ UNCHANGED <<shell, job, todo>>

\* Back to the prompt.
Prompt ==
    /\ phase = "done"
    /\ phase' = "idle"
    /\ job' = NoJob
    /\ UNCHANGED <<tree, used, shell, todo>>

Copying == CopyNode \/ CopyFails \/ Return \/ Prompt

Next ==
    \/ \E p \in MakePaths : Mkdir(p)
    \/ \E p \in TouchPaths : Touch(p)
    \/ \E p \in CdPaths : Cd(p)
    \/ \E p \in Paths, recursive \in BOOLEAN : Rm(p, recursive)
    \/ \E t \in Paths, l \in LinkPaths : LnS(t, l)
    \/ \E op \in {"cp", "mv"}, p, q \in Paths : StartCopy(op, p, q)
    \/ CdUp \/ CdBack \/ CdHome
    \/ Copying

\* The one thread that runs the command keeps running.
Fairness == WF_vars(Copying)

Spec == Init /\ [][Next]_vars /\ Fairness

-----------------------------------------------------------------------------
(* Properties.                                                             *)

Items == [src : Nodes, dst : Nodes, deep : BOOLEAN, name : Names]

TypeOK ==
    /\ pool_idx \in Nodes
    /\ name \in [Nodes -> Names]
    /\ type \in [Nodes -> Types]
    /\ parent \in [Nodes -> Nodes \cup {Null}]
    /\ children \in [Nodes -> Seq(Nodes)]
    /\ target \in [Nodes -> Blocks \cup {Null}]
    /\ used \subseteq Blocks
    /\ cwd \in Created
    /\ prev_cwd \in Created \cup {Null}
    /\ phase \in {"idle", "copy", "done"}
    /\ todo \in Seq(Items)

\* The parents form a tree: a node is older than its children, so that pwd, ".."
\* and the recursive walks come to an end.
ParentOlder ==
    /\ parent[Root] = Null
    /\ \A n \in Created \ {Root} : parent[n] \in Nodes /\ parent[n] < n

\* The lists agree with it: a child in a list has the directory for its parent
\* and stands there once.
ListsAgree ==
    \A d \in Nodes : \A i \in 1 .. Len(children[d]) :
      /\ children[d][i] \in Created
      /\ parent[children[d][i]] = d
      /\ \A j \in 1 .. Len(children[d]) :
           i # j => children[d][i] # children[d][j]

\* The nodes stay a tree through vfs_add_child, vfs_rm and deep_copy in any order,
\* copies of a directory into itself included (vfs.c:74, 218, 241).
Tree == ParentOlder /\ ListsAgree

InTree(n) == n \in Under(Root)

\* What a path reaches was not removed, the blocks of links it reaches were not
\* released, and no two links share one: no sequence of copies, moves and removals
\* makes vfs_rm release a block twice (vfs.c:203-225).
NothingFreed ==
    \A n \in Under(Root) :
      /\ type[n] # "gone"
      /\ target[n] # Null =>
           /\ target[n] \in used
           /\ \A m \in Under(Root) \ {n} : target[m] # target[n]

\* Nothing is ever put into a directory that was removed, or that is below one,
\* although the shell may still stand in it: paths start from the root.
DetachedFrozen ==
    [][\A n \in Created : ~InTree(n) => children'[n] = children[n]]_vars

\* A copy that ran out of no nodes is the source again, name for name and type
\* for type, unless it was put inside its own source (deep_copy, vfs.c:229-245).
\* A file or a link that is copied onto a path is one node: what is linked below
\* it is not copied, and no link's target ever is.
CopyWhole ==
    phase = "copy" /\ todo = <<>> /\ ~job.failed /\ ~job.inside
      => Shape(job.first) = job.want

\* Of the two nodes of one path mv removes at most one (vfs.c:283-287).  If that
\* was not the source, the source is as it was, with all link targets; otherwise
\* what is left of it is the copy, and that is less: names and types only, every
\* link without its target, and for a file or a link moved onto a path a single
\* node.  Excepted are a pool that ran out in the middle and a destination in the
\* source, where the copy may be smaller still.
MvKeepsOne ==
    phase = "done" /\ job.op = "mv" /\ ~job.inside
      /\ (job.failed => job.first = Null)
      => \/ InTree(job.src) /\ Holding(job.src) = job.had
         \/ /\ job.first # Null /\ InTree(job.first)
            /\ Shape(job.first) = job.want
            /\ \A m \in Under(job.first) : target[m] = Null

\* Names that a lookup does not go down by.
Misleading == {Empty, DotDot, Slash}

\* find comes to its end, and sees every node below the directory once it has
\* gone down to it, although it looks directories up by name: unless mkdir or cp
\* gave one a misleading name, which brings find back to where it was, or cp gave
\* two siblings the same one (shell.c:343-346).
FindWhole ==
    phase = "idle" =>
      \A p \in Paths \cup {TheRoot} :
        LET n == Lookup(p)
            plain == \A m \in Under(n) \ {n} : type[m] = "dir" => name[m] \notin Misleading
            distinct == \A m, k \in Under(n) \ {n} :
                          m # k /\ parent[m] = parent[k] => name[m] # name[k]
        IN  IsDir(n) /\ plain =>
              /\ FindEnds(p)
              /\ distinct => Seen(p) = Swept(n) \ {n}

\* Every copy comes to its end, one into its own source by exhausting the pool.
CopyEnds == (phase = "copy") ~> (phase = "idle")
=============================================================================
