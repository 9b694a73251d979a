----------------------------- MODULE VfsProofs -----------------------------
(***************************************************************************)
(* Proofs about Vfs, for every size of the pool and every set of paths:    *)
(* the type invariant, that the nodes stay a tree, that nothing in it is   *)
(* freed, that what was taken out of it stays as it is, that a copy is     *)
(* the whole of its source (CopiesAreWhole), that a move leaves its source *)
(* or the copy (MovesLeaveOne), and that find sees all of a directory.     *)
(*                                                                         *)
(* What a recursive function of the model computes is proved by taking the *)
(* least argument where a claim about it fails (Least in Basics), and that *)
(* it is defined by Recursion, there too, or as a least closed set.        *)
(***************************************************************************)
EXTENDS Vfs, Basics, SequenceTheorems, FiniteSetTheorems, TLAPS

\* A copy only works on nodes that exist.
TodoCreated ==
    \A i \in 1 .. Len(todo) : todo[i].src \in Created /\ todo[i].dst \in Created

Inv == TypeOK /\ Tree /\ TodoCreated

-----------------------------------------------------------------------------
(* The two changes of the tree.                                            *)

\* Taking a child out of a list leaves the others, each as often as before.
LEMMA WithoutKeeps ==
    ASSUME NEW S, NEW s \in Seq(S), NEW i \in 1 .. Len(s)
    PROVE  /\ Without(s, i) \in Seq(S)
           /\ Len(Without(s, i)) = Len(s) - 1
           /\ \A j \in 1 .. Len(s) - 1 :
                Without(s, i)[j] = IF j < i THEN s[j] ELSE s[j + 1]
<1>1. Len(s) \in Nat /\ Len(s) - 1 \in Nat
  OBVIOUS
<1>2. \A j \in 1 .. Len(s) - 1 : s[j] \in S /\ s[j + 1] \in S
  OBVIOUS
<1> QED
  BY <1>1, <1>2 DEF Without

\* Creating a node in an existing one keeps the types and the tree.
LEMMA AddKeeps ==
    ASSUME TypeOK, Tree, Room, NEW nm \in Names, NEW ty \in Types,
           NEW d \in Created, NEW tgt \in Blocks \cup {Null},
           AddNode(nm, ty, d, tgt)
    PROVE  /\ pool_idx' \in Nodes /\ pool_idx' = pool_idx + 1
           /\ name' \in [Nodes -> Names]
           /\ type' \in [Nodes -> Types]
           /\ parent' \in [Nodes -> Nodes \cup {Null}]
           /\ children' \in [Nodes -> Seq(Nodes)]
           /\ target' \in [Nodes -> Blocks \cup {Null}]
           /\ Created \subseteq Created'
           /\ Tree'
<1> DEFINE n == pool_idx + 1
<1> USE PoolAssumption, NullAssumption
<1>1. /\ n \in Nodes /\ n \notin Created /\ d \in Nodes /\ d # n /\ n # Root
      /\ Created' = Created \cup {n} /\ Created \subseteq Nodes
  BY DEF TypeOK, Room, AddNode, Created, Nodes, Root
<1>2. /\ parent' = [parent EXCEPT ![n] = d]
      /\ children' = [children EXCEPT ![n] = <<>>, ![d] = <<n>> \o @]
  BY DEF AddNode
<1>3. children[d] \in Seq(Nodes) /\ <<n>> \in Seq(Nodes)
  BY <1>1 DEF TypeOK
<1>4. /\ <<n>> \o children[d] \in Seq(Nodes)
      /\ Len(<<n>> \o children[d]) = Len(children[d]) + 1
      /\ \A i \in 1 .. Len(children[d]) + 1 :
           (<<n>> \o children[d])[i] = IF i = 1 THEN n ELSE children[d][i - 1]
  BY <1>3, ConcatProperties
<1>5. children' \in [Nodes -> Seq(Nodes)]
  <2> DEFINE longer == <<n>> \o children[d]
  <2>1. longer \in Seq(Nodes) /\ <<>> \in Seq(Nodes)
    BY <1>4
  <2>2. children' = [children EXCEPT ![n] = <<>>, ![d] = longer]
    BY <1>1, <1>2 DEF TypeOK
  <2> HIDE DEF longer
  <2>3. children \in [Nodes -> Seq(Nodes)]
    BY DEF TypeOK
  <2> QED
    BY <1>1, <2>1, <2>2, <2>3
<1>6. ParentOlder'
  <2>1. parent'[Root] = Null
    BY <1>1, <1>2 DEF Tree, ParentOlder, TypeOK
  <2>2. ASSUME NEW m \in Created' \ {Root}
        PROVE  parent'[m] \in Nodes /\ parent'[m] < m
    <3>1. CASE m = n
      BY <1>1, <1>2, <3>1 DEF TypeOK, Created, Nodes
    <3>2. CASE m # n
      BY <1>1, <1>2, <3>2 DEF Tree, ParentOlder, TypeOK
    <3> QED
      BY <3>1, <3>2
  <2> QED
    BY <2>1, <2>2 DEF ParentOlder
<1>7. ListsAgree'
  <2> SUFFICES ASSUME NEW e \in Nodes, NEW i \in 1 .. Len(children'[e])
               PROVE  /\ children'[e][i] \in Created'
                      /\ parent'[children'[e][i]] = e
                      /\ \A j \in 1 .. Len(children'[e]) :
                           i # j => children'[e][i] # children'[e][j]
    BY DEF ListsAgree
  <2>0. \A k \in 1 .. Len(children[e]) :
          /\ children[e][k] \in Created
          /\ parent[children[e][k]] = e
          /\ \A j \in 1 .. Len(children[e]) :
               k # j => children[e][k] # children[e][j]
    BY DEF Tree, ListsAgree
  <2>1. CASE e = n
    BY <1>1, <1>2, <2>1 DEF TypeOK
  <2>2. CASE e = d
    <3>1. children'[e] = <<n>> \o children[d]
      BY <1>1, <1>2, <2>2 DEF TypeOK
    <3>2. Len(children[d]) \in Nat
      BY <1>3
    <3>3. CASE i = 1
      BY <1>1, <1>2, <1>4, <2>0, <2>2, <3>1, <3>2, <3>3 DEF TypeOK
    <3>4. CASE i # 1
      <4>1. i - 1 \in 1 .. Len(children[e]) /\ children'[e][i] = children[e][i - 1]
        BY <1>4, <2>2, <3>1, <3>2, <3>4
      <4>2. children'[e][i] \in Created /\ parent[children'[e][i]] = e
        BY <2>0, <4>1
      <4>3. parent'[children'[e][i]] = e
        BY <1>1, <1>2, <4>2 DEF TypeOK
      <4>4. ASSUME NEW j \in 1 .. Len(children'[e]), i # j
            PROVE  children'[e][i] # children'[e][j]
        <5>1. CASE j = 1
          BY <1>1, <1>4, <3>1, <4>2, <5>1
        <5>2. CASE j # 1
          <6>1. /\ j - 1 \in 1 .. Len(children[e]) /\ i - 1 # j - 1
                /\ children'[e][j] = children[e][j - 1]
            BY <1>4, <2>2, <3>1, <3>2, <4>4, <5>2
          <6> QED
            BY <2>0, <4>1, <6>1
        <5> QED
          BY <5>1, <5>2
      <4> QED
        BY <1>1, <4>2, <4>3, <4>4
    <3> QED
      BY <3>3, <3>4
  <2>3. CASE e # n /\ e # d
    <3>1. children'[e] = children[e]
      BY <1>2, <2>3 DEF TypeOK
    <3>2. children[e][i] \in Created /\ parent[children[e][i]] = e
      BY <2>0, <3>1
    <3>3. parent'[children[e][i]] = e
      BY <1>1, <1>2, <3>2 DEF TypeOK
    <3> QED
      BY <1>1, <2>0, <3>1, <3>2, <3>3
  <2> QED
    BY <2>1, <2>2, <2>3
<1>8. /\ name' \in [Nodes -> Names] /\ type' \in [Nodes -> Types]
      /\ parent' \in [Nodes -> Nodes \cup {Null}]
      /\ target' \in [Nodes -> Blocks \cup {Null}]
      /\ pool_idx' = pool_idx + 1
  BY <1>1 DEF AddNode, TypeOK
<1> QED
  BY <1>1, <1>5, <1>6, <1>7, <1>8 DEF Tree

\* Removing a node keeps the types and the tree.
LEMMA RemoveKeeps ==
    ASSUME TypeOK, Tree, NEW d \in Created, NEW i \in 1 .. Len(children[d]),
           Remove(d, i)
    PROVE  /\ pool_idx' = pool_idx /\ name' = name /\ parent' = parent
           /\ target' = target
           /\ type' \in [Nodes -> Types]
           /\ children' \in [Nodes -> Seq(Nodes)]
           /\ used' \subseteq Blocks
           /\ Tree'
<1> USE PoolAssumption
<1>1. d \in Nodes /\ children[d] \in Seq(Nodes) /\ Created' = Created
  BY DEF TypeOK, Created, Nodes, Remove
<1>2. /\ pool_idx' = pool_idx /\ name' = name /\ parent' = parent
      /\ target' = target /\ used' \subseteq Blocks
      /\ children' = [children EXCEPT ![d] = Without(children[d], i)]
  BY DEF Remove, Unlink, TypeOK
<1>3. /\ Without(children[d], i) \in Seq(Nodes)
      /\ Len(Without(children[d], i)) = Len(children[d]) - 1
      /\ \A j \in 1 .. Len(children[d]) - 1 :
           Without(children[d], i)[j]
             = IF j < i THEN children[d][j] ELSE children[d][j + 1]
  BY <1>1, WithoutKeeps
<1>4. type' \in [Nodes -> Types]
  BY DEF Remove, TypeOK, Types
<1>5. children' \in [Nodes -> Seq(Nodes)]
  BY <1>1, <1>2, <1>3 DEF TypeOK
<1>6. ParentOlder'
  BY <1>1, <1>2 DEF Tree, ParentOlder
<1>7. ListsAgree'
  <2> SUFFICES ASSUME NEW e \in Nodes, NEW k \in 1 .. Len(children'[e])
               PROVE  /\ children'[e][k] \in Created
                      /\ parent[children'[e][k]] = e
                      /\ \A j \in 1 .. Len(children'[e]) :
                           k # j => children'[e][k] # children'[e][j]
    BY <1>1, <1>2 DEF ListsAgree
  <2>0. \A x \in 1 .. Len(children[e]) :
          /\ children[e][x] \in Created
          /\ parent[children[e][x]] = e
          /\ \A j \in 1 .. Len(children[e]) :
               x # j => children[e][x] # children[e][j]
    BY DEF Tree, ListsAgree
  <2>1. CASE e # d
    BY <1>2, <2>0, <2>1 DEF TypeOK
  <2>2. CASE e = d
    <3> DEFINE at(x) == IF x < i THEN x ELSE x + 1
    <3>1. children'[e] = Without(children[d], i)
      BY <1>1, <1>2, <2>2 DEF TypeOK
    <3>2. Len(children[d]) \in Nat
      BY <1>1
    <3>3. \A x \in 1 .. Len(children'[e]) :
            /\ at(x) \in 1 .. Len(children[e])
            /\ children'[e][x] = children[e][at(x)]
      BY <1>3, <2>2, <3>1, <3>2
    <3>4. \A x, y \in 1 .. Len(children'[e]) : x # y => at(x) # at(y)
      BY <1>3, <3>1, <3>2
    <3> HIDE DEF at
    <3>5. at(k) \in 1 .. Len(children[e]) /\ children'[e][k] = children[e][at(k)]
      BY <3>3
    <3>6. ASSUME NEW j \in 1 .. Len(children'[e]), k # j
          PROVE  children'[e][k] # children'[e][j]
      <4>1. at(j) \in 1 .. Len(children[e]) /\ children'[e][j] = children[e][at(j)]
        BY <3>3
      <4>2. at(k) # at(j)
        BY <3>4, <3>6
      <4> QED
        BY <2>0, <3>5, <4>1, <4>2
    <3> QED
      BY <2>0, <3>5, <3>6
  <2> QED
    BY <2>1, <2>2
<1> QED
  BY <1>2, <1>4, <1>5, <1>6, <1>7 DEF Tree

-----------------------------------------------------------------------------
(* The invariant.                                                          *)

LEMMA InitInv == Init => Inv
<1> SUFFICES ASSUME Init PROVE Inv
  OBVIOUS
<1> USE PoolAssumption, NullAssumption DEF Root, Nodes
<1>1. TypeOK
  <2>1. name \in [Nodes -> Names]
    <3>1. {Empty, Slash, Users, Home} \subseteq Names
      BY NamesAssumption
    <3>2. \A n \in Nodes : name[n] \in {Empty, Slash, Users, Home}
      BY DEF Init
    <3> QED
      BY <3>1, <3>2 DEF Init
  <2>2. /\ type \in [Nodes -> Types]
        /\ parent \in [Nodes -> Nodes \cup {Null}]
        /\ target \in [Nodes -> Blocks \cup {Null}]
    BY DEF Init, Types
  <2>3. children \in [Nodes -> Seq(Nodes)]
    <3>1. <<1>> \in Seq(Nodes) /\ <<>> \in Seq(Nodes)
      OBVIOUS
    <3> QED
      BY <3>1 DEF Init
  <2> QED
    BY <2>1, <2>2, <2>3 DEF Init, TypeOK, Created
<1>2. Tree
  BY DEF Init, Tree, ParentOlder, ListsAgree, Created
<1>3. TodoCreated
  BY DEF Init, TodoCreated
<1> QED
  BY <1>1, <1>2, <1>3 DEF Inv

\* The last name of a path is a name.
LEMMA LastIsName ==
    ASSUME NEW p \in MakePaths \cup TouchPaths \cup LinkPaths \cup Paths \cup CdPaths
    PROVE  Last(p) \in Names
  BY NamesAssumption DEF Last

\* Steps outside a copy keep the invariant.
LEMMA CommandKeeps ==
    ASSUME Inv,
           \/ \E p \in MakePaths : Mkdir(p)
           \/ \E p \in TouchPaths : Touch(p)
           \/ \E p \in CdPaths : Cd(p)
           \/ \E p \in Paths, recursive \in BOOLEAN : Rm(p, recursive)
           \/ \E t \in Paths, l \in LinkPaths : LnS(t, l)
           \/ CdUp \/ CdBack \/ CdHome
    PROVE  Inv'
<1>0. TypeOK /\ Tree /\ TodoCreated
  BY DEF Inv
<1>1. ASSUME NEW p \in MakePaths \cup TouchPaths, Mkdir(p) \/ Touch(p) PROVE Inv'
  <2>1. PICK d \in Created, ty \in {"dir", "file"} :
          Room /\ AddNode(Last(p), ty, d, Null)
    BY <1>1 DEF Mkdir, Touch
  <2>2. ty \in Types /\ Last(p) \in Names
    BY <2>1, LastIsName DEF Types
  <2>3. UNCHANGED <<used, shell, copying>>
    BY <1>1 DEF Mkdir, Touch
  <2> QED
    BY <1>0, <2>1, <2>2, <2>3, AddKeeps
    DEF Inv, TypeOK, TodoCreated, shell, copying
<1>2. ASSUME NEW n \in Created, GoTo(n), UNCHANGED <<tree, used, copying>>
      PROVE  Inv'
  BY <1>0, <1>2
  DEF GoTo, Inv, TypeOK, Tree, ParentOlder, ListsAgree, TodoCreated, Created,
      tree, copying
<1>3. ASSUME NEW p \in Paths, NEW r \in BOOLEAN, Rm(p, r) PROVE Inv'
  <2>1. PICK d \in Created : \E i \in 1 .. Len(children[d]) : Remove(d, i)
    BY <1>3 DEF Rm
  <2>2. PICK i \in 1 .. Len(children[d]) : Remove(d, i)
    BY <2>1
  <2> QED
    BY <1>0, <1>3, <2>2, RemoveKeeps
    DEF Rm, Inv, TypeOK, TodoCreated, Created, shell, copying
<1>4. ASSUME NEW t \in Paths, NEW l \in LinkPaths, LnS(t, l) PROVE Inv'
  <2>1. PICK x \in Created, d \in Created, b \in (Blocks \ used) \cup {Null} :
          /\ \/ AddNode(name[x], "link", d, b)
             \/ AddNode(Last(l), "link", d, b)
          /\ used' = used \cup ({b} \ {Null})
    BY <1>4 DEF LnS
  <2>2. PICK nm \in Names : AddNode(nm, "link", d, b)
    <3>1. Last(l) \in Names
      BY LastIsName
    <3>2. name[x] \in Names
      BY <1>0, PoolAssumption DEF TypeOK, Created, Nodes
    <3> QED
      BY <2>1, <3>1, <3>2
  <2>3. "link" \in Types /\ b \in Blocks \cup {Null} /\ used' \subseteq Blocks
    BY <1>0, <2>1 DEF Types, TypeOK
  <2>4. Room /\ UNCHANGED <<shell, copying>>
    BY <1>4 DEF LnS
  <2> QED
    BY <1>0, <2>2, <2>3, <2>4, AddKeeps
    DEF Inv, TypeOK, TodoCreated, shell, copying
<1>5. CASE \E p \in CdPaths : Cd(p)
  <2>1. PICK p \in CdPaths : Cd(p)
    BY <1>5
  <2>2. PICK n \in Created : GoTo(n)
    BY <2>1 DEF Cd
  <2> QED
    BY <1>2, <2>1, <2>2 DEF Cd
<1>6. CASE CdUp
  <2>1. cwd \in Created \ {Root}
    BY <1>0, <1>6 DEF CdUp, TypeOK, Tree, ParentOlder
  <2>2. parent[cwd] \in Nodes /\ parent[cwd] < cwd
    BY <1>0, <2>1 DEF Tree, ParentOlder
  <2>3. parent[cwd] \in Created
    BY <1>0, <2>1, <2>2, PoolAssumption DEF TypeOK, Created, Nodes
  <2> QED
    BY <1>2, <1>6, <2>3 DEF CdUp
<1>7. CASE CdBack
  <2>1. prev_cwd \in Created
    BY <1>0, <1>7 DEF CdBack, TypeOK
  <2> QED
    BY <1>2, <1>7, <2>1 DEF CdBack
<1>8. CASE CdHome
  BY <1>2, <1>8 DEF CdHome
<1> QED
  BY <1>1, <1>3, <1>4, <1>5, <1>6, <1>7, <1>8

\* So do the steps of a copy: what is left to copy is made of nodes that exist.
LEMMA StartKeeps ==
    ASSUME Inv, NEW op \in {"cp", "mv"}, NEW from \in Paths, NEW to \in Paths,
           StartCopy(op, from, to)
    PROVE  Inv'
<1>1. TypeOK /\ Tree
  BY DEF Inv
<1>2. PICK s \in Created, d \in Created, deep \in BOOLEAN :
        todo' = <<[src |-> s, dst |-> d, deep |-> deep,
                   name |-> IF deep THEN name[s] ELSE Last(to)]>>
  BY DEF StartCopy
<1>3. s \in Nodes /\ d \in Nodes
  BY <1>1, PoolAssumption DEF TypeOK, Created, Nodes
<1>4. name[s] \in Names /\ Last(to) \in Names
  BY <1>1, <1>3, LastIsName DEF TypeOK
<1> DEFINE it == [src |-> s, dst |-> d, deep |-> deep,
                  name |-> IF deep THEN name[s] ELSE Last(to)]
<1>5. it \in Items /\ it.src = s /\ it.dst = d
  BY <1>2, <1>3, <1>4 DEF Items
<1>6. todo' = <<it>>
  BY <1>2
<1> HIDE DEF it
<1>7. todo' \in Seq(Items) /\ Len(todo') = 1 /\ todo'[1] = it
  BY <1>5, <1>6
<1>8. UNCHANGED <<tree, used, shell>> /\ phase' = "copy"
  BY DEF StartCopy
<1>9. TypeOK'
  BY <1>1, <1>7, <1>8 DEF TypeOK, Created, tree, shell
<1>10. Tree'
  BY <1>1, <1>8 DEF Tree, ParentOlder, ListsAgree, Created, tree
<1>11. TodoCreated'
  BY <1>5, <1>7, <1>8 DEF TodoCreated, Created, tree
<1> QED
  BY <1>9, <1>10, <1>11 DEF Inv

LEMMA CopyNodeKeeps ==
    ASSUME Inv, CopyNode
    PROVE  Inv'
<1>1. TypeOK /\ Tree /\ TodoCreated
  BY DEF Inv
<1> DEFINE it == Head(todo)
           n == pool_idx + 1
           kids == children'[it.src]
           new == ChildrenToCopy(it, n, kids)
<1>2. /\ Room /\ AddNode(it.name, type[it.src], it.dst, Null)
      /\ todo' = new \o Tail(todo)
      /\ todo # <<>> /\ phase' = phase /\ UNCHANGED <<used, shell>>
  BY DEF CopyNode, LinkCopy
<1>3. todo \in Seq(Items) /\ it = todo[1] /\ it \in Items
  BY <1>1, <1>2 DEF TypeOK
<1>4. it.src \in Created /\ it.dst \in Created
  BY <1>1, <1>2, <1>3 DEF TodoCreated
<1>5. it.name \in Names /\ it.deep \in BOOLEAN /\ it.src \in Nodes
  BY <1>3 DEF Items
<1>6. type[it.src] \in Types
  BY <1>1, <1>5 DEF TypeOK
<1>7. /\ pool_idx' \in Nodes /\ pool_idx' = n
      /\ name' \in [Nodes -> Names]
      /\ type' \in [Nodes -> Types]
      /\ parent' \in [Nodes -> Nodes \cup {Null}]
      /\ children' \in [Nodes -> Seq(Nodes)]
      /\ target' \in [Nodes -> Blocks \cup {Null}]
      /\ Created \subseteq Created'
      /\ Tree'
  BY <1>1, <1>2, <1>4, <1>5, <1>6, AddKeeps
<1>8. kids \in Seq(Nodes) /\ \A i \in 1 .. Len(kids) : kids[i] \in Created'
  BY <1>5, <1>7 DEF Tree, ListsAgree
<1>9. n \in Nodes /\ n \in Created'
  BY <1>7, PoolAssumption DEF Created, Nodes
<1>10. new \in Seq(Items) /\ \A i \in 1 .. Len(new) :
         new[i].src \in Created' /\ new[i].dst \in Created'
  <2>1. CASE ~it.deep
    BY <2>1 DEF ChildrenToCopy
  <2>2. CASE it.deep
    <3> DEFINE item(i) == [src |-> kids[i], dst |-> n, deep |-> TRUE,
                           name |-> IF kids[i] = n THEN it.name ELSE name[kids[i]]]
    <3>1. \A i \in 1 .. Len(kids) :
            /\ item(i) \in Items
            /\ item(i).src \in Created' /\ item(i).dst \in Created'
      BY <1>1, <1>5, <1>8, <1>9 DEF Items, TypeOK
    <3>2. new = [i \in 1 .. Len(kids) |-> item(i)]
      BY <2>2 DEF ChildrenToCopy
    <3>3. Len(kids) \in Nat
      BY <1>8
    <3> HIDE DEF item, new, kids
    <3> QED
      BY <3>1, <3>2, <3>3
  <2> QED
    BY <1>5, <2>1, <2>2
<1> HIDE DEF new
<1>11. /\ Tail(todo) \in Seq(Items) /\ Len(Tail(todo)) = Len(todo) - 1
       /\ \A i \in 1 .. Len(todo) - 1 : Tail(todo)[i] = todo[i + 1]
  BY <1>2, <1>3
<1>12. \A i \in 1 .. Len(todo) - 1 :
         Tail(todo)[i].src \in Created' /\ Tail(todo)[i].dst \in Created'
  <2> SUFFICES ASSUME NEW i \in 1 .. Len(todo) - 1
               PROVE  todo[i + 1].src \in Created' /\ todo[i + 1].dst \in Created'
    BY <1>11
  <2>1. i + 1 \in 1 .. Len(todo)
    BY <1>3
  <2> QED
    BY <1>1, <1>7, <2>1 DEF TodoCreated
<1>13. /\ todo' \in Seq(Items)
       /\ \A i \in 1 .. Len(todo') :
            todo'[i].src \in Created' /\ todo'[i].dst \in Created'
  <2> DEFINE rest == Tail(todo)
  <2>1. rest \in Seq(Items) /\ \A i \in 1 .. Len(rest) :
          rest[i].src \in Created' /\ rest[i].dst \in Created'
    BY <1>11, <1>12
  <2> HIDE DEF rest
  <2>2. /\ new \o rest \in Seq(Items)
        /\ Len(new \o rest) = Len(new) + Len(rest)
        /\ \A i \in 1 .. Len(new) + Len(rest) :
             (new \o rest)[i] = IF i <= Len(new) THEN new[i] ELSE rest[i - Len(new)]
    BY <1>10, <2>1, ConcatProperties
  <2>3. Len(new) \in Nat /\ Len(rest) \in Nat
    BY <1>10, <2>1
  <2>4. \A i \in 1 .. Len(new) + Len(rest) :
          (new \o rest)[i].src \in Created' /\ (new \o rest)[i].dst \in Created'
    <3> SUFFICES ASSUME NEW i \in 1 .. Len(new) + Len(rest)
                 PROVE  (new \o rest)[i].src \in Created'
                        /\ (new \o rest)[i].dst \in Created'
      OBVIOUS
    <3>1. CASE i <= Len(new)
      BY <1>10, <2>2, <2>3, <3>1
    <3>2. CASE ~(i <= Len(new))
      <4>1. i - Len(new) \in 1 .. Len(rest)
        BY <2>3, <3>2
      <4> QED
        BY <2>1, <2>2, <3>2, <4>1
    <3> QED
      BY <3>1, <3>2
  <2> QED
    BY <1>2, <2>2, <2>4 DEF rest
<1>14. TypeOK'
  BY <1>1, <1>2, <1>7, <1>13 DEF TypeOK, shell
<1>15. TodoCreated'
  BY <1>13 DEF TodoCreated
<1> QED
  BY <1>7, <1>14, <1>15 DEF Inv

LEMMA StillKeeps ==
    ASSUME Inv, UNCHANGED <<tree, used, shell, todo>>,
           phase' \in {"idle", "copy", "done"}
    PROVE  Inv'
<1>1. TypeOK'
  BY DEF Inv, TypeOK, Created, tree, shell
<1>2. Tree'
  BY DEF Inv, Tree, ParentOlder, ListsAgree, Created, tree
<1>3. TodoCreated'
  BY DEF Inv, TodoCreated, Created, tree
<1> QED
  BY <1>1, <1>2, <1>3 DEF Inv

LEMMA CopyEndKeeps ==
    ASSUME Inv, CopyFails \/ Return \/ Prompt
    PROVE  Inv'
<1>1. TypeOK /\ Tree /\ TodoCreated
  BY DEF Inv
<1>2. CASE CopyFails
  <2>1. /\ todo \in Seq(Items) /\ todo # <<>>
        /\ todo' = Tail(todo) /\ UNCHANGED <<tree, used, shell, phase>>
    BY <1>1, <1>2 DEF CopyFails, TypeOK
  <2>2. /\ todo' \in Seq(Items) /\ Len(todo') = Len(todo) - 1
        /\ \A i \in 1 .. Len(todo') : i + 1 \in 1 .. Len(todo) /\ todo'[i] = todo[i + 1]
    BY <2>1
  <2>3. TypeOK'
    BY <1>1, <2>1, <2>2 DEF TypeOK, Created, tree, shell
  <2>4. Tree'
    BY <1>1, <2>1 DEF Tree, ParentOlder, ListsAgree, Created, tree
  <2>5. TodoCreated'
    BY <1>1, <2>1, <2>2 DEF TodoCreated, Created, tree
  <2> QED
    BY <2>3, <2>4, <2>5 DEF Inv
<1>3. CASE Return
  <2>1. phase' = "done" /\ UNCHANGED <<shell, todo>>
    BY <1>3 DEF Return
  <2>2. CASE UNCHANGED <<tree, used>>
    BY <2>1, <2>2, StillKeeps
  <2>3. ASSUME NEW d \in Created, NEW i \in 1 .. Len(children[d]), Remove(d, i)
        PROVE  Inv'
    BY <1>1, <2>1, <2>3, RemoveKeeps
    DEF Inv, TypeOK, TodoCreated, Created, shell
  <2> QED
    BY <1>3, <2>2, <2>3 DEF Return, RemoveSource
<1>4. CASE Prompt
  BY <1>4, StillKeeps DEF Prompt
<1> QED
  BY <1>2, <1>3, <1>4

LEMMA StepInv == Inv /\ [Next]_vars => Inv'
<1> SUFFICES ASSUME Inv, [Next]_vars PROVE Inv'
  OBVIOUS
<1>1. CASE UNCHANGED vars
  BY <1>1, StillKeeps DEF vars, copying, Inv, TypeOK
<1>2. ASSUME NEW op \in {"cp", "mv"}, NEW p \in Paths, NEW q \in Paths,
             StartCopy(op, p, q)
      PROVE  Inv'
  BY <1>2, StartKeeps
<1> QED
  BY <1>1, <1>2, CommandKeeps, CopyNodeKeeps, CopyEndKeeps DEF Next, Copying

\* The pool, the tree, the heap blocks of links, the shell's two directories and
\* the copy in progress keep their types, whatever the commands and their paths.
THEOREM TypeCorrect == Spec => []TypeOK
<1>1. Inv => TypeOK
  BY DEF Inv
<1> QED
  BY <1>1, InitInv, StepInv, PTL DEF Spec

\* The nodes stay a tree: every node is younger than its parent, and stands once
\* in its parent's list and in no other, through every sequence of mkdir, touch,
\* ln, rm, cp and mv, and at every moment of a copy.
THEOREM StaysATree == Spec => []Tree
<1>1. Inv => Tree
  BY DEF Inv
<1> QED
  BY <1>1, InitInv, StepInv, PTL DEF Spec

-----------------------------------------------------------------------------
(* Going down the tree.                                                    *)

\* What has to be typed for a walk of the tree.
Linked ==
    /\ pool_idx \in Nodes
    /\ parent \in [Nodes -> Nodes \cup {Null}]
    /\ children \in [Nodes -> Seq(Nodes)]

\* The nodes below a node are the least set that holds it and, with a node, all
\* that is listed in it.
UnderStep(n, m) == m = n \/ (m > n /\ Listed(m) /\ parent[m] \in Under(n))

LEMMA UnderIs ==
    Linked => \A n \in Nodes :
      /\ Under(n) \subseteq Nodes
      /\ \A m \in Nodes : m \in Under(n) <=> UnderStep(n, m)
<1> SUFFICES ASSUME Linked, NEW n \in Nodes
             PROVE  /\ Under(n) \subseteq Nodes
                    /\ \A m \in Nodes : m \in Under(n) <=> UnderStep(n, m)
  OBVIOUS
<1> DEFINE Closed(T) == /\ n \in T
                        /\ \A k \in Nodes : k > n /\ Listed(k) /\ parent[k] \in T => k \in T
           R == {m \in Nodes : \A T \in SUBSET Nodes : Closed(T) => m \in T}
           In == CHOOSE in : in = [m \in Nodes |-> m = n \/ (m > n /\ Listed(m) /\ in[parent[m]])]
<1>1. Closed(R)
  OBVIOUS
<1>2. ASSUME NEW m \in R PROVE m = n \/ (m > n /\ Listed(m) /\ parent[m] \in R)
  <2> SUFFICES ASSUME m # n, ~(m > n /\ Listed(m) /\ parent[m] \in R) PROVE FALSE
    OBVIOUS
  <2>1. Closed(R \ {m})
    BY <1>1
  <2>2. R \ {m} \in SUBSET Nodes
    OBVIOUS
  <2> QED
    BY <1>2, <2>1, <2>2
<1> HIDE DEF R
<1>3. R \subseteq Nodes
  BY DEF R
<1>4. \A m \in Nodes : m \in R <=> m = n \/ (m > n /\ Listed(m) /\ parent[m] \in R)
  BY <1>1, <1>2
<1> DEFINE f == [m \in Nodes |-> m \in R]
<1>5. \A m \in Nodes : Listed(m) => parent[m] \in Nodes
  BY DEF Linked, Listed
<1>6. f = [m \in Nodes |-> m = n \/ (m > n /\ Listed(m) /\ f[parent[m]])]
  <2>1. ASSUME NEW m \in Nodes
        PROVE  (m \in R) = (m = n \/ (m > n /\ Listed(m) /\ f[parent[m]]))
    <3>1. CASE Listed(m)
      <4>1. f[parent[m]] = (parent[m] \in R)
        BY <1>5, <3>1
      <4> HIDE DEF f
      <4>2. m \in R <=> (m = n \/ (m > n /\ Listed(m) /\ f[parent[m]]))
        BY <1>4, <4>1, Zenon
      <4> QED
        BY <4>2
    <3>2. CASE ~Listed(m)
      BY <1>4, <3>2
    <3> QED
      BY <3>1, <3>2
  <2> QED
    BY <2>1, Zenon
<1>7. In = [m \in Nodes |-> m = n \/ (m > n /\ Listed(m) /\ In[parent[m]])]
  BY <1>6, Zenon
<1>8. Under(n) = {m \in Nodes : In[m]}
  BY DEF Under
<1> HIDE DEF In
<1>9. \A m \in Nodes : In[m] = (m = n \/ (m > n /\ Listed(m) /\ In[parent[m]]))
  BY <1>7, Zenon
<1>10. \A m \in Nodes : m \in Under(n) <=> UnderStep(n, m)
  BY <1>5, <1>8, <1>9, Zenon DEF UnderStep
<1> QED
  BY <1>8, <1>10

SweptStep(t, m) ==
    m = t \/ (m > t /\ Listed(m) /\ type[parent[m]] = "dir" /\ parent[m] \in Swept(t))

LEMMA SweptIs ==
    Linked => \A n \in Nodes :
      /\ Swept(n) \subseteq Nodes
      /\ \A m \in Nodes : m \in Swept(n) <=> SweptStep(n, m)
<1> SUFFICES ASSUME Linked, NEW n \in Nodes
             PROVE  /\ Swept(n) \subseteq Nodes
                    /\ \A m \in Nodes : m \in Swept(n) <=> SweptStep(n, m)
  OBVIOUS
<1> DEFINE Goes(k) == Listed(k) /\ type[parent[k]] = "dir"
           Closed(T) == /\ n \in T
                        /\ \A k \in Nodes : k > n /\ Goes(k) /\ parent[k] \in T => k \in T
           R == {m \in Nodes : \A T \in SUBSET Nodes : Closed(T) => m \in T}
           In == CHOOSE in : in = [m \in Nodes |->
                   m = n \/ (m > n /\ Listed(m) /\ type[parent[m]] = "dir" /\ in[parent[m]])]
<1>0. \A m \in Nodes : Goes(m) => parent[m] \in Nodes
  BY DEF Linked, Listed
<1>9. Swept(n) = {m \in Nodes : In[m]}
  BY DEF Swept
<1> HIDE DEF Goes
<1>1. Closed(R)
  OBVIOUS
<1>2. ASSUME NEW m \in R PROVE m = n \/ (m > n /\ Goes(m) /\ parent[m] \in R)
  <2> SUFFICES ASSUME m # n, ~(m > n /\ Goes(m) /\ parent[m] \in R) PROVE FALSE
    OBVIOUS
  <2>1. Closed(R \ {m})
    BY <1>1
  <2>2. R \ {m} \in SUBSET Nodes
    OBVIOUS
  <2> QED
    BY <1>2, <2>1, <2>2
<1> HIDE DEF R
<1>3. R \subseteq Nodes
  BY DEF R
<1>4. \A m \in Nodes : m \in R <=> m = n \/ (m > n /\ Goes(m) /\ parent[m] \in R)
  BY <1>1, <1>2
<1> DEFINE f == [m \in Nodes |-> m \in R]
<1>5. f = [m \in Nodes |-> m = n \/ (m > n /\ Goes(m) /\ f[parent[m]])]
  <2>1. ASSUME NEW m \in Nodes
        PROVE  (m \in R) = (m = n \/ (m > n /\ Goes(m) /\ f[parent[m]]))
    <3>1. CASE Goes(m)
      <4>1. f[parent[m]] = (parent[m] \in R)
        BY <1>0, <3>1
      <4> HIDE DEF f
      <4>2. m \in R <=> (m = n \/ (m > n /\ Goes(m) /\ f[parent[m]]))
        BY <1>4, <4>1, Zenon
      <4> QED
        BY <4>2
    <3>2. CASE ~Goes(m)
      BY <1>4, <3>2
    <3> QED
      BY <3>1, <3>2
  <2> QED
    BY <2>1, Zenon
<1>6. f = [m \in Nodes |-> m = n \/ (m > n /\ Listed(m) /\ type[parent[m]] = "dir" /\ f[parent[m]])]
  <2> HIDE DEF f
  <2>1. \A m \in Nodes : (m = n \/ (m > n /\ Goes(m) /\ f[parent[m]]))
          = (m = n \/ (m > n /\ Listed(m) /\ type[parent[m]] = "dir" /\ f[parent[m]]))
    BY Zenon DEF Goes
  <2> QED
    BY <1>5, <2>1, Zenon
<1>7. In = [m \in Nodes |-> m = n \/ (m > n /\ Listed(m) /\ type[parent[m]] = "dir" /\ In[parent[m]])]
  BY <1>6, Zenon
<1> HIDE DEF In
<1>10. \A m \in Nodes : In[m] =
         (m = n \/ (m > n /\ Listed(m) /\ type[parent[m]] = "dir" /\ In[parent[m]]))
  BY <1>7, Zenon
<1>11. \A m \in Nodes : m \in Swept(n) <=> SweptStep(n, m)
  BY <1>0, <1>9, <1>10, Zenon DEF SweptStep, Goes
<1> QED
  BY <1>9, <1>11

\* The root exists.
LEMMA RootCreated ==
    ASSUME Linked
    PROVE  Root \in Created /\ Root \in Nodes /\ Created \subseteq Nodes /\ Nodes \subseteq Nat
  BY PoolAssumption DEF Linked, Created, Nodes, Root

\* A listed node exists, and its parent is older.
ListedFacts == \A m \in Nodes : Listed(m) =>
    m \in Created /\ m # Root /\ parent[m] \in Nodes /\ parent[m] < m

LEMMA ListedIs == Linked /\ Tree => ListedFacts
<1> SUFFICES ASSUME Linked, Tree, NEW m \in Nodes, Listed(m)
             PROVE  m \in Created /\ m # Root /\ parent[m] \in Nodes /\ parent[m] < m
  BY DEF ListedFacts
<1>1. parent[m] \in Nodes
  BY DEF Linked, Listed
<1>2. PICK i \in 1 .. Len(children[parent[m]]) : children[parent[m]][i] = m
  BY DEF Listed
<1>3. m \in Created
  BY <1>1, <1>2 DEF Tree, ListsAgree
<1>4. m # Root
  BY <1>1, NullAssumption DEF Tree, ParentOlder
<1> QED
  BY <1>1, <1>3, <1>4 DEF Tree, ParentOlder

\* What goes from a node down with every list holds all below it.
UnderLeastFacts == \A n \in Nodes : \A S \in SUBSET Nodes :
    /\ n \in S
    /\ \A m \in Under(n) \ {n} : m > n /\ Listed(m) /\ parent[m] \in Under(n) \cap S => m \in S
    => Under(n) \subseteq S

LEMMA UnderLeast == Linked /\ Tree => UnderLeastFacts
<1> SUFFICES ASSUME Linked, Tree, NEW n \in Nodes, NEW S \in SUBSET Nodes,
                    n \in S,
                    \A m \in Under(n) \ {n} :
                      m > n /\ Listed(m) /\ parent[m] \in Under(n) \cap S => m \in S
             PROVE  Under(n) \subseteq S
  BY DEF UnderLeastFacts
<1> DEFINE Bad == Under(n) \ S
<1>1. Under(n) \subseteq Nodes /\ \A m \in Nodes : m \in Under(n) <=> UnderStep(n, m)
  BY UnderIs
<1>2. ASSUME Bad # {} PROVE FALSE
  <2>1. PICK m \in Bad : \A k \in Bad : m <= k
    <3>1. Bad \in SUBSET Nat
      BY <1>1, PoolAssumption DEF Nodes
    <3> HIDE DEF Bad
    <3> QED
      BY <1>2, <3>1, Least
  <2>2. m \in Under(n) /\ m \notin S /\ m # n /\ m \in Nodes
    BY <1>1, <2>1
  <2>3. m > n /\ Listed(m) /\ parent[m] \in Under(n)
    BY <1>1, <2>2 DEF UnderStep
  <2>4. parent[m] \in Nodes /\ parent[m] < m
    BY <2>2, <2>3, ListedIs DEF ListedFacts
  <2>5. parent[m] \notin Bad
    BY <2>1, <2>2, <2>4, PoolAssumption DEF Nodes
  <2> QED
    BY <2>2, <2>3, <2>5
<1> QED
  BY <1>2

\* What rm sweeps is below the node that it removes.
SweptFacts == \A t \in Nodes :
    /\ Swept(t) \subseteq Under(t)
    /\ t \in Swept(t)
    /\ \A m \in Swept(t) \ {t} : m > t /\ parent[m] \in Swept(t)

LEMMA SweptUnder == Linked /\ Tree => SweptFacts
<1> SUFFICES ASSUME Linked, Tree, NEW t \in Nodes
             PROVE  /\ Swept(t) \subseteq Under(t)
                    /\ t \in Swept(t)
                    /\ \A m \in Swept(t) \ {t} : m > t /\ parent[m] \in Swept(t)
  BY DEF SweptFacts
<1>1. Under(t) \subseteq Nodes /\ \A m \in Nodes : m \in Under(t) <=> UnderStep(t, m)
  BY UnderIs
<1>2. Swept(t) \subseteq Nodes /\ \A m \in Nodes : m \in Swept(t) <=> SweptStep(t, m)
  BY SweptIs
<1> DEFINE Bad == Swept(t) \ Under(t)
<1>3. ASSUME Bad # {} PROVE FALSE
  <2>1. PICK m \in Bad : \A k \in Bad : m <= k
    <3>1. Bad \in SUBSET Nat
      BY <1>2, PoolAssumption DEF Nodes
    <3> HIDE DEF Bad
    <3> QED
      BY <1>3, <3>1, Least
  <2>2. m \in Swept(t) /\ m \notin Under(t) /\ m \in Nodes
    BY <1>2, <2>1
  <2>3. m # t
    BY <1>1, <2>2 DEF UnderStep
  <2>4. m > t /\ Listed(m) /\ parent[m] \in Swept(t)
    BY <1>2, <2>2, <2>3 DEF SweptStep
  <2>5. parent[m] \in Nodes /\ parent[m] < m
    BY <2>2, <2>4, ListedIs DEF ListedFacts
  <2>6. parent[m] \notin Bad
    BY <2>1, <2>2, <2>5, PoolAssumption DEF Nodes
  <2> QED
    BY <1>1, <2>2, <2>4, <2>6 DEF UnderStep
<1> QED
  BY <1>2, <1>3 DEF SweptStep

\* The nodes below a node exist and are younger, and so are their children.
DownFacts == \A n \in Created :
    /\ n \in Under(n)
    /\ Under(n) \subseteq Created
    /\ \A d \in Under(n) :
         /\ d >= n
         /\ \A i \in 1 .. Len(children[d]) :
              children[d][i] \in Under(n) /\ children[d][i] > d

LEMMA Down == Linked /\ Tree => DownFacts
<1> SUFFICES ASSUME Linked, Tree, NEW n \in Created
             PROVE  /\ n \in Under(n)
                    /\ Under(n) \subseteq Created
                    /\ \A d \in Under(n) :
                         /\ d >= n
                         /\ \A i \in 1 .. Len(children[d]) :
                              children[d][i] \in Under(n) /\ children[d][i] > d
  BY DEF DownFacts
<1>0. Created \subseteq Nodes /\ Nodes \subseteq Nat
  BY PoolAssumption DEF Linked, Created, Nodes
<1>1. Under(n) \subseteq Nodes /\ \A m \in Nodes : m \in Under(n) <=> UnderStep(n, m)
  BY <1>0, UnderIs
<1>2. n \in Under(n)
  BY <1>0, <1>1 DEF UnderStep
<1>3. ASSUME NEW d \in Under(n)
      PROVE  d \in Created /\ d >= n
  <2>1. CASE d = n
    BY <1>0, <2>1
  <2>2. CASE d # n
    <3>1. d \in Nodes /\ d > n /\ Listed(d)
      BY <1>1, <1>3, <2>2 DEF UnderStep
    <3> QED
      BY <1>0, <3>1, ListedIs DEF ListedFacts
  <2> QED
    BY <2>1, <2>2
<1>4. ASSUME NEW d \in Under(n), NEW i \in 1 .. Len(children[d])
      PROVE  children[d][i] \in Under(n) /\ children[d][i] > d
  <2> DEFINE c == children[d][i]
  <2>1. d \in Nodes /\ d >= n
    BY <1>0, <1>1, <1>3
  <2>2. c \in Created /\ parent[c] = d
    BY <2>1 DEF Tree, ListsAgree
  <2>3. Listed(c)
    BY <2>1, <2>2, NullAssumption DEF Listed
  <2>4. c \in Nodes /\ d < c
    BY <1>0, <2>2, <2>3, ListedIs DEF ListedFacts
  <2>5. c > n
    <3> HIDE DEF c
    <3> QED
      BY <1>0, <2>1, <2>4
  <2> QED
    BY <1>1, <2>2, <2>3, <2>4, <2>5 DEF UnderStep
<1> QED
  BY <1>2, <1>3, <1>4

\* All of this at the next moment.
UnderFacts == \A n \in Nodes :
      /\ Under(n) \subseteq Nodes
      /\ \A m \in Nodes : m \in Under(n) <=> UnderStep(n, m)

LEMMA Walks == Linked /\ Tree => UnderFacts /\ ListedFacts /\ UnderLeastFacts /\ DownFacts
  BY UnderIs, ListedIs, UnderLeast, Down DEF UnderFacts

WalksClaim == Linked /\ Tree => UnderFacts /\ ListedFacts /\ UnderLeastFacts /\ DownFacts

LEMMA WalksNext == WalksClaim'
<1>1. WalksClaim
  BY Walks DEF WalksClaim
<1> QED
  BY <1>1, PTL

-----------------------------------------------------------------------------
(* Finding nodes.                                                          *)

\* One step of a lookup.
StepTo(cur, nm) ==
    CASE cur = Null \/ nm = Empty -> cur
      [] nm = DotDot /\ cur # Null -> IF parent[cur] = Null THEN cur ELSE parent[cur]
      [] OTHER -> Find(cur, nm)

\* A lookup goes from the root by one step for each name, and stays in every set
\* the steps do not leave.
IsWalk(w, p, S) ==
    /\ w \in [Nat -> S \cup {Null}]
    /\ w[0] = Root
    /\ \A i \in Nat \ {0} : w[i] = StepTo(w[i - 1], p[i])
    /\ Lookup(p) = IF p = <<Empty>> THEN Null ELSE w[Len(p)]

LEMMA WalkExists ==
    ASSUME NEW S \in SUBSET Nodes, Root \in S, NEW p,
           \A nm : \A c \in S \cup {Null} : StepTo(c, nm) \in S \cup {Null}
    PROVE  \E w : IsWalk(w, p, S)
<1> DEFINE T == S \cup {Null}
           g == [x \in T \X Nat |-> StepTo(x[1], p[x[2]])]
           W == CHOOSE walk : walk = [i \in Nat |->
                  IF i = 0 THEN Root
                  ELSE LET cur == walk[i - 1]
                       IN  CASE cur = Null \/ p[i] = Empty -> cur
                             [] p[i] = DotDot /\ cur # Null ->
                                  IF parent[cur] = Null THEN cur ELSE parent[cur]
                             [] OTHER -> Find(cur, p[i])]
<1>1. Lookup(p) = IF p = <<Empty>> THEN Null ELSE W[Len(p)]
  BY DEF Lookup
<1>2. g \in [T \X Nat -> T]
  <2>1. ASSUME NEW x \in T \X Nat PROVE StepTo(x[1], p[x[2]]) \in T
    <3>1. x[1] \in S \cup {Null}
      OBVIOUS
    <3> QED
      BY <3>1
  <2> HIDE DEF T
  <2> QED
    BY <2>1
<1>3. PICK f : Recurs(f, T, Root, g)
  <2>1. Root \in T
    OBVIOUS
  <2> HIDE DEF g, T, W
  <2> QED
    BY <1>2, <2>1, Recursion
<1>4. \A i \in Nat : i # 0 => g[<<f[i - 1], i>>] = StepTo(f[i - 1], p[i])
  <2> SUFFICES ASSUME NEW i \in Nat, i # 0
               PROVE  g[<<f[i - 1], i>>] = StepTo(f[i - 1], p[i])
    OBVIOUS
  <2>1. i - 1 \in Nat
    OBVIOUS
  <2>2. <<f[i - 1], i>> \in T \X Nat
    BY <1>3, <2>1 DEF Recurs
  <2> QED
    BY <2>2
<1>5. f = [i \in Nat |-> IF i = 0 THEN Root ELSE StepTo(f[i - 1], p[i])]
  <2>1. \A i \in Nat : f[i] = IF i = 0 THEN Root ELSE StepTo(f[i - 1], p[i])
    BY <1>3, <1>4 DEF Recurs
  <2> QED
    BY <1>3, <2>1 DEF Recurs
<1>6. W = [i \in Nat |-> IF i = 0 THEN Root ELSE StepTo(W[i - 1], p[i])]
  BY <1>5, Zenon DEF StepTo
<1> HIDE DEF W
<1>7. /\ W[0] = Root
      /\ \A i \in Nat \ {0} : W[i] = StepTo(W[i - 1], p[i])
  BY <1>6
<1>8. W \in [Nat -> T]
  <2> DEFINE Bad == {i \in Nat : W[i] \notin T}
  <2>1. ASSUME Bad # {} PROVE FALSE
    <3>1. PICK k \in Bad : \A j \in Bad : k <= j
      <4>1. Bad \in SUBSET Nat
        OBVIOUS
      <4> HIDE DEF Bad
      <4> QED
        BY <2>1, <4>1, Least
    <3>2. k \in Nat /\ W[k] \notin T
      BY <3>1
    <3>3. k # 0
      BY <1>7, <3>2
    <3>4. k - 1 \in Nat /\ ~(k <= k - 1)
      BY <3>2, <3>3
    <3>5. W[k - 1] \in T
      BY <3>1, <3>4
    <3>6. W[k] = StepTo(W[k - 1], p[k])
      BY <1>7, <3>2, <3>3
    <3> QED
      BY <3>2, <3>5, <3>6
  <2>2. \A i \in Nat : W[i] \in T
    BY <2>1
  <2> HIDE DEF T
  <2> QED
    BY <1>6, <2>2
<1>9. IsWalk(W, p, S)
  BY <1>1, <1>7, <1>8 DEF IsWalk
<1> QED BY <1>9

\* vfs_find_child returns the first child of that name, of a directory.
FirstNamed(d, nm, i) ==
    /\ i \in 1 .. Len(children[d])
    /\ Find(d, nm) = children[d][i]
    /\ name[children[d][i]] = nm
    /\ \A j \in 1 .. Len(children[d]) : name[children[d][j]] = nm => i <= j

LEMMA FindIs ==
    ASSUME Linked, NEW d \in Nodes, NEW nm
    PROVE  \/ /\ Find(d, nm) = Null
              /\ \/ type[d] # "dir"
                 \/ \A i \in 1 .. Len(children[d]) : name[children[d][i]] # nm
           \/ /\ type[d] = "dir"
              /\ \E i \in 1 .. Len(children[d]) : FirstNamed(d, nm, i)
<1> DEFINE hits == {i \in 1 .. Len(children[d]) : name[children[d][i]] = nm}
<1>1. CASE type[d] # "dir" \/ hits = {}
  BY <1>1 DEF Find
<1>2. CASE ~(type[d] # "dir" \/ hits = {})
  <2>1. \E i \in hits : \A j \in hits : i <= j
    <3>1. hits \in SUBSET Nat
      BY DEF Linked
    <3> HIDE DEF hits
    <3> QED
      BY <1>2, <3>1, Least
  <2> DEFINE k == CHOOSE i \in hits : \A j \in hits : i <= j
  <2>2. k \in hits /\ \A j \in hits : k <= j
    BY <2>1
  <2>3. Find(d, nm) = children[d][k]
    BY <1>2 DEF Find
  <2> HIDE DEF k
  <2>4. FirstNamed(d, nm, k)
    BY <2>2, <2>3 DEF FirstNamed
  <2> QED
    BY <1>2, <2>2, <2>4
<1> QED
  BY <1>1, <1>2

LEMMA StepsInTree ==
    ASSUME Linked, Tree, NEW c \in Under(Root) \cup {Null}, NEW nm
    PROVE  StepTo(c, nm) \in Under(Root) \cup {Null}
<1>1. Under(Root) \subseteq Nodes /\ \A m \in Nodes : m \in Under(Root) <=> UnderStep(Root, m)
  BY RootCreated, UnderIs
<1>2. CASE c = Null \/ nm = Empty
  BY <1>2, NamesAssumption DEF StepTo
<1>3. CASE ~(c = Null \/ nm = Empty) /\ nm = DotDot
  <2>1. CASE parent[c] = Null
    BY <1>3, <2>1 DEF StepTo
  <2>2. CASE parent[c] # Null
    <3>1. c # Root
      BY <2>2 DEF Tree, ParentOlder
    <3>2. parent[c] \in Under(Root)
      BY <1>1, <1>3, <3>1 DEF UnderStep
    <3> QED
      BY <1>3, <2>2, <3>2 DEF StepTo
  <2> QED
    BY <2>1, <2>2
<1>4. CASE ~(c = Null \/ nm = Empty) /\ nm # DotDot
  <2>1. StepTo(c, nm) = Find(c, nm)
    BY <1>4 DEF StepTo
  <2>2. c \in Under(Root) /\ c \in Nodes
    BY <1>1, <1>4
  <2>3. CASE Find(c, nm) = Null
    BY <2>1, <2>3
  <2>4. CASE Find(c, nm) # Null
    <3>1. PICK i \in 1 .. Len(children[c]) : FirstNamed(c, nm, i)
      BY <2>2, <2>4, FindIs
    <3>2. children[c][i] \in Under(Root)
      BY <2>2, Down, RootCreated DEF DownFacts
    <3> QED
      BY <2>1, <3>1, <3>2 DEF FirstNamed
  <2> QED
    BY <2>3, <2>4
<1> QED
  BY <1>2, <1>3, <1>4

LEMMA LookupInTree ==
    ASSUME Linked, Tree, NEW p \in Seq(Names)
    PROVE  Lookup(p) \in Under(Root) \cup {Null}
<1>1. Under(Root) \in SUBSET Nodes
  BY RootCreated, UnderIs
<1>2. Root \in Under(Root)
  BY RootCreated, Down DEF DownFacts
<1>3. \A nm : \A c \in Under(Root) \cup {Null} : StepTo(c, nm) \in Under(Root) \cup {Null}
  BY StepsInTree
<1>4. PICK w : IsWalk(w, p, Under(Root))
  BY <1>1, <1>2, <1>3, WalkExists
<1>5. Len(p) \in Nat
  OBVIOUS
<1> QED
  BY <1>4, <1>5 DEF IsWalk

LEMMA ParentInTree ==
    ASSUME Linked, Tree, NEW p \in Seq(Names), p # <<>>
    PROVE  ParentOf(p) \in Under(Root) \cup {Null}
<1>1. Root \in Under(Root)
  BY RootCreated, Down DEF DownFacts
<1>2. SubSeq(p, 1, Len(p) - 1) \in Seq(Names)
  OBVIOUS
<1>3. Lookup(SubSeq(p, 1, Len(p) - 1)) \in Under(Root) \cup {Null}
  BY <1>2, LookupInTree
<1> QED
  BY <1>1, <1>3 DEF ParentOf

-----------------------------------------------------------------------------
(* Nothing in the tree is freed.                                           *)

\* What is listed after a node was created: it, and what was listed before.
Added(n, d) ==
    /\ n \in Nodes /\ n \notin Created /\ n > Root /\ d # n
    /\ children'[n] = <<>> /\ children'[d] = <<n>> \o children[d]
    /\ \A e \in Nodes : e # n /\ e # d => children'[e] = children[e]
    /\ parent'[n] = d /\ Listed(n)'
    /\ \A m \in Nodes : m # n => parent'[m] = parent[m] /\ (Listed(m)' <=> Listed(m))

LEMMA AddLists ==
    ASSUME TypeOK, Tree, Room, NEW nm \in Names, NEW ty \in Types,
           NEW d \in Created, NEW tgt \in Blocks \cup {Null},
           AddNode(nm, ty, d, tgt)
    PROVE  Linked /\ Linked' /\ Tree' /\ \E n : n = pool_idx + 1 /\ Added(n, d)
<1> SUFFICES ASSUME NEW n, n = pool_idx + 1
             PROVE  Linked /\ Linked' /\ Tree' /\ Added(n, d)
  OBVIOUS
<1>0. Linked
  BY DEF TypeOK, Linked
<1>1. /\ Root \in Created /\ Root \in Nodes /\ Created \subseteq Nodes /\ Nodes \subseteq Nat
      /\ n \in Nodes /\ n \notin Created /\ n > Root
  <2>1. Root \in Created /\ Root \in Nodes /\ Created \subseteq Nodes /\ Nodes \subseteq Nat
    BY <1>0, RootCreated
  <2> QED
    BY <1>0, <2>1, PoolAssumption DEF Linked, Created, Nodes, Room, Root
<1>2. d \in Created /\ d # n /\ d \in Nodes
  BY <1>1
<1>3. Linked' /\ Tree'
  BY <1>2, AddKeeps DEF Linked
<1>4. /\ parent' = [parent EXCEPT ![n] = d]
      /\ children' = [children EXCEPT ![n] = <<>>, ![d] = <<n>> \o @]
  BY DEF AddNode
<1>5. /\ children'[n] = <<>> /\ children'[d] = <<n>> \o children[d]
      /\ \A e \in Nodes : e # n /\ e # d => children'[e] = children[e]
  BY <1>1, <1>2, <1>4 DEF TypeOK
<1>6. /\ Len(children'[d]) = Len(children[d]) + 1 /\ Len(children[d]) \in Nat
      /\ \A i \in 1 .. Len(children[d]) + 1 :
           children'[d][i] = IF i = 1 THEN n ELSE children[d][i - 1]
  <2>1. children[d] \in Seq(Nodes) /\ <<n>> \in Seq(Nodes)
    BY <1>1, <1>2 DEF TypeOK
  <2> QED
    BY <1>5, <2>1
<1>7. parent'[n] = d /\ Listed(n)'
  <2>1. parent'[n] = d
    BY <1>1, <1>4 DEF TypeOK
  <2>2. 1 \in 1 .. Len(children'[d]) /\ children'[d][1] = n
    BY <1>6
  <2>3. d # Null
    BY <1>1, <1>2, NullAssumption
  <2> QED
    BY <2>1, <2>2, <2>3 DEF Listed
<1>8. ASSUME NEW m \in Nodes, m # n
      PROVE  parent'[m] = parent[m] /\ (Listed(m)' <=> Listed(m))
  <2>1. parent'[m] = parent[m]
    BY <1>1, <1>4, <1>8 DEF TypeOK
  <2>2. CASE parent[m] = Null
    BY <2>1, <2>2 DEF Listed
  <2>3. CASE parent[m] = n
    <3>1. ~Listed(m)'
      BY <1>5, <2>1, <2>3 DEF Listed
    <3>2. ~Listed(m)
      <4>1. Listed(m) => parent[m] < m /\ m \in Created
        BY <1>0, <1>8, Walks DEF ListedFacts
      <4> QED
        BY <1>1, <2>3, <4>1, PoolAssumption DEF Created, Nodes, TypeOK
    <3> QED
      BY <2>1, <3>1, <3>2
  <2>4. CASE parent[m] = d
    <3>1. Listed(m) => Listed(m)'
      <4> SUFFICES ASSUME Listed(m) PROVE Listed(m)'
        OBVIOUS
      <4>1. PICK i \in 1 .. Len(children[d]) : children[d][i] = m
        BY <2>4 DEF Listed
      <4>2. i + 1 \in 1 .. Len(children'[d]) /\ children'[d][i + 1] = m
        BY <1>6, <4>1
      <4> QED
        BY <2>1, <2>4, <4>2 DEF Listed
    <3>2. Listed(m)' => Listed(m)
      <4> SUFFICES ASSUME Listed(m)' PROVE Listed(m)
        OBVIOUS
      <4>1. PICK i \in 1 .. Len(children'[d]) : children'[d][i] = m
        BY <2>1, <2>4 DEF Listed
      <4>2. i # 1
        BY <1>6, <1>8, <4>1
      <4>3. i - 1 \in 1 .. Len(children[d]) /\ children[d][i - 1] = m
        BY <1>6, <4>1, <4>2
      <4> QED
        BY <2>1, <2>4, <4>3 DEF Listed
    <3> QED
      BY <2>1, <3>1, <3>2
  <2>5. CASE parent[m] # Null /\ parent[m] # n /\ parent[m] # d
    <3>1. parent[m] \in Nodes
      BY <2>5 DEF TypeOK
    <3> QED
      BY <1>5, <2>1, <2>5, <3>1 DEF Listed
  <2> QED
    BY <2>2, <2>3, <2>4, <2>5
<1> QED
  BY <1>0, <1>1, <1>2, <1>3, <1>5, <1>7, <1>8 DEF Added

\* A node created in a node of the tree is the one node the tree gains.
LEMMA AddReaches ==
    ASSUME TypeOK, Tree, Room, NEW nm \in Names, NEW ty \in Types,
           NEW d \in Under(Root), NEW tgt \in Blocks \cup {Null},
           NEW n, n = pool_idx + 1,
           AddNode(nm, ty, d, tgt)
    PROVE  /\ Linked'
           /\ Under(Root)' = Under(Root) \cup {n}
           /\ n \in Nodes /\ n \notin Under(Root)
           /\ \A i \in 1 .. Len(children[d]') : children[d]'[i] \in Under(Root)'
<1> DEFINE U == Under(Root)
<1>1. /\ Root \in Created /\ Root \in Nodes /\ Created \subseteq Nodes /\ Nodes \subseteq Nat
      /\ Linked
  BY RootCreated DEF TypeOK, Linked
<1>2. U \subseteq Created /\ Root \in U /\ d \in Created /\ U \subseteq Nodes
  BY <1>1, Walks DEF DownFacts
<1>3. /\ Linked' /\ Tree' /\ n \in Nodes /\ n \notin Created /\ n > Root
      /\ children'[n] = <<>> /\ parent'[n] = d /\ Listed(n)'
      /\ \A m \in Nodes : m # n => parent'[m] = parent[m] /\ (Listed(m)' <=> Listed(m))
  <2>1. Linked' /\ Tree' /\ \E m : m = pool_idx + 1 /\ Added(m, d)
    BY <1>2, AddLists
  <2> QED
    BY <2>1 DEF Added
<1>4. /\ UnderFacts /\ UnderLeastFacts /\ UnderFacts' /\ UnderLeastFacts' /\ DownFacts'
  BY <1>1, <1>3, Walks, WalksNext DEF WalksClaim
<1>5. /\ \A m \in Nodes : m \in U <=> UnderStep(Root, m)
      /\ \A m \in Nodes : m \in U' <=> m = Root \/ (m > Root /\ Listed(m)' /\ parent'[m] \in U')
      /\ U' \subseteq Nodes
  BY <1>1, <1>4 DEF UnderFacts, UnderStep, Nodes, Root
<1>6. U \subseteq U'
  <2>1. Root \in U'
    BY <1>1, <1>5
  <2>2. ASSUME NEW m \in U \ {Root}, m > Root, Listed(m), parent[m] \in U \cap U'
        PROVE  m \in U'
    <3>1. m \in Nodes /\ m # n
      BY <1>2, <1>3
    <3>2. parent'[m] = parent[m] /\ Listed(m)'
      BY <1>3, <2>2, <3>1
    <3> QED
      BY <1>5, <2>2, <3>1, <3>2
  <2>3. U' \in SUBSET Nodes
    BY <1>5
  <2> HIDE DEF U
  <2> DEFINE V == U'
  <2>4. /\ V \in SUBSET Nodes /\ Root \in V
        /\ \A m \in U \ {Root} : m > Root /\ Listed(m) /\ parent[m] \in U \cap V => m \in V
    BY <2>1, <2>2, <2>3
  <2> HIDE DEF V
  <2>5. U \subseteq V
    BY <1>1, <1>4, <2>4 DEF UnderLeastFacts, U
  <2> QED
    BY <2>5 DEF V
<1>7. n \in U'
  <2>1. d \in U'
    BY <1>6
  <2> QED
    BY <1>1, <1>3, <1>5, <2>1
<1>8. U' \subseteq U \cup {n}
  <2> DEFINE V == U \cup {n}
  <2>1. V \in SUBSET Nodes /\ Root \in V
    BY <1>1, <1>2, <1>3
  <2>2. ASSUME NEW m \in U' \ {Root}, m > Root, Listed(m)', parent'[m] \in U' \cap V
        PROVE  m \in V
    <3>1. m \in Nodes
      BY <1>5
    <3>2. CASE m = n
      BY <3>2
    <3>3. CASE m # n
      <4>1. parent'[m] = parent[m] /\ Listed(m)
        BY <1>3, <2>2, <3>1, <3>3
      <4>2. parent[m] # n
        BY <1>3, <2>2, <4>1 DEF Listed
      <4>3. parent[m] \in U
        BY <2>2, <4>1, <4>2
      <4> QED
        BY <1>5, <2>2, <3>1, <4>1, <4>3 DEF UnderStep
    <3> QED
      BY <3>2, <3>3
  <2> HIDE DEF V
  <2>3. \A S \in SUBSET Nodes :
          /\ Root \in S
          /\ \A m \in U' \ {Root} : m > Root /\ Listed(m)' /\ parent'[m] \in U' \cap S => m \in S
          => U' \subseteq S
    BY <1>1, <1>4 DEF UnderLeastFacts, Root, Nodes
  <2>4. U' \subseteq V
    BY <2>1, <2>2, <2>3
  <2> QED
    BY <2>4 DEF V
<1>9. \A i \in 1 .. Len(children'[d]) : children'[d][i] \in U'
  <2>1. d \in U' /\ Root \in Created'
    BY <1>1, <1>6, <1>3 DEF Linked, Created, Nodes, Root
  <2> QED
    BY <1>4, <2>1 DEF DownFacts, Root
<1> QED
  BY <1>1, <1>2, <1>3, <1>6, <1>7, <1>8, <1>9

\* What is listed after a node was removed: what was listed before, without it.
LEMMA RemoveLists ==
    ASSUME TypeOK, Tree, NEW d \in Created, NEW i \in 1 .. Len(children[d]),
           NEW t, t = children[d][i], Remove(d, i)
    PROVE  /\ Linked /\ Linked' /\ Tree' /\ parent' = parent
           /\ t \in Created /\ parent[t] = d
           /\ \A m \in Nodes : Listed(m)' <=> Listed(m) /\ m # t
<1>1. /\ Linked /\ Created \subseteq Nodes /\ Nodes \subseteq Nat
      /\ d \in Nodes /\ children[d] \in Seq(Nodes)
  BY RootCreated DEF TypeOK, Linked
<1>2. Linked' /\ Tree' /\ parent' = parent
  BY RemoveKeeps DEF Linked, TypeOK, Remove
<1>3. t \in Created /\ parent[t] = d
  BY <1>1 DEF Tree, ListsAgree
<1>4. children' = [children EXCEPT ![d] = Without(children[d], i)]
  BY DEF Remove, Unlink
<1>5. /\ Len(Without(children[d], i)) = Len(children[d]) - 1
      /\ \A j \in 1 .. Len(children[d]) - 1 :
           Without(children[d], i)[j]
             = IF j < i THEN children[d][j] ELSE children[d][j + 1]
  BY <1>1, WithoutKeeps
<1>6. children'[d] = Without(children[d], i) /\ \A e \in Nodes : e # d => children'[e] = children[e]
  BY <1>1, <1>4 DEF Linked
<1>7. Len(children[d]) \in Nat
  BY <1>1
<1>8. ASSUME NEW m \in Nodes, parent[m] \in Nodes \ {d}
      PROVE  Listed(m)' <=> Listed(m) /\ m # t
  BY <1>2, <1>3, <1>6, <1>8 DEF Listed
<1>9. ASSUME NEW m \in Nodes, parent[m] = d
      PROVE  Listed(m)' <=> Listed(m) /\ m # t
  <2>1. ASSUME Listed(m)' PROVE Listed(m) /\ m # t
    <3>1. PICK j \in 1 .. Len(children'[d]) : children'[d][j] = m
      BY <1>2, <1>9, <2>1 DEF Listed
    <3>2. j \in 1 .. Len(children[d]) - 1
      BY <1>5, <1>6, <3>1
    <3> DEFINE k == IF j < i THEN j ELSE j + 1
    <3>3. k \in 1 .. Len(children[d]) /\ k # i
      BY <1>7, <3>2
    <3>4. m = children[d][k]
      <4>1. m = IF j < i THEN children[d][j] ELSE children[d][j + 1]
        BY <1>5, <1>6, <3>1, <3>2
      <4> QED
        BY <4>1
    <3> HIDE DEF k
    <3>5. m # t
      BY <1>1, <3>3, <3>4 DEF Tree, ListsAgree
    <3>6. parent[m] # Null
      BY <1>1, <1>9, NullAssumption
    <3> QED
      BY <1>9, <3>3, <3>4, <3>5, <3>6 DEF Listed
  <2>2. ASSUME Listed(m), m # t PROVE Listed(m)'
    <3>1. PICK k \in 1 .. Len(children[d]) : children[d][k] = m
      BY <1>9, <2>2 DEF Listed
    <3> DEFINE j == IF k < i THEN k ELSE k - 1
    <3>2. k # i
      BY <2>2, <3>1
    <3>3. /\ j \in 1 .. Len(children[d]) - 1
          /\ (IF j < i THEN children[d][j] ELSE children[d][j + 1]) = children[d][k]
      <4>1. CASE k < i
        BY <1>7, <4>1
      <4>2. CASE k > i
        <5>1. j = k - 1 /\ ~(j < i) /\ j + 1 = k
          BY <1>7, <4>2
        <5> QED
          BY <1>7, <4>2, <5>1
      <4> QED
        BY <1>7, <3>2, <4>1, <4>2
    <3> HIDE DEF j
    <3>4. j \in 1 .. Len(children'[d]) /\ children'[d][j] = m
      BY <1>5, <1>6, <3>1, <3>3
    <3>5. parent'[m] = d /\ d # Null
      BY <1>1, <1>2, <1>9, NullAssumption
    <3> QED
      BY <3>4, <3>5 DEF Listed
  <2> QED
    BY <2>1, <2>2
<1>10. ASSUME NEW m \in Nodes, parent[m] = Null
       PROVE  Listed(m)' <=> Listed(m) /\ m # t
  BY <1>2, <1>10 DEF Listed
<1>11. \A m \in Nodes : parent[m] \in Nodes \cup {Null}
  BY <1>1 DEF Linked
<1> QED
  BY <1>1, <1>2, <1>3, <1>8, <1>9, <1>10, <1>11

\* Removing a node of the tree takes out of it what rm sweeps, at least.
LEMMA RemoveReaches ==
    ASSUME TypeOK, Tree, NEW d \in Under(Root), NEW i \in 1 .. Len(children[d]),
           NEW t, t = children[d][i], Remove(d, i)
    PROVE  /\ Linked'
           /\ t \in Under(Root) /\ Swept(t) \subseteq Under(Root) /\ t \in Swept(t)
           /\ Under(Root)' \subseteq Under(Root) \ Swept(t)
<1> DEFINE U == Under(Root)
           W == Swept(t)
<1>0. Linked
  BY DEF TypeOK, Linked
<1>1. /\ Root \in Created /\ Root \in Nodes /\ Created \subseteq Nodes /\ Nodes \subseteq Nat
  BY <1>0, RootCreated
<1>2. U \subseteq Created /\ Root \in U /\ d \in Created /\ U \subseteq Nodes
  BY <1>0, <1>1, Walks DEF DownFacts
<1>3. Linked' /\ Tree' /\ parent' = parent
  BY <1>2, RemoveKeeps DEF Linked, TypeOK
<1>4. t \in U /\ t > d
  BY <1>0, <1>1, Walks DEF DownFacts
<1>5. t \in Nodes /\ t > Root /\ parent[t] = d /\ t # Root
  BY <1>1, <1>2, <1>4 DEF Tree, ListsAgree, Root, Nodes
<1>6. W \subseteq Under(t) /\ t \in W /\ \A m \in W \ {t} : m > t /\ parent[m] \in W
  BY <1>0, <1>5, SweptUnder DEF SweptFacts
<1>7. UnderFacts /\ UnderLeastFacts /\ UnderFacts' /\ UnderLeastFacts'
  BY <1>0, <1>3, Walks, WalksNext DEF WalksClaim
<1>8. /\ \A m \in Nodes : m \in U <=> UnderStep(Root, m)
      /\ \A m \in Nodes : m \in U' <=> m = Root \/ (m > Root /\ Listed(m)' /\ parent'[m] \in U')
      /\ U' \subseteq Nodes
  BY <1>1, <1>7 DEF UnderFacts, UnderStep, Nodes, Root
<1>9. Under(t) \subseteq U
  <2>1. U \in SUBSET Nodes
    BY <1>2
  <2>2. ASSUME NEW m \in Under(t) \ {t}, m > t, Listed(m), parent[m] \in Under(t) \cap U
        PROVE  m \in U
    <3>1. m \in Nodes
      BY <1>5, <1>7 DEF UnderFacts
    <3>2. m > Root
      BY <1>1, <1>5, <2>2, <3>1
    <3> QED
      BY <1>8, <2>2, <3>1, <3>2 DEF UnderStep
  <2> HIDE DEF U
  <2> QED
    BY <1>4, <1>5, <1>7, <2>1, <2>2 DEF UnderLeastFacts
<1>10. \A m \in W : m # Root
  <2>1. W \subseteq Nodes
    BY <1>2, <1>6, <1>9
  <2> QED
    BY <1>1, <1>5, <1>6, <2>1
<1>11. \A m \in Nodes : Listed(m)' => Listed(m) /\ m # t
  BY <1>2, RemoveLists
<1>12. U' \subseteq U \ W
  <2> DEFINE V == U \ W
  <2>1. V \in SUBSET Nodes /\ Root \in V
    BY <1>1, <1>2, <1>10
  <2>2. ASSUME NEW m \in U' \ {Root}, m > Root, Listed(m)', parent'[m] \in U' \cap V
        PROVE  m \in V
    <3>1. m \in Nodes
      BY <1>8
    <3>2. Listed(m) /\ m # t /\ parent'[m] = parent[m]
      BY <1>3, <1>11, <2>2, <3>1
    <3>3. m \in U
      BY <1>8, <2>2, <3>1, <3>2 DEF UnderStep
    <3>4. m \notin W
      BY <1>6, <2>2, <3>2
    <3> QED
      BY <3>3, <3>4
  <2> HIDE DEF V
  <2>3. \A S \in SUBSET Nodes :
          /\ Root \in S
          /\ \A m \in U' \ {Root} : m > Root /\ Listed(m)' /\ parent'[m] \in U' \cap S => m \in S
          => U' \subseteq S
    BY <1>1, <1>7 DEF UnderLeastFacts, Root, Nodes
  <2>4. U' \subseteq V
    BY <2>1, <2>2, <2>3
  <2> QED
    BY <2>4 DEF V
<1> QED
  BY <1>3, <1>4, <1>6, <1>9, <1>12

\* What a copy has left to do stays in the tree, and only a copy has anything to do.
TodoInTree ==
    /\ phase # "copy" => todo = <<>>
    /\ \A i \in 1 .. Len(todo) : todo[i].src \in Under(Root) /\ todo[i].dst \in Under(Root)

\* A move knows the path of its source.
SourceKnown ==
    /\ {"op", "src", "from", "first", "failed", "inside", "want", "had"} \subseteq DOMAIN job
    /\ job.op = "mv" => job.from \in Paths

TreeInv == Inv /\ NothingFreed /\ TodoInTree /\ SourceKnown

LEMMA InitTree == Init => TreeInv
<1> SUFFICES ASSUME Init PROVE TreeInv
  OBVIOUS
<1>1. Inv /\ Linked
  BY InitInv DEF Inv, TypeOK, Linked
<1>2. Under(Root) \subseteq Created
  BY <1>1, RootCreated, Walks DEF DownFacts, Inv
<1>3. NothingFreed
  BY <1>2, PoolAssumption DEF Init, NothingFreed, Created, Nodes
<1>4. TodoInTree
  BY DEF Init, TodoInTree
<1>5. SourceKnown
  BY DEF Init, SourceKnown, NoJob
<1> QED
  BY <1>1, <1>3, <1>4, <1>5 DEF TreeInv

\* A new node is no removed one, and its block, if it has one, was free.
LEMMA AddFreesNothing ==
    ASSUME TypeOK, Tree, NothingFreed, Room,
           NEW nm \in Names, NEW ty \in Types \ {"gone"},
           NEW d \in Under(Root), NEW tgt \in (Blocks \ used) \cup {Null},
           AddNode(nm, ty, d, tgt), used' = used \cup ({tgt} \ {Null})
    PROVE  /\ Under(Root) \subseteq Under(Root)'
           /\ NothingFreed'
<1> DEFINE n == pool_idx + 1
           U == Under(Root)
<1>1. U' = U \cup {n} /\ n \in Nodes /\ n \notin U
  BY AddReaches
<1>2. U \subseteq Nodes
  BY RootCreated, UnderIs DEF TypeOK, Linked
<1>3. /\ type'[n] = ty /\ target'[n] = tgt
      /\ \A m \in U : type'[m] = type[m] /\ target'[m] = target[m]
  BY <1>1, <1>2 DEF AddNode, TypeOK
<1>4. \A m \in U : target[m] # Null =>
        target[m] \in used /\ \A k \in U \ {m} : target[k] # target[m]
  BY DEF NothingFreed
<1>5. \A m \in U' : type'[m] # "gone"
  BY <1>1, <1>3 DEF NothingFreed
<1>6. ASSUME NEW m \in U', target'[m] # Null
      PROVE  target'[m] \in used' /\ \A k \in U' \ {m} : target'[k] # target'[m]
  <2>1. CASE m = n
    <3>1. tgt \in Blocks \ used
      BY <1>3, <1>6, <2>1
    <3> QED
      BY <1>1, <1>3, <1>4, <1>6, <2>1, <3>1
  <2>2. CASE m # n
    <3>1. m \in U /\ target'[m] = target[m] /\ target[m] # Null
      BY <1>1, <1>3, <1>6, <2>2
    <3>2. target[m] \in used /\ target[m] # tgt
      BY <1>4, <3>1
    <3> QED
      BY <1>1, <1>3, <1>4, <3>1, <3>2
  <2> QED
    BY <2>1, <2>2
<1> QED
  BY <1>1, <1>5, <1>6 DEF NothingFreed

\* What a removal releases, no node of the tree has.
LEMMA RemoveFreesNothing ==
    ASSUME TypeOK, Tree, NothingFreed,
           NEW d \in Under(Root), NEW i \in 1 .. Len(children[d]), Remove(d, i)
    PROVE  NothingFreed'
<1> DEFINE U == Under(Root)
           t == children[d][i]
           W == Swept(t)
<1>1. t \in U /\ W \subseteq U /\ t \in W /\ U' \subseteq U \ W
  BY RemoveReaches
<1>2. target' = target /\ used' = used \ ({target[m] : m \in W} \ {Null})
  BY DEF Remove, Freed
<1>3. \A m \in U' : type'[m] = type[m]
  <2>1. U \subseteq Nodes
    BY RootCreated, UnderIs DEF TypeOK, Linked
  <2> QED
    BY <1>1, <2>1 DEF Remove, TypeOK
<1>4. \A m \in U : target[m] # Null =>
        target[m] \in used /\ \A k \in U \ {m} : target[k] # target[m]
  BY DEF NothingFreed
<1> HIDE DEF W
<1>5. \A m \in U' : type'[m] # "gone"
  BY <1>1, <1>3 DEF NothingFreed
<1>6. ASSUME NEW m \in U', target'[m] # Null
      PROVE  target'[m] \in used' /\ \A k \in U' \ {m} : target'[k] # target'[m]
  BY <1>1, <1>2, <1>4, <1>6
<1> QED
  BY <1>5, <1>6 DEF NothingFreed

\* Every change of the tree is one of these, made in the tree.
AddInTree ==
    \E d \in Under(Root), nm \in Names, ty \in Types \ {"gone"},
       tgt \in (Blocks \ used) \cup {Null} :
      Room /\ AddNode(nm, ty, d, tgt) /\ used' = used \cup ({tgt} \ {Null})

RemoveInTree == \E d \in Under(Root) : \E i \in 1 .. Len(children[d]) : Remove(d, i)

LEMMA CommandChanges ==
    ASSUME TreeInv,
           \/ \E p \in MakePaths : Mkdir(p)
           \/ \E p \in TouchPaths : Touch(p)
           \/ \E p \in CdPaths : Cd(p)
           \/ \E p \in Paths, recursive \in BOOLEAN : Rm(p, recursive)
           \/ \E t \in Paths, l \in LinkPaths : LnS(t, l)
           \/ CdUp \/ CdBack \/ CdHome
    PROVE  /\ phase = "idle" /\ UNCHANGED copying
           /\ AddInTree \/ RemoveInTree \/ UNCHANGED <<tree, used>>
<1>0. TypeOK /\ Tree /\ Linked
  BY DEF TreeInv, Inv, TypeOK, Linked
<1>1. Under(Root) \subseteq Nodes
  BY <1>0, RootCreated, UnderIs
<1>2. \A p \in MakePaths \cup TouchPaths \cup LinkPaths \cup Paths \cup CdPaths :
        /\ p \in Seq(Names) /\ p # <<>> /\ Last(p) \in Names
        /\ \A d \in Created : d = ParentOf(p) \/ d = Lookup(p) => d \in Under(Root)
  <2> SUFFICES ASSUME NEW p \in MakePaths \cup TouchPaths \cup LinkPaths \cup Paths \cup CdPaths
               PROVE  /\ p \in Seq(Names) /\ p # <<>> /\ Last(p) \in Names
                      /\ \A d \in Created : d = ParentOf(p) \/ d = Lookup(p) => d \in Under(Root)
    OBVIOUS
  <2>1. p \in Seq(Names) /\ p # <<>> /\ Last(p) \in Names
    BY NamesAssumption, LastIsName
  <2>2. Null \notin Created
    BY <1>0, RootCreated, NullAssumption
  <2> QED
    BY <1>0, <2>1, <2>2, LookupInTree, ParentInTree
<1>3. ASSUME NEW p \in MakePaths \cup TouchPaths, Mkdir(p) \/ Touch(p)
      PROVE  AddInTree /\ phase = "idle" /\ UNCHANGED copying
  <2>1. PICK d \in Created, ty \in {"dir", "file"} :
          d = ParentOf(p) /\ Room /\ AddNode(Last(p), ty, d, Null)
    BY <1>3 DEF Mkdir, Touch
  <2>2. d \in Under(Root) /\ Last(p) \in Names
    BY <1>2, <2>1
  <2>3. ty \in Types \ {"gone"}
    BY DEF Types
  <2>4. used' = used \cup ({Null} \ {Null}) /\ phase = "idle" /\ UNCHANGED copying
    BY <1>3 DEF Mkdir, Touch
  <2> QED
    BY <2>1, <2>2, <2>3, <2>4 DEF AddInTree
<1>4. ASSUME NEW p \in Paths, NEW r \in BOOLEAN, Rm(p, r)
      PROVE  RemoveInTree /\ phase = "idle" /\ UNCHANGED copying
  <2>1. PICK d \in Created : \E i \in 1 .. Len(children[d]) : Found(p, d, i) /\ Remove(d, i)
    BY <1>4 DEF Rm
  <2>2. d \in Under(Root)
    BY <1>2, <2>1 DEF Found
  <2> QED
    BY <1>4, <2>1, <2>2 DEF Rm, RemoveInTree
<1>5. ASSUME NEW t \in Paths, NEW l \in LinkPaths, LnS(t, l)
      PROVE  AddInTree /\ phase = "idle" /\ UNCHANGED copying
  <2>1. PICK x \in Created, d \in Created, b \in (Blocks \ used) \cup {Null} :
          /\ IF IsDir(Lookup(l))
             THEN d = Lookup(l) /\ AddNode(name[x], "link", d, b)
             ELSE d = ParentOf(l) /\ AddNode(Last(l), "link", d, b)
          /\ used' = used \cup ({b} \ {Null})
    BY <1>5 DEF LnS
  <2>2. d \in Under(Root) /\ Last(l) \in Names
    BY <1>2, <2>1
  <2>3. name[x] \in Names
    BY <1>0, RootCreated DEF TypeOK
  <2>4. PICK nm \in Names : AddNode(nm, "link", d, b)
    BY <2>1, <2>2, <2>3
  <2>5. "link" \in Types \ {"gone"} /\ Room /\ phase = "idle" /\ UNCHANGED copying
    BY <1>5 DEF LnS, Types
  <2> QED
    BY <2>1, <2>2, <2>4, <2>5 DEF AddInTree
<1>6. ASSUME (\E p \in CdPaths : Cd(p)) \/ CdUp \/ CdBack \/ CdHome
      PROVE  phase = "idle" /\ UNCHANGED <<tree, used, copying>>
  BY <1>6 DEF Cd, CdUp, CdBack, CdHome
<1> QED
  BY <1>3, <1>4, <1>5, <1>6

LEMMA CopyChanges ==
    ASSUME TreeInv, Copying
    PROVE  AddInTree \/ RemoveInTree \/ UNCHANGED <<tree, used>>
<1>0. TypeOK /\ Tree /\ Linked
  BY DEF TreeInv, Inv, TypeOK, Linked
<1>1. CASE CopyNode
  <2> DEFINE it == Head(todo)
  <2>1. /\ Room /\ AddNode(it.name, type[it.src], it.dst, Null) /\ todo # <<>> /\ used' = used
    BY <1>1 DEF CopyNode, LinkCopy
  <2>2. todo \in Seq(Items) /\ it = todo[1] /\ it \in Items /\ 1 \in 1 .. Len(todo)
    BY <1>0, <2>1 DEF TypeOK
  <2>3. it.src \in Under(Root) /\ it.dst \in Under(Root)
    BY <2>2 DEF TreeInv, TodoInTree
  <2>4. type[it.src] \in Types \ {"gone"} /\ it.name \in Names
    BY <1>0, <2>2, <2>3 DEF TreeInv, NothingFreed, Items, TypeOK
  <2>5. used' = used \cup ({Null} \ {Null})
    BY <2>1
  <2> QED
    BY <2>1, <2>3, <2>4, <2>5 DEF AddInTree
<1>2. CASE Return
  <2>1. CASE UNCHANGED <<tree, used>>
    BY <2>1
  <2>2. CASE ~UNCHANGED <<tree, used>>
    <3>1. PICK d \in Created : \E i \in 1 .. Len(children[d]) : Found(job.from, d, i) /\ Remove(d, i)
      BY <1>2, <2>2 DEF Return, RemoveSource
    <3>2. d \in Under(Root)
      <4>1. d = ParentOf(job.from)
        BY <3>1 DEF Found
      <4>2. job.from \in Seq(Names) /\ job.from # <<>>
        BY <1>2, <2>2, NamesAssumption DEF Return, Succeeded, TreeInv, SourceKnown
      <4>3. Null \notin Created
        BY <1>0, RootCreated, NullAssumption
      <4> QED
        BY <1>0, <4>1, <4>2, <4>3, ParentInTree, <3>1
    <3> QED
      BY <3>1, <3>2 DEF RemoveInTree
  <2> QED
    BY <2>1, <2>2
<1>3. CASE CopyFails \/ Prompt
  BY <1>3 DEF CopyFails, Prompt
<1> QED
  BY <1>1, <1>2, <1>3 DEF Copying

LEMMA JobKept ==
    ASSUME SourceKnown, [Next]_vars
    PROVE  SourceKnown'
<1>1. CASE UNCHANGED job
  BY <1>1 DEF SourceKnown
<1>2. ASSUME NEW op \in {"cp", "mv"}, NEW p \in Paths, NEW q \in Paths,
             StartCopy(op, p, q)
      PROVE  SourceKnown'
  <2>1. PICK s \in Created, d \in Created, deep \in BOOLEAN :
          job' = [IF op = "cp" THEN NoJob ELSE Move(s, p, q) EXCEPT
                    !.op = op, !.inside = d \in Under(s),
                    !.had = IF op = "cp" THEN <<>> ELSE Holding(s),
                    !.want = IF deep THEN Shape(s) ELSE {<<<<>>, type[s], 1>>}]
    BY <1>2 DEF StartCopy
  <2>2. CASE op = "cp"
    BY <2>1, <2>2 DEF NoJob, SourceKnown
  <2>3. CASE op = "mv"
    BY <2>1, <2>3 DEF NoJob, Move, SourceKnown
  <2> QED
    BY <2>2, <2>3
<1>3. CASE CopyNode
  <2>1. PICK x : job' = [job EXCEPT !.first = x]
    BY <1>3 DEF CopyNode
  <2> QED
    BY <2>1 DEF SourceKnown
<1>4. CASE CopyFails
  BY <1>4 DEF CopyFails, SourceKnown
<1>5. CASE Prompt
  BY <1>5 DEF Prompt, NoJob, SourceKnown
<1> QED
  BY <1>1, <1>2, <1>3, <1>4, <1>5
  DEF Next, Copying, Mkdir, Touch, Cd, Rm, LnS, CdUp, CdBack, CdHome, Return, copying, vars

\* The steps of a copy keep what it has left to do in the tree.
LEMMA TodoKept ==
    ASSUME TreeInv, Copying
    PROVE  TodoInTree'
<1>0. TypeOK /\ Tree /\ Linked
  BY DEF TreeInv, Inv, TypeOK, Linked
<1>1. CASE CopyNode
  <2> DEFINE it == Head(todo)
             kids == children'[it.src]
             n == pool_idx + 1
             new == ChildrenToCopy(it, n, kids)
             U == Under(Root)
             InTreeItems == [src : U', dst : U', deep : BOOLEAN, name : Names]
  <2>1. /\ Room /\ AddNode(it.name, type[it.src], it.dst, Null) /\ todo # <<>>
        /\ todo' = new \o Tail(todo) /\ phase = "copy" /\ phase' = phase
    BY <1>1 DEF CopyNode, LinkCopy
  <2>2. todo \in Seq(Items) /\ it = todo[1] /\ it \in Items /\ 1 \in 1 .. Len(todo)
    BY <1>0, <2>1 DEF TypeOK
  <2>3. it.src \in U /\ it.dst \in U
    BY <2>2 DEF TreeInv, TodoInTree
  <2>4. it.name \in Names /\ type[it.src] \in Types /\ it.src \in Nodes
    BY <1>0, <2>2 DEF Items, TypeOK
  <2>5. Linked' /\ U' = U \cup {n}
    BY <1>0, <2>1, <2>3, <2>4, AddReaches
  <2>6. Tree'
    <3>1. U \subseteq Created
      BY <1>0, RootCreated, Walks DEF DownFacts
    <3> QED
      BY <1>0, <2>1, <2>3, <2>4, <3>1, AddKeeps
  <2>7. kids \in Seq(Nodes) /\ \A i \in 1 .. Len(kids) : kids[i] \in U'
    <3>1. Root \in Created'
      BY <2>5, PoolAssumption DEF Linked, Created, Nodes, Root
    <3>2. \A d \in U' : \A i \in 1 .. Len(children'[d]) : children'[d][i] \in U'
      BY <2>5, <2>6, <3>1, WalksNext DEF WalksClaim, DownFacts, Root
    <3> QED
      BY <2>3, <2>4, <2>5, <3>2 DEF Linked
  <2>8. new \in Seq(InTreeItems)
    <3>1. CASE ~it.deep
      BY <3>1 DEF ChildrenToCopy
    <3>2. CASE it.deep
      <4> DEFINE item(i) == [src |-> kids[i], dst |-> n, deep |-> TRUE,
                             name |-> IF kids[i] = n THEN it.name ELSE name[kids[i]]]
      <4>1. \A i \in 1 .. Len(kids) : item(i) \in InTreeItems
        <5>1. \A i \in 1 .. Len(kids) : kids[i] \in Nodes
          BY <2>7
        <5> QED
          BY <1>0, <2>4, <2>5, <2>7, <5>1 DEF TypeOK
      <4>2. new = [i \in 1 .. Len(kids) |-> item(i)]
        BY <3>2 DEF ChildrenToCopy
      <4>3. Len(kids) \in Nat
        BY <2>7
      <4> HIDE DEF item, new, kids, U, InTreeItems
      <4> QED
        BY <4>1, <4>2, <4>3
    <3> QED
      BY <2>2, <3>1, <3>2 DEF Items
  <2> HIDE DEF new, kids
  <2>9. Tail(todo) \in Seq(InTreeItems)
    <3>1. \A i \in 1 .. Len(todo) : todo[i] \in InTreeItems
      <4> SUFFICES ASSUME NEW i \in 1 .. Len(todo)
                   PROVE  todo[i] \in InTreeItems
        OBVIOUS
      <4>1. todo[i] \in Items
        BY <2>2
      <4>2. todo[i].src \in U' /\ todo[i].dst \in U'
        BY <2>5 DEF TreeInv, TodoInTree
      <4> HIDE DEF U
      <4> QED
        BY <4>1, <4>2 DEF Items
    <3> HIDE DEF U, InTreeItems
    <3>2. todo \in Seq(InTreeItems)
      BY <2>2, <3>1
    <3> QED
      BY <2>1, <3>2
  <2>10. todo' \in Seq(InTreeItems)
    <3> HIDE DEF U, InTreeItems
    <3> QED
      BY <2>1, <2>8, <2>9
  <2> HIDE DEF U
  <2>11. \A i \in 1 .. Len(todo') : todo'[i].src \in U' /\ todo'[i].dst \in U'
    <3>1. \A i \in 1 .. Len(todo') : todo'[i] \in InTreeItems
      <4> HIDE DEF InTreeItems
      <4> QED
        BY <2>10
    <3> QED
      BY <3>1
  <2> QED
    BY <2>1, <2>11 DEF TodoInTree, U
<1>2. CASE CopyFails
  <2>1. /\ todo \in Seq(Items) /\ todo # <<>> /\ phase = "copy"
        /\ todo' = Tail(todo) /\ UNCHANGED <<tree, used, phase>>
    BY <1>0, <1>2 DEF CopyFails, TypeOK
  <2>2. \A i \in 1 .. Len(todo') : i + 1 \in 1 .. Len(todo) /\ todo'[i] = todo[i + 1]
    BY <2>1
  <2>3. Under(Root)' = Under(Root)
    BY <2>1 DEF tree, Under, Listed
  <2> QED
    BY <2>1, <2>2, <2>3 DEF TodoInTree, TreeInv
<1>3. CASE Return
  BY <1>3 DEF Return, TodoInTree
<1>4. CASE Prompt
  BY <1>4 DEF Prompt, TodoInTree, TreeInv
<1> QED
  BY <1>1, <1>2, <1>3, <1>4 DEF Copying

LEMMA TreeUnchanged ==
    ASSUME UNCHANGED tree
    PROVE  /\ Under(Root)' = Under(Root)
           /\ \A n : Under(n)' = Under(n)
  BY DEF tree, Under, Listed

\* Whatever a command does, the next state is again one where nothing in the
\* tree is freed.
LEMMA ChangesFreeNothing ==
    ASSUME TypeOK, Tree, NothingFreed, AddInTree \/ RemoveInTree \/ UNCHANGED <<tree, used>>
    PROVE  NothingFreed'
<1>1. CASE AddInTree
  BY <1>1, AddFreesNothing DEF AddInTree
<1>2. CASE RemoveInTree
  BY <1>2, RemoveFreesNothing DEF RemoveInTree
<1>3. CASE UNCHANGED <<tree, used>>
  <2>1. Under(Root)' = Under(Root)
    BY <1>3, TreeUnchanged
  <2> QED
    BY <1>3, <2>1 DEF NothingFreed, tree
<1> QED
  BY <1>1, <1>2, <1>3

LEMMA StepChanges ==
    ASSUME TreeInv, [Next]_vars
    PROVE  /\ AddInTree \/ RemoveInTree \/ UNCHANGED <<tree, used>>
           /\ TodoInTree'
<1>1. ASSUME phase = "idle", UNCHANGED copying PROVE TodoInTree'
  BY <1>1 DEF TreeInv, TodoInTree, copying
<1>2. ASSUME NEW op \in {"cp", "mv"}, NEW p \in Paths, NEW q \in Paths,
             StartCopy(op, p, q)
      PROVE  UNCHANGED <<tree, used>> /\ TodoInTree'
  <2>1. TypeOK /\ Tree /\ Linked
    BY DEF TreeInv, Inv, TypeOK, Linked
  <2>2. UNCHANGED <<tree, used>> /\ phase' = "copy"
    BY <1>2 DEF StartCopy
  <2>3. PICK s \in Created, d \in Created, deep \in BOOLEAN :
          /\ s = Lookup(p)
          /\ d = IF Receiver(q) # Null THEN Receiver(q) ELSE ParentOf(q)
          /\ todo' = <<[src |-> s, dst |-> d, deep |-> deep,
                        name |-> IF deep THEN name[s] ELSE Last(q)]>>
    BY <1>2 DEF StartCopy
  <2>4. p \in Seq(Names) /\ q \in Seq(Names) /\ q # <<>>
    BY NamesAssumption
  <2>5. Null \notin Created
    BY <2>1, RootCreated, NullAssumption
  <2>6. s \in Under(Root)
    BY <2>1, <2>3, <2>4, <2>5, LookupInTree
  <2>7. ParentOf(q) \in Under(Root) \cup {Null} /\ Lookup(q) \in Under(Root) \cup {Null}
    BY <2>1, <2>4, ParentInTree, LookupInTree
  <2>8. Receiver(q) \in Under(Root) \cup {Null}
    <3>1. CASE IsDir(ParentOf(q)) /\ Find(ParentOf(q), Last(q)) # Null
      <4> DEFINE e == ParentOf(q)
      <4>1. e \in Under(Root) /\ e \in Nodes
        BY <2>1, <2>7, <3>1, RootCreated, UnderIs DEF IsDir
      <4>2. PICK i \in 1 .. Len(children[e]) : FirstNamed(e, Last(q), i)
        BY <2>1, <3>1, <4>1, FindIs
      <4> HIDE DEF e
      <4>3. children[e][i] \in Under(Root)
        BY <2>1, <4>1, Down, RootCreated DEF DownFacts
      <4> QED
        BY <2>7, <4>2, <4>3 DEF Receiver, FirstNamed, e
    <3>2. CASE ~(IsDir(ParentOf(q)) /\ Find(ParentOf(q), Last(q)) # Null)
      BY <2>7, <3>2 DEF Receiver
    <3> QED
      BY <3>1, <3>2
  <2>9. d \in Under(Root)
    BY <2>3, <2>5, <2>7, <2>8
  <2>10. Under(Root)' = Under(Root)
    BY <2>2, TreeUnchanged
  <2>11. Len(todo') = 1 /\ todo'[1].src = s /\ todo'[1].dst = d
    BY <2>3
  <2>12. TodoInTree'
    BY <2>2, <2>6, <2>9, <2>10, <2>11 DEF TodoInTree
  <2> QED
    BY <2>2, <2>12
<1>3. CASE Copying
  BY <1>3, CopyChanges, TodoKept
<1>4. CASE UNCHANGED vars
  <2>1. Under(Root)' = Under(Root)
    BY <1>4, TreeUnchanged DEF vars
  <2> QED
    BY <1>4, <2>1 DEF vars, copying, TreeInv, TodoInTree
<1> QED
  BY <1>1, <1>2, <1>3, <1>4, CommandChanges DEF Next

LEMMA StepTree == TreeInv /\ [Next]_vars => TreeInv'
<1> SUFFICES ASSUME TreeInv, [Next]_vars PROVE TreeInv'
  OBVIOUS
<1>1. Inv'
  BY StepInv DEF TreeInv
<1>2. NothingFreed'
  BY StepChanges, ChangesFreeNothing DEF TreeInv, Inv
<1>3. TodoInTree' /\ SourceKnown'
  BY StepChanges, JobKept DEF TreeInv
<1> QED
  BY <1>1, <1>2, <1>3 DEF TreeInv

\* No path reaches a node that was removed or a link whose block was released,
\* and no two links in the tree share a block, after any sequence of commands.
THEOREM NothingReachedIsFreed == Spec => []NothingFreed
<1>1. TreeInv => NothingFreed
  BY DEF TreeInv
<1> QED
  BY <1>1, InitTree, StepTree, PTL DEF Spec

\* A directory that is no longer in the tree gets no more children, even when the
\* shell still stands in it.
THEOREM DetachedStaysFrozen == Spec => DetachedFrozen
<1>1. ASSUME TreeInv, [Next]_vars
      PROVE  [\A n \in Created : ~InTree(n) => children'[n] = children[n]]_vars
  <2>0. TypeOK /\ Tree /\ Linked
    BY <1>1 DEF TreeInv, Inv, TypeOK, Linked
  <2> SUFFICES ASSUME NEW n \in Created, n \notin Under(Root)
               PROVE  children'[n] = children[n]
    BY DEF InTree
  <2>1. n \in Nodes /\ n # pool_idx + 1
    BY <2>0, RootCreated DEF Linked, Created, Nodes
  <2>2. CASE AddInTree
    <3>1. PICK d \in Under(Root) : \E nm, ty, tgt : AddNode(nm, ty, d, tgt)
      BY <2>2 DEF AddInTree
    <3> QED
      BY <2>0, <2>1, <3>1 DEF AddNode, TypeOK
  <2>3. CASE RemoveInTree
    BY <2>0, <2>1, <2>3 DEF RemoveInTree, Remove, Unlink, TypeOK
  <2>4. CASE UNCHANGED <<tree, used>>
    BY <2>4 DEF tree
  <2> QED
    BY <1>1, <2>2, <2>3, <2>4, StepChanges
<1> QED
  BY <1>1, InitTree, StepTree, PTL DEF Spec, DetachedFrozen

-----------------------------------------------------------------------------
(* find.                                                                   *)

\* Two lookups whose paths begin alike are at the same node until they differ.
LEMMA WalksAgree ==
    ASSUME NEW S, NEW p, NEW q, NEW v, NEW w, IsWalk(v, p, S), IsWalk(w, q, S),
           NEW k \in Nat, \A i \in 1 .. k : p[i] = q[i]
    PROVE  v[k] = w[k]
<1> DEFINE Bad == {i \in Nat : i <= k /\ v[i] # w[i]}
<1>1. ASSUME Bad # {} PROVE FALSE
  <2>1. PICK j \in Bad : \A i \in Bad : j <= i
    <3>1. Bad \in SUBSET Nat
      OBVIOUS
    <3> HIDE DEF Bad
    <3> QED
      BY <1>1, <3>1, Least
  <2>2. j \in Nat /\ j <= k /\ v[j] # w[j]
    BY <2>1
  <2>3. j # 0
    BY <2>2 DEF IsWalk
  <2>4. j - 1 \in Nat /\ j - 1 <= k /\ ~(j <= j - 1) /\ j \in 1 .. k /\ j \in Nat \ {0}
    BY <2>2, <2>3
  <2>5. v[j - 1] = w[j - 1]
    BY <2>1, <2>4
  <2>6. v[j] = StepTo(v[j - 1], p[j]) /\ w[j] = StepTo(w[j - 1], q[j])
    BY <2>4 DEF IsWalk
  <2> QED
    BY <2>2, <2>4, <2>5, <2>6
<1> QED
  BY <1>1

\* The path of a child leads to the first child of that name.
LEMMA ChildPath ==
    ASSUME Linked, Tree, NEW q \in Seq(Names), q # <<>>, q # <<Empty>>, Lookup(q) # Null,
           NEW nm \in Names \ Misleading
    PROVE  /\ SubPath(q, nm) \in Seq(Names)
           /\ SubPath(q, nm) # <<>> /\ SubPath(q, nm) # <<Empty>>
           /\ Lookup(SubPath(q, nm)) = Find(Lookup(q), nm)
<1> DEFINE r == IF q = TheRoot THEN <<Empty>> ELSE q
           s == SubPath(q, nm)
           U == Under(Root)
<1>1. s = r \o <<nm>>
  BY DEF SubPath, Misleading
<1>2. Empty \in Names /\ r \in Seq(Names) /\ Len(r) \in Nat /\ Len(r) >= 1
  BY NamesAssumption DEF TheRoot
<1> HIDE DEF r
<1>3. /\ s \in Seq(Names) /\ Len(s) = Len(r) + 1 /\ s[Len(r) + 1] = nm
      /\ \A i \in 1 .. Len(r) : s[i] = r[i]
  <2>1. <<nm>> \in Seq(Names)
    OBVIOUS
  <2> QED
    BY <1>1, <1>2, <2>1
<1>4. s # <<>> /\ s # <<Empty>>
  BY <1>2, <1>3
<1>5. U \in SUBSET Nodes /\ Root \in U
  BY RootCreated, Walks DEF UnderFacts, DownFacts
<1>6. \A x : \A c \in U \cup {Null} : StepTo(c, x) \in U \cup {Null}
  BY StepsInTree
<1>7. PICK v : IsWalk(v, s, U)
  BY <1>5, <1>6, WalkExists
<1>8. PICK w : IsWalk(w, q, U)
  BY <1>5, <1>6, WalkExists
<1>9. Lookup(q) = w[Len(q)]
  BY <1>8 DEF IsWalk
<1>10. v[Len(r)] = Lookup(q)
  <2>1. CASE q = TheRoot
    <3>1. r = <<Empty>> /\ Len(r) = 1 /\ s[1] = Empty
      BY <1>3, <2>1 DEF r
    <3>2. Len(q) = 2 /\ q[1] = Empty /\ q[2] = Empty
      BY <2>1 DEF TheRoot
    <3>3. w[1] = StepTo(w[0], q[1]) /\ w[2] = StepTo(w[1], q[2]) /\ w[0] = Root
      <4>1. \A i \in Nat \ {0} : w[i] = StepTo(w[i - 1], q[i])
        BY <1>8 DEF IsWalk
      <4>2. 1 \in Nat \ {0} /\ 2 \in Nat \ {0} /\ 1 - 1 = 0 /\ 2 - 1 = 1
        OBVIOUS
      <4>3. w[0] = Root
        BY <1>8 DEF IsWalk
      <4> QED
        BY <4>1, <4>2, <4>3
    <3>4. v[1] = StepTo(v[0], s[1]) /\ v[0] = Root
      <4>1. \A i \in Nat \ {0} : v[i] = StepTo(v[i - 1], s[i])
        BY <1>7 DEF IsWalk
      <4>2. 1 \in Nat \ {0} /\ 1 - 1 = 0
        OBVIOUS
      <4>3. v[0] = Root
        BY <1>7 DEF IsWalk
      <4> QED
        BY <4>1, <4>2, <4>3
    <3>5. StepTo(Root, Empty) = Root
      BY NamesAssumption DEF StepTo
    <3> QED
      BY <1>9, <3>1, <3>2, <3>3, <3>4, <3>5
  <2>2. CASE q # TheRoot
    <3>1. r = q
      BY <2>2 DEF r
    <3>2. v[Len(r)] = w[Len(r)]
      BY <1>2, <1>3, <1>7, <1>8, <3>1, WalksAgree
    <3> QED
      BY <1>9, <3>1, <3>2
  <2> QED
    BY <2>1, <2>2
<1>11. Lookup(s) = StepTo(Lookup(q), nm)
  <2>1. Lookup(s) = v[Len(s)]
    BY <1>4, <1>7 DEF IsWalk
  <2>2. Len(r) + 1 \in Nat \ {0} /\ (Len(r) + 1) - 1 = Len(r)
    BY <1>2
  <2>3. v[Len(r) + 1] = StepTo(v[Len(r)], s[Len(r) + 1])
    BY <1>7, <2>2 DEF IsWalk
  <2> QED
    BY <1>3, <1>10, <2>1, <2>3
<1>12. StepTo(Lookup(q), nm) = Find(Lookup(q), nm)
  BY DEF StepTo, Misleading
<1> QED
  BY <1>3, <1>4, <1>11, <1>12

\* The calls find makes, level by level.
IsSearch(at, p) ==
    /\ at \in [Nat -> SUBSET Seq(Names)]
    /\ at[0] = {p}
    /\ \A i \in Nat \ {0} : at[i] = FindCalls(at[i - 1])
    /\ FindDepth(p) = at

LEMMA KidsAre ==
    ASSUME Linked, Tree, NEW q \in Seq(Names)
    PROVE  Kids(Lookup(q)) \subseteq Nodes
<1>1. Lookup(q) \in Under(Root) \cup {Null}
  BY LookupInTree
<1>2. Under(Root) \subseteq Nodes
  BY RootCreated, UnderIs
<1>3. \A d \in Nodes : Kids(d) \subseteq Nodes
  BY DEF Linked, Kids
<1>4. Kids(Null) = {}
  BY DEF Kids
<1> QED
  BY <1>1, <1>2, <1>3, <1>4

LEMMA CallsArePaths ==
    ASSUME Linked, Tree, name \in [Nodes -> Names], NEW ps \in SUBSET Seq(Names)
    PROVE  FindCalls(ps) \in SUBSET Seq(Names)
<1> SUFFICES ASSUME NEW q \in ps, NEW c \in Kids(Lookup(q))
             PROVE  SubPath(q, name[c]) \in Seq(Names)
  BY DEF FindCalls
<1>1. c \in Nodes
  BY KidsAre
<1>2. /\ <<Empty>> \in Seq(Names) /\ <<Empty, Empty>> \in Seq(Names)
      /\ <<name[c]>> \in Seq(Names) /\ q \in Seq(Names)
  BY <1>1, NamesAssumption
<1> QED
  BY <1>2 DEF SubPath

LEMMA SearchExists ==
    ASSUME Linked, Tree, name \in [Nodes -> Names], NEW p \in Seq(Names)
    PROVE  \E at : IsSearch(at, p)
<1> DEFINE T == SUBSET Seq(Names)
           g == [x \in T \X Nat |-> FindCalls(x[1])]
           A == CHOOSE at : at = [n \in Nat |-> IF n = 0 THEN {p} ELSE FindCalls(at[n - 1])]
<1>1. FindDepth(p) = A
  BY DEF FindDepth
<1> HIDE DEF A
<1>2. g \in [T \X Nat -> T]
  <2>1. ASSUME NEW x \in T \X Nat PROVE FindCalls(x[1]) \in T
    <3>1. x[1] \in T
      OBVIOUS
    <3> QED
      BY <3>1, CallsArePaths
  <2> HIDE DEF T
  <2> QED
    BY <2>1
<1>3. PICK f : Recurs(f, T, {p}, g)
  <2>1. {p} \in T
    OBVIOUS
  <2> HIDE DEF g, T
  <2> QED
    BY <1>2, <2>1, Recursion
<1>4. f = [n \in Nat |-> IF n = 0 THEN {p} ELSE FindCalls(f[n - 1])]
  <2>1. f \in [Nat -> T] /\ f[0] = {p} /\ \A i \in Nat \ {0} : f[i] = g[<<f[i - 1], i>>]
    BY <1>3 DEF Recurs
  <2>2. ASSUME NEW i \in Nat, i # 0 PROVE f[i] = FindCalls(f[i - 1])
    <3>1. i - 1 \in Nat
      BY <2>2
    <3>2. <<f[i - 1], i>> \in T \X Nat
      BY <2>1, <2>2, <3>1
    <3>3. f[i] = g[<<f[i - 1], i>>]
      BY <2>1, <2>2
    <3> HIDE DEF T
    <3> QED
      BY <3>2, <3>3
  <2> HIDE DEF g, T
  <2> QED
    BY <2>1, <2>2
<1>5. A = [n \in Nat |-> IF n = 0 THEN {p} ELSE FindCalls(A[n - 1])]
  BY <1>4, Zenon DEF A
<1>6. A[0] = {p} /\ \A i \in Nat \ {0} : A[i] = FindCalls(A[i - 1])
  BY <1>5
<1>7. A \in [Nat -> T]
  <2> DEFINE Bad == {i \in Nat : A[i] \notin T}
  <2>1. ASSUME Bad # {} PROVE FALSE
    <3>1. PICK k \in Bad : \A j \in Bad : k <= j
      <4>1. Bad \in SUBSET Nat
        OBVIOUS
      <4> HIDE DEF Bad
      <4> QED
        BY <2>1, <4>1, Least
    <3>2. k \in Nat /\ A[k] \notin T
      BY <3>1
    <3>3. k # 0
      BY <1>6, <3>2
    <3>4. k - 1 \in Nat /\ ~(k <= k - 1)
      BY <3>2, <3>3
    <3>5. A[k - 1] \in T
      BY <3>1, <3>4
    <3> QED
      BY <1>6, <3>2, <3>3, <3>5, CallsArePaths
  <2>2. \A i \in Nat : A[i] \in T
    BY <2>1
  <2> HIDE DEF T
  <2> QED
    BY <1>5, <2>2
<1> QED
  BY <1>1, <1>6, <1>7 DEF IsSearch

\* What find is sure of: where it starts, and the names of the directories below.
Searching(p, n) ==
    /\ TypeOK /\ Tree
    /\ p \in Seq(Names) /\ p # <<>> /\ p # <<Empty>>
    /\ n = Lookup(p) /\ IsDir(n)
    /\ \A m \in Under(n) \ {n} : type[m] = "dir" => name[m] \notin Misleading

\* Every level of calls is at nodes further on in the pool.
Reaches(n, k, q) ==
    /\ q \in Seq(Names) /\ q # <<>> /\ q # <<Empty>>
    /\ Lookup(q) # Null => Lookup(q) \in Under(n) /\ Lookup(q) >= k

\* A call that a call makes.
LEMMA NextCall ==
    ASSUME NEW p, NEW n, Searching(p, n), NEW k \in Nat, NEW q, Reaches(n, k, q),
           NEW c \in Kids(Lookup(q)), type[c] = "dir"
    PROVE  /\ Lookup(q) # Null /\ c \in Under(n) \ {n} /\ c > Lookup(q) /\ parent[c] = Lookup(q)
           /\ name[c] \in Names \ Misleading
           /\ Reaches(n, k + 1, SubPath(q, name[c]))
           /\ Lookup(SubPath(q, name[c])) = Find(Lookup(q), name[c])
<1> DEFINE d == Lookup(q)
           s == SubPath(q, name[c])
<1>0. TypeOK /\ Tree /\ Linked /\ name \in [Nodes -> Names]
  BY DEF Searching, TypeOK, Linked
<1>1. d # Null /\ d \in Under(n) /\ d >= k /\ q \in Seq(Names) /\ q # <<>> /\ q # <<Empty>>
  BY DEF Kids, Reaches
<1>2. n \in Created /\ n \in Nodes /\ Created \subseteq Nodes /\ Nodes \subseteq Nat
  <2>1. n \in Under(Root)
    BY <1>0, LookupInTree DEF Searching, IsDir
  <2> QED
    BY <1>0, <2>1, RootCreated, Down DEF DownFacts
<1>3. /\ Under(n) \subseteq Created /\ d >= n
      /\ \A i \in 1 .. Len(children[d]) :
           children[d][i] \in Under(n) /\ children[d][i] > d
  BY <1>0, <1>1, <1>2, Down DEF DownFacts
<1>4. PICK i \in 1 .. Len(children[d]) : c = children[d][i]
  BY <1>1 DEF Kids
<1>5. /\ c \in Under(n) /\ c > d /\ c # n /\ c \in Nodes /\ d \in Nodes /\ parent[c] = d
  <2>1. c \in Under(n) /\ c > d
    BY <1>3, <1>4
  <2>2. d \in Nodes /\ c \in Nodes
    BY <1>1, <1>2, <1>3, <2>1
  <2>3. parent[c] = d
    BY <1>0, <1>4, <2>2 DEF Tree, ListsAgree
  <2>4. d >= n
    BY <1>3
  <2> HIDE DEF d
  <2>5. d \in Nat /\ c \in Nat /\ n \in Nat
    BY <1>2, <2>2
  <2>6. c # n
    BY <2>1, <2>4, <2>5
  <2> QED
    BY <2>1, <2>2, <2>3, <2>6
<1>6. name[c] \in Names \ Misleading
  BY <1>0, <1>5 DEF Searching
<1>7. /\ s \in Seq(Names) /\ s # <<>> /\ s # <<Empty>> /\ Lookup(s) = Find(d, name[c])
  BY <1>0, <1>1, <1>6, ChildPath
<1>8. ASSUME Lookup(s) # Null PROVE Lookup(s) \in Under(n) /\ Lookup(s) >= k + 1
  <2>1. Find(d, name[c]) # Null
    BY <1>7, <1>8
  <2>2. PICK j \in 1 .. Len(children[d]) : FirstNamed(d, name[c], j)
    BY <1>0, <1>5, <2>1, FindIs
  <2>3. Lookup(s) = children[d][j]
    BY <1>7, <2>2 DEF FirstNamed
  <2>4. Lookup(s) \in Under(n) /\ Lookup(s) > d /\ Lookup(s) \in Nat
    BY <1>2, <1>3, <2>3
  <2> HIDE DEF d, s
  <2> QED
    BY <1>1, <1>2, <1>5, <2>4
<1> QED
  BY <1>1, <1>5, <1>6, <1>7, <1>8 DEF Reaches

\* So the levels come to an end: there are no nodes further on than the last.
LEMMA LevelsReach ==
    ASSUME NEW p, NEW n, Searching(p, n), NEW at, IsSearch(at, p)
    PROVE  \A k \in Nat : \A q \in at[k] : Reaches(n, k, q)
<1> DEFINE Bad == {k \in Nat : \E q \in at[k] : ~Reaches(n, k, q)}
<1>1. ASSUME Bad # {} PROVE FALSE
  <2>1. PICK k \in Bad : \A j \in Bad : k <= j
    <3>1. Bad \in SUBSET Nat
      OBVIOUS
    <3> HIDE DEF Bad
    <3> QED
      BY <1>1, <3>1, Least
  <2>2. k \in Nat
    BY <2>1
  <2>3. PICK s \in at[k] : ~Reaches(n, k, s)
    BY <2>1
  <2>4. CASE k = 0
    <3>1. s = p
      BY <2>3, <2>4 DEF IsSearch
    <3>2. Linked /\ Tree
      BY DEF Searching, TypeOK, Linked
    <3>3. n \in Under(Root)
      BY <3>2, LookupInTree DEF Searching, IsDir
    <3>4. n \in Nat /\ n \in Created
      BY <3>2, <3>3, RootCreated, Down DEF DownFacts
    <3>5. n \in Under(n)
      BY <3>2, <3>4, Down DEF DownFacts
    <3> QED
      BY <2>3, <2>4, <3>1, <3>4, <3>5 DEF Reaches, Searching
  <2>5. CASE k # 0
    <3>1. k - 1 \in Nat /\ ~(k <= k - 1) /\ k \in Nat \ {0} /\ (k - 1) + 1 = k
      BY <2>2, <2>5
    <3>2. at[k] = FindCalls(at[k - 1])
      BY <3>1 DEF IsSearch
    <3>6. PICK q \in at[k - 1] : \E c \in Kids(Lookup(q)) :
            type[c] = "dir" /\ s = SubPath(q, name[c])
      BY <2>3, <3>2 DEF FindCalls
    <3>3. PICK c \in Kids(Lookup(q)) : type[c] = "dir" /\ s = SubPath(q, name[c])
      BY <3>6
    <3>4. Reaches(n, k - 1, q)
      BY <2>1, <3>1
    <3>5. Reaches(n, (k - 1) + 1, SubPath(q, name[c]))
      BY <3>1, <3>3, <3>4, NextCall
    <3> QED
      BY <2>3, <3>1, <3>3, <3>5
  <2> QED
    BY <2>4, <2>5
<1> QED
  BY <1>1

LEMMA SearchEnds ==
    ASSUME NEW p, NEW n, Searching(p, n)
    PROVE  FindEnds(p)
<1>0. Linked /\ Tree /\ name \in [Nodes -> Names] /\ p \in Seq(Names)
  BY DEF Searching, TypeOK, Linked
<1>1. PICK at : IsSearch(at, p)
  BY <1>0, SearchExists
<1>2. POOL \in Nat /\ POOL + 1 \in Nat \ {0} /\ (POOL + 1) - 1 = POOL
  BY PoolAssumption
<1>3. ASSUME at[POOL + 1] # {} PROVE FALSE
  <2>1. at[POOL + 1] = FindCalls(at[POOL])
    BY <1>1, <1>2 DEF IsSearch
  <2>7. PICK q \in at[POOL] : \E c \in Kids(Lookup(q)) : type[c] = "dir"
    BY <1>3, <2>1 DEF FindCalls
  <2>2. PICK c \in Kids(Lookup(q)) : type[c] = "dir"
    BY <2>7
  <2>3. Reaches(n, POOL, q)
    BY <1>1, <1>2, LevelsReach
  <2>4. Lookup(q) # Null /\ c \in Under(n) /\ c > Lookup(q)
    BY <1>2, <2>2, <2>3, NextCall
  <2>5. Lookup(q) >= POOL /\ Lookup(q) \in Under(n)
    BY <2>3, <2>4 DEF Reaches
  <2>6. Under(n) \subseteq Nodes
    <3>1. n \in Under(Root)
      BY <1>0, LookupInTree DEF Searching, IsDir
    <3> QED
      BY <1>0, <3>1, RootCreated, UnderIs, Down DEF DownFacts
  <2> QED
    BY <1>2, <2>4, <2>5, <2>6 DEF Nodes
<1> QED
  BY <1>1, <1>3 DEF FindEnds, IsSearch

\* When siblings have different names, find is at the node whose path it made.
Distinct(n) == \A m, k \in Under(n) \ {n} :
                 m # k /\ parent[m] = parent[k] => name[m] # name[k]

LEMMA FindsItself ==
    ASSUME NEW p, NEW n, Searching(p, n), Distinct(n), NEW k \in Nat, NEW q, Reaches(n, k, q),
           NEW c \in Kids(Lookup(q)), type[c] = "dir", type[Lookup(q)] = "dir"
    PROVE  Lookup(SubPath(q, name[c])) = c
<1> DEFINE d == Lookup(q)
<1>0. TypeOK /\ Tree /\ Linked
  BY DEF Searching, TypeOK, Linked
<1>1. /\ d # Null /\ c \in Under(n) \ {n} /\ c > d /\ parent[c] = d
      /\ Lookup(SubPath(q, name[c])) = Find(d, name[c])
  BY NextCall
<1>2. d \in Under(n) /\ n \in Created /\ d \in Nodes /\ n <= d
  <2>1. n \in Under(Root)
    BY <1>0, LookupInTree DEF Searching, IsDir
  <2>2. n \in Created
    BY <1>0, <2>1, RootCreated, Down DEF DownFacts
  <2>3. d \in Under(n)
    BY <1>1 DEF Reaches
  <2> HIDE DEF d
  <2>4. Under(n) \subseteq Created /\ d >= n
    BY <1>0, <2>2, <2>3, Down DEF DownFacts
  <2>5. Created \subseteq Nodes /\ Nodes \subseteq Nat
    BY <1>0, RootCreated
  <2> QED
    BY <2>2, <2>3, <2>4, <2>5
<1>3. PICK i \in 1 .. Len(children[d]) : c = children[d][i]
  BY <1>1 DEF Kids
<1>4. PICK j \in 1 .. Len(children[d]) : FirstNamed(d, name[c], j)
  BY <1>0, <1>2, <1>3, FindIs
<1> DEFINE e == children[d][j]
<1>5. /\ e \in Under(n) /\ e > d /\ e \in Nodes /\ parent[e] = d
  <2>1. e \in Under(n) /\ e > d
    BY <1>0, <1>2, Down DEF DownFacts
  <2>2. e \in Created /\ parent[e] = d
    BY <1>0, <1>2 DEF Tree, ListsAgree
  <2> QED
    BY <1>0, <2>1, <2>2, RootCreated
<1>6. Find(d, name[c]) = e /\ name[e] = name[c]
  BY <1>4 DEF FirstNamed
<1>7. e # n
  <2> HIDE DEF d, e
  <2>1. n \in Nat /\ d \in Nat
    BY <1>0, <1>2, RootCreated
  <2>2. e \in Nat
    BY <1>0, <1>5, RootCreated
  <2> QED
    BY <1>2, <1>5, <2>1, <2>2
<1> HIDE DEF d, e
<1>8. e = c
  BY <1>1, <1>5, <1>6, <1>7 DEF Distinct
<1> QED
  BY <1>1, <1>6, <1>8

\* find only looks up directories that rm would sweep too.
LEMMA StaysSwept ==
    ASSUME NEW p, NEW n, Searching(p, n), Distinct(n), NEW at, IsSearch(at, p)
    PROVE  \A k \in Nat : \A q \in at[k] :
             Reaches(n, k, q) /\ Lookup(q) \in Swept(n) /\ type[Lookup(q)] = "dir"
<1> DEFINE At(q) == Lookup(q) \in Swept(n) /\ type[Lookup(q)] = "dir"
           Bad == {k \in Nat : \E q \in at[k] : ~At(q)}
<1>0. Linked /\ Tree
  BY DEF Searching, TypeOK, Linked
<1>1. n \in Nodes /\ Nodes \subseteq Nat
  BY <1>0, LookupInTree, RootCreated, UnderIs DEF Searching, IsDir
<1>2. \A m \in Nodes : m \in Swept(n) <=> SweptStep(n, m)
  BY <1>0, <1>1, SweptIs
<1>3. \A k \in Nat : \A q \in at[k] : Reaches(n, k, q)
  BY LevelsReach
<1>4. ASSUME Bad # {} PROVE FALSE
  <2>1. PICK k \in Bad : \A j \in Bad : k <= j
    <3>1. Bad \in SUBSET Nat
      OBVIOUS
    <3> HIDE DEF Bad
    <3> QED
      BY <1>4, <3>1, Least
  <2>2. k \in Nat
    BY <2>1
  <2>3. PICK s \in at[k] : ~At(s)
    BY <2>1
  <2>4. CASE k = 0
    <3>1. s = p
      BY <2>3, <2>4 DEF IsSearch
    <3>2. n \in Swept(n)
      BY <1>1, <1>2 DEF SweptStep
    <3> QED
      BY <2>3, <3>1, <3>2 DEF Searching, IsDir
  <2>5. CASE k # 0
    <3>1. k - 1 \in Nat /\ ~(k <= k - 1) /\ k \in Nat \ {0}
      BY <2>2, <2>5
    <3>2. at[k] = FindCalls(at[k - 1])
      BY <3>1 DEF IsSearch
    <3>3. PICK q \in at[k - 1] : \E c \in Kids(Lookup(q)) :
            type[c] = "dir" /\ s = SubPath(q, name[c])
      BY <2>3, <3>2 DEF FindCalls
    <3>4. PICK c \in Kids(Lookup(q)) : type[c] = "dir" /\ s = SubPath(q, name[c])
      BY <3>3
    <3>5. At(q)
      BY <2>1, <3>1
    <3>6. Reaches(n, k - 1, q)
      BY <1>3, <3>1
    <3>7. Lookup(s) = c
      BY <3>1, <3>4, <3>5, <3>6, FindsItself
    <3>8. c \in Under(n) \ {n} /\ c > Lookup(q) /\ parent[c] = Lookup(q)
      BY <3>1, <3>4, <3>6, NextCall
    <3>9. c \in Swept(n)
      <4>1. Under(n) \subseteq Nodes
        BY <1>0, <1>1, UnderIs
      <4>2. c \in Nodes /\ UnderStep(n, c) /\ c # n
        BY <1>0, <1>1, <3>8, <4>1, UnderIs
      <4>3. c > n /\ Listed(c)
        BY <4>2 DEF UnderStep
      <4> QED
        BY <1>2, <3>5, <3>8, <4>2, <4>3 DEF SweptStep
    <3> QED
      BY <2>3, <3>4, <3>7, <3>9
  <2> QED
    BY <2>4, <2>5
<1> QED
  BY <1>3, <1>4

\* And every directory that rm would sweep is looked up.
LEMMA SweptVisited ==
    ASSUME NEW p, NEW n, Searching(p, n), Distinct(n), NEW at, IsSearch(at, p)
    PROVE  \A m \in Swept(n) : type[m] = "dir" =>
             \E k \in 0 .. POOL : \E q \in at[k] : Lookup(q) = m
<1> DEFINE Visited(m) == \E k \in 0 .. POOL : \E q \in at[k] : Lookup(q) = m
           Bad == {m \in Swept(n) : type[m] = "dir" /\ ~Visited(m)}
<1>0. Linked /\ Tree
  BY DEF Searching, TypeOK, Linked
<1>1. n \in Nodes /\ Nodes \subseteq Nat /\ POOL \in Nat
  BY <1>0, LookupInTree, RootCreated, UnderIs, PoolAssumption DEF Searching, IsDir
<1>2. Swept(n) \subseteq Nodes /\ \A m \in Nodes : m \in Swept(n) <=> SweptStep(n, m)
  BY <1>0, <1>1, SweptIs
<1>3. \A k \in Nat : \A q \in at[k] :
        Reaches(n, k, q) /\ Lookup(q) \in Swept(n) /\ type[Lookup(q)] = "dir"
  BY StaysSwept
<1>4. ASSUME Bad # {} PROVE FALSE
  <2>1. PICK m \in Bad : \A j \in Bad : m <= j
    <3>1. Bad \in SUBSET Nat
      BY <1>1, <1>2
    <3> HIDE DEF Bad
    <3> QED
      BY <1>4, <3>1, Least
  <2>2. m \in Swept(n) /\ m \in Nodes /\ type[m] = "dir" /\ ~Visited(m)
    BY <1>2, <2>1
  <2>3. CASE m = n
    <3>1. 0 \in 0 .. POOL /\ p \in at[0] /\ Lookup(p) = n
      BY <1>1 DEF IsSearch, Searching
    <3> QED
      BY <2>2, <2>3, <3>1
  <2>4. CASE m # n
    <3> DEFINE d == parent[m]
    <3>1. m > n /\ Listed(m) /\ type[d] = "dir" /\ d \in Swept(n)
      BY <1>2, <2>2, <2>4 DEF SweptStep
    <3>2. d \in Nodes /\ d < m
      BY <1>0, <2>2, <3>1, ListedIs DEF ListedFacts
    <3>3. Visited(d)
      <4>1. ~(m <= d)
        <5> HIDE DEF d
        <5>1. m \in Nat /\ d \in Nat
          BY <1>1, <2>2, <3>2
        <5> QED
          BY <3>2, <5>1
      <4>2. d \notin Bad
        BY <2>1, <4>1
      <4> QED
        BY <3>1, <4>2
    <3>4. PICK k \in 0 .. POOL : \E q \in at[k] : Lookup(q) = d
      BY <3>3
    <3>5. PICK q \in at[k] : Lookup(q) = d
      BY <3>4
    <3>6. d # Null
      BY <3>2, NullAssumption
    <3>7. m \in Kids(d)
      BY <3>1, <3>6 DEF Kids, Listed
    <3>8. k \in Nat /\ k + 1 \in Nat \ {0} /\ (k + 1) - 1 = k
      OBVIOUS
    <3>9. Reaches(n, k, q)
      BY <1>3, <3>8
    <3>10. Lookup(SubPath(q, name[m])) = m
      BY <2>2, <3>1, <3>5, <3>7, <3>8, <3>9, FindsItself
    <3>11. SubPath(q, name[m]) \in at[k + 1]
      <4>1. at[k + 1] = FindCalls(at[k])
        BY <3>8 DEF IsSearch
      <4>2. SubPath(q, name[m]) \in FindCalls(at[k])
        BY <2>2, <3>5, <3>7 DEF FindCalls
      <4> QED
        BY <4>1, <4>2
    <3>12. m >= k + 1
      <4>1. Reaches(n, k + 1, SubPath(q, name[m]))
        BY <2>2, <3>5, <3>7, <3>8, <3>9, NextCall
      <4>2. m # Null
        BY <2>2, NullAssumption
      <4> QED
        BY <3>10, <4>1, <4>2 DEF Reaches
    <3>13. k + 1 \in 0 .. POOL
      BY <1>1, <2>2, <3>8, <3>12 DEF Nodes
    <3> QED
      BY <2>2, <3>10, <3>11, <3>13
  <2> QED
    BY <2>3, <2>4
<1> QED
  BY <1>4

\* find sees what rm would sweep, the directory itself left out.
LEMMA SeesSwept ==
    ASSUME NEW p, NEW n, Searching(p, n), Distinct(n)
    PROVE  Seen(p) = Swept(n) \ {n}
<1>0. Linked /\ Tree /\ name \in [Nodes -> Names] /\ p \in Seq(Names)
  BY DEF Searching, TypeOK, Linked
<1>1. PICK at : IsSearch(at, p)
  BY <1>0, SearchExists
<1>2. n \in Nodes /\ Nodes \subseteq Nat
  BY <1>0, LookupInTree, RootCreated, UnderIs DEF Searching, IsDir
<1>3. Swept(n) \subseteq Nodes /\ \A m \in Nodes : m \in Swept(n) <=> SweptStep(n, m)
  BY <1>0, <1>2, SweptIs
<1>4. \A m : m \in Seen(p) <=> \E k \in 0 .. POOL : \E q \in at[k] : m \in Kids(Lookup(q))
  <2>1. FindDepth(p) = at
    BY <1>1 DEF IsSearch
  <2>2. Seen(p) = UNION {Kids(Lookup(q)) : q \in UNION {at[i] : i \in 0 .. POOL}}
    BY <2>1, Zenon DEF Seen
  <2> DEFINE Calls == UNION {at[i] : i \in 0 .. POOL}
  <2>3. \A q : q \in Calls <=> \E k \in 0 .. POOL : q \in at[k]
    OBVIOUS
  <2> HIDE DEF Calls
  <2>4. \A m : m \in UNION {Kids(Lookup(q)) : q \in Calls}
                <=> \E q \in Calls : m \in Kids(Lookup(q))
    OBVIOUS
  <2>5. Seen(p) = UNION {Kids(Lookup(q)) : q \in Calls}
    BY <2>2 DEF Calls
  <2> QED
    BY <2>3, <2>4, <2>5
<1>5. ASSUME NEW k \in 0 .. POOL, NEW q \in at[k], NEW m \in Kids(Lookup(q))
      PROVE  m \in Swept(n) \ {n}
  <2> DEFINE d == Lookup(q)
  <2>1. k \in Nat
    OBVIOUS
  <2>2. Reaches(n, k, q) /\ d \in Swept(n) /\ type[d] = "dir"
    BY <1>1, <2>1, StaysSwept
  <2>3. d \in Nodes /\ d # Null
    BY <1>3, <2>2, NullAssumption
  <2>4. PICK i \in 1 .. Len(children[d]) : m = children[d][i]
    BY <2>3 DEF Kids
  <2>5. m \in Created /\ parent[m] = d
    BY <1>0, <2>3, <2>4 DEF Tree, ListsAgree
  <2>6. Listed(m) /\ m \in Nodes
    BY <1>0, <2>3, <2>4, <2>5, RootCreated DEF Listed
  <2>7. d < m
    BY <1>0, <2>5, <2>6, ListedIs DEF ListedFacts
  <2>8. n <= d
    <3>1. d = n \/ d > n
      BY <1>3, <2>2, <2>3 DEF SweptStep
    <3> HIDE DEF d
    <3> QED
      BY <1>2, <2>3, <3>1
  <2>9. m > n
    <3> HIDE DEF d
    <3> QED
      BY <1>2, <2>3, <2>6, <2>7, <2>8
  <2> QED
    BY <1>2, <1>3, <2>2, <2>5, <2>6, <2>9 DEF SweptStep
<1>6. ASSUME NEW m \in Swept(n) \ {n}
      PROVE  \E k \in 0 .. POOL : \E q \in at[k] : m \in Kids(Lookup(q))
  <2>1. Listed(m) /\ type[parent[m]] = "dir" /\ parent[m] \in Swept(n)
    BY <1>3, <1>6 DEF SweptStep
  <2>2. PICK k \in 0 .. POOL : \E q \in at[k] : Lookup(q) = parent[m]
    BY <1>1, <2>1, SweptVisited
  <2>3. m \in Kids(parent[m])
    BY <2>1 DEF Kids, Listed
  <2> QED
    BY <2>2, <2>3
<1> QED
  BY <1>4, <1>5, <1>6

LEMMA FindIsWhole == TypeOK /\ Tree => FindWhole
<1> SUFFICES ASSUME TypeOK, Tree, NEW p \in Paths \cup {TheRoot},
                    IsDir(Lookup(p)),
                    \A m \in Under(Lookup(p)) \ {Lookup(p)} :
                      type[m] = "dir" => name[m] \notin Misleading
             PROVE  /\ FindEnds(p)
                    /\ Distinct(Lookup(p)) => Seen(p) = Swept(Lookup(p)) \ {Lookup(p)}
  BY DEF FindWhole, Distinct
<1>1. p \in Seq(Names) /\ p # <<>>
  <2>1. CASE p \in Paths
    BY <2>1, NamesAssumption
  <2>2. CASE p = TheRoot
    BY <2>2, NamesAssumption DEF TheRoot
  <2> QED
    BY <2>1, <2>2
<1>2. p # <<Empty>>
  BY DEF Lookup, IsDir
<1>3. Searching(p, Lookup(p))
  BY <1>1, <1>2 DEF Searching
<1> QED
  BY <1>3, SearchEnds, SeesSwept

\* find comes to its end and sees every node below the directory, unless names
\* mislead it, whatever the tree and however it came about.
THEOREM FindIsComplete == Spec => []FindWhole
<1>1. Inv => FindWhole
  BY FindIsWhole DEF Inv
<1> QED
  BY <1>1, InitInv, StepInv, PTL DEF Spec

-----------------------------------------------------------------------------
(* What a copy is compared by.                                             *)

\* Where a node is below another one: the names on the way down.
BelowFacts == \A n \in Created :
    /\ Below(n, n) = <<>>
    /\ \A m \in Under(n) \ {n} : Below(n, m) = Append(Below(n, parent[m]), name[m])

LEMMA BelowIs == Linked /\ Tree => BelowFacts
<1> SUFFICES ASSUME Linked, Tree, NEW n \in Created
             PROVE  /\ Below(n, n) = <<>>
                    /\ \A m \in Under(n) \ {n} :
                         Below(n, m) = Append(Below(n, parent[m]), name[m])
  BY DEF BelowFacts
<1> DEFINE U == Under(n)
           Path(f, k) == IF k = n THEN <<>> ELSE Append(f[parent[k]], name[k])
           S == {j \in 0 .. POOL : \E f : \A k \in U : k <= j => f[k] = Path(f, k)}
           p == CHOOSE path : path = [k \in U |-> Path(path, k)]
<1>1. /\ n \in Nodes /\ Nodes \subseteq Nat /\ POOL \in Nat /\ U \subseteq 0 .. POOL /\ n \in U
      /\ \A k \in U \ {n} : parent[k] \in U /\ parent[k] < k
  <2>1. n \in Nodes /\ Nodes \subseteq Nat /\ POOL \in Nat /\ Nodes = 0 .. POOL
    BY RootCreated, PoolAssumption DEF Nodes
  <2>2. U \subseteq Nodes /\ \A m \in Nodes : m \in U <=> UnderStep(n, m)
    BY <2>1, UnderIs
  <2>3. n \in U
    BY <2>1, <2>2 DEF UnderStep
  <2>4. \A k \in U \ {n} : parent[k] \in U /\ parent[k] < k
    BY <2>2, ListedIs DEF UnderStep, ListedFacts
  <2> QED
    BY <2>1, <2>2, <2>3, <2>4
<1> HIDE DEF U
<1>2. 0 \in S
  <2> DEFINE g == [i \in U |-> <<>>]
  <2>1. ASSUME NEW k \in U, k <= 0 PROVE k = n
    <3>1. k = 0
      BY <1>1, <2>1
    <3>2. CASE k # n
      <4>1. parent[k] \in 0 .. POOL
        BY <1>1, <3>2
      <4>2. parent[k] < 0
        BY <1>1, <3>1, <3>2
      <4> QED
        BY <4>1, <4>2
    <3> QED
      BY <3>2
  <2>2. \A k \in U : k <= 0 => g[k] = Path(g, k)
    BY <2>1
  <2> HIDE DEF g
  <2>3. \E f : \A k \in U : k <= 0 => f[k] = Path(f, k)
    BY <2>2
  <2> QED
    BY <1>1, <2>3
<1>3. ASSUME NEW j \in 1 .. POOL, j - 1 \in S PROVE j \in S
  <2>1. PICK f : \A k \in U : k <= j - 1 => f[k] = Path(f, k)
    BY <1>3
  <2> DEFINE g == [i \in U |-> IF i = j THEN Path(f, j) ELSE f[i]]
  <2>2. ASSUME NEW k \in U, k <= j PROVE g[k] = Path(g, k)
    <3>1. CASE k = n
      <4>1. CASE k = j
        BY <3>1, <4>1
      <4>2. CASE k # j
        <5>1. k <= j - 1
          BY <1>1, <2>2, <4>2
        <5> QED
          BY <2>1, <3>1, <4>2, <5>1
      <4> QED
        BY <4>1, <4>2
    <3>2. CASE k # n
      <4>1. parent[k] \in U /\ parent[k] < k /\ parent[k] # j
        BY <1>1, <2>2, <3>2
      <4>2. g[parent[k]] = f[parent[k]]
        BY <4>1
      <4>3. g[k] = Append(f[parent[k]], name[k])
        <5>1. CASE k = j
          BY <3>2, <5>1
        <5>2. CASE k # j
          <6>1. k <= j - 1
            BY <1>1, <2>2, <5>2
          <6> QED
            BY <2>1, <3>2, <5>2, <6>1
        <5> QED
          BY <5>1, <5>2
      <4> HIDE DEF g
      <4> QED
        BY <3>2, <4>2, <4>3
    <3> QED
      BY <3>1, <3>2
  <2>3. j \in 0 .. POOL
    BY <1>1
  <2> HIDE DEF g
  <2>4. \E e : \A k \in U : k <= j => e[k] = Path(e, k)
    BY <2>2
  <2> QED
    BY <2>3, <2>4
<1>4. POOL \in S
  <2> HIDE DEF S
  <2> QED
    BY <1>1, <1>2, <1>3, Climb
<1>5. PICK f : \A k \in U : f[k] = Path(f, k)
  BY <1>1, <1>4
<1>6. \E path : path = [k \in U |-> Path(path, k)]
  <2> DEFINE g == [k \in U |-> f[k]]
  <2>1. \A k \in U : f[k] = Path(g, k)
    BY <1>1, <1>5
  <2>2. g = [k \in U |-> Path(g, k)]
    BY <2>1
  <2> QED
    BY <2>2
<1>7. p = [k \in U |-> Path(p, k)]
  BY <1>6
<1>8. \A m : Below(n, m) = p[m]
  BY DEF Below, U
<1> HIDE DEF p
<1>9. \A m \in U : p[m] = Path(p, m)
  BY <1>7
<1> QED
  BY <1>1, <1>8, <1>9 DEF U


BelowClaim == Linked /\ Tree => BelowFacts

LEMMA BelowNext == BelowClaim'
<1>1. BelowClaim
  BY BelowIs DEF BelowClaim
<1> QED
  BY <1>1, PTL

\* A step that leaves alone what is below a node.
Kept(n) ==
    /\ Under(n)' = Under(n)
    /\ \A m \in Under(n) : /\ Under(m)' = Under(m) /\ type'[m] = type[m]
                           /\ name'[m] = name[m] /\ parent'[m] = parent[m]

LEMMA ShapeKept ==
    ASSUME Linked, Tree, Linked', Tree', NEW n \in Created, n \in Created', Kept(n)
    PROVE  Shape(n)' = Shape(n)
<1> DEFINE U == Under(n)
<1>1. /\ Below(n, n) = <<>> /\ Below(n, n)' = <<>>
      /\ \A m \in U \ {n} : /\ Below(n, m) = Append(Below(n, parent[m]), name[m])
                            /\ Below(n, m)' = Append(Below(n, parent[m])', name[m])
  <2>1. BelowFacts /\ BelowFacts'
    BY BelowIs, BelowNext DEF BelowClaim
  <2> QED
    BY <2>1 DEF BelowFacts, Kept
<1>2. n \in Nodes /\ U \subseteq Nodes /\ Nodes \subseteq Nat
      /\ \A m \in U \ {n} : parent[m] \in U /\ parent[m] < m
  BY RootCreated, UnderIs, ListedIs DEF UnderStep, ListedFacts
<1> DEFINE Bad == {m \in U : Below(n, m)' # Below(n, m)}
<1>3. ASSUME Bad # {} PROVE FALSE
  <2>1. PICK m \in Bad : \A k \in Bad : m <= k
    <3>1. Bad \in SUBSET Nat
      BY <1>2
    <3> HIDE DEF Bad
    <3> QED
      BY <1>3, <3>1, Least
  <2>2. m \in U /\ m # n /\ m \in Nat
    BY <1>1, <1>2, <2>1
  <2>3. PICK q \in U : q = parent[m] /\ q < m /\ q \in Nat
    BY <1>2, <2>2
  <2>4. q \notin Bad
    BY <2>1, <2>2, <2>3
  <2>5. parent'[m] = q
    BY <2>2, <2>3 DEF Kept
  <2>6. Below(n, m)' = Append(Below(n, q)', name[m]) /\ Below(n, m) = Append(Below(n, q), name[m])
    BY <1>1, <2>2, <2>3, <2>5
  <2> QED
    BY <2>1, <2>3, <2>4, <2>6
<1>4. \A m \in U : /\ Below(n, m)' = Below(n, m) /\ type'[m] = type[m]
                   /\ Cardinality(Under(m)') = Cardinality(Under(m))
  BY <1>3 DEF Kept
<1>5. Under(n)' = U
  BY DEF Kept
<1> HIDE DEF U
<1>6. {<<Below(n, m)', type'[m], Cardinality(Under(m)')>> : m \in U}
        = {<<Below(n, m), type[m], Cardinality(Under(m))>> : m \in U}
  BY <1>4
<1> QED
  BY <1>5, <1>6 DEF Shape, U

\* Below a node of the subtree is all below it.
UnderTransFacts == \A n \in Created : \A m \in Under(n) : Under(m) \subseteq Under(n)

LEMMA UnderTrans == Linked /\ Tree => UnderTransFacts
<1> SUFFICES ASSUME Linked, Tree, NEW n \in Created, NEW m \in Under(n)
             PROVE  Under(m) \subseteq Under(n)
  BY DEF UnderTransFacts
<1>1. /\ n \in Nodes /\ m \in Nodes /\ m \in Created /\ m >= n /\ Nodes \subseteq Nat
      /\ Under(n) \in SUBSET Nodes /\ Under(m) \subseteq Nodes
  BY RootCreated, UnderIs, Down DEF DownFacts
<1>2. ASSUME NEW k \in Under(m) \ {m}, k > m, Listed(k), parent[k] \in Under(n)
      PROVE  k \in Under(n)
  <2>1. k \in Nodes /\ k > n
    BY <1>1, <1>2
  <2> QED
    BY <1>1, <1>2, <2>1, UnderIs DEF UnderStep
<1> QED
  BY <1>1, <1>2, UnderLeast DEF UnderLeastFacts


\* A step that neither takes a node out from below n nor puts one there.
Spared(n) ==
    /\ n \in Created' /\ Linked' /\ Tree'
    /\ \A m \in Under(n) : /\ type'[m] = type[m] /\ name'[m] = name[m]
                           /\ parent'[m] = parent[m] /\ (m # n => Listed(m)')
    /\ \A m \in Nodes : Listed(m)' /\ parent'[m] \in Under(n)
                          => Listed(m) /\ parent[m] = parent'[m]

LEMMA UnderKept ==
    ASSUME Linked, Tree, NEW n \in Created, NEW m \in Under(n), Spared(n)
    PROVE  Under(m)' = Under(m)
<1> DEFINE U == Under(m)
<1>0. Linked' /\ Tree'
  BY DEF Spared
<1>1. /\ UnderFacts /\ UnderLeastFacts /\ DownFacts
      /\ UnderFacts' /\ UnderLeastFacts' /\ UnderTransFacts
  BY <1>0, Walks, WalksNext, UnderTrans DEF WalksClaim
<1>2. /\ m \in Nodes /\ m \in Created /\ U \subseteq Under(n) /\ U \in SUBSET Nodes /\ m \in U
      /\ n \in Nat /\ m \in Nat /\ m >= n /\ Nodes \subseteq Nat
  <2>1. m \in Created /\ m >= n /\ U \subseteq Under(n)
    BY <1>1 DEF DownFacts, UnderTransFacts
  <2>2. Created \subseteq Nodes /\ Nodes \subseteq Nat
    BY RootCreated
  <2> QED
    BY <1>1, <2>1, <2>2 DEF UnderFacts, DownFacts
<1>3. /\ \A k \in Nodes : k \in U <=> k = m \/ (k > m /\ Listed(k) /\ parent[k] \in U)
      /\ U' \in SUBSET Nodes
      /\ \A k \in Nodes : k \in U' <=> k = m \/ (k > m /\ Listed(k)' /\ parent'[k] \in U')
      /\ \A S \in SUBSET Nodes :
           /\ m \in S
           /\ \A k \in U \ {m} : k > m /\ Listed(k) /\ parent[k] \in U \cap S => k \in S
           => U \subseteq S
      /\ \A S \in SUBSET Nodes :
           /\ m \in S
           /\ \A k \in U' \ {m} : k > m /\ Listed(k)' /\ parent'[k] \in U' \cap S => k \in S
           => U' \subseteq S
  BY <1>1, <1>2 DEF UnderFacts, UnderStep, UnderLeastFacts, Nodes
<1>4. \A k \in U \ {m} : Listed(k)' /\ parent'[k] = parent[k]
  <2> SUFFICES ASSUME NEW k \in U \ {m} PROVE Listed(k)' /\ parent'[k] = parent[k]
    OBVIOUS
  <2>1. k \in Under(n) /\ k > m /\ k \in Nat
    BY <1>2, <1>3
  <2>2. k # n
    BY <1>2, <2>1
  <2> QED
    BY <2>1, <2>2 DEF Spared
<1>5. \A k \in Nodes : Listed(k)' /\ parent'[k] \in U => Listed(k) /\ parent[k] \in U
  BY <1>2 DEF Spared
<1> DEFINE V == U'
<1> HIDE DEF U
<1>6. U \subseteq V
  <2> HIDE DEF V
  <2>1. \A k \in Nodes : k \in V <=> k = m \/ (k > m /\ Listed(k)' /\ parent'[k] \in V)
    BY <1>3 DEF V
  <2>2. V \in SUBSET Nodes /\ m \in V
    <3>1. V \in SUBSET Nodes
      BY <1>3 DEF V
    <3> QED
      BY <1>2, <2>1, <3>1
  <2>3. \A k \in U \ {m} : k > m /\ Listed(k) /\ parent[k] \in U \cap V => k \in V
    BY <1>2, <1>4, <2>1
  <2> QED
    BY <1>3, <2>2, <2>3
<1>7. V \subseteq U
  <2> HIDE DEF V
  <2>1. V \in SUBSET Nodes /\ U \in SUBSET Nodes /\ m \in U
    BY <1>2, <1>3 DEF V
  <2>2. \A k \in V \ {m} : k > m /\ Listed(k)' /\ parent'[k] \in V \cap U => k \in U
    BY <1>3, <1>5, <2>1
  <2>3. \A S \in SUBSET Nodes :
           /\ m \in S
           /\ \A k \in V \ {m} : k > m /\ Listed(k)' /\ parent'[k] \in V \cap S => k \in S
           => V \subseteq S
    BY <1>3 DEF V
  <2> QED
    BY <2>1, <2>2, <2>3
<1> QED
  BY <1>6, <1>7 DEF U, V

LEMMA SparedKept ==
    ASSUME Linked, Tree, NEW n \in Created, Spared(n)
    PROVE  /\ Kept(n) /\ Shape(n)' = Shape(n)
           /\ \A m \in Under(n) : Spared(m) /\ m \in Created
<1>1. DownFacts /\ UnderTransFacts
  BY Walks, UnderTrans
<1>2. n \in Under(n) /\ Under(n) \subseteq Created /\ Under(n) \subseteq Nodes
      /\ Created \subseteq Nodes /\ Nodes \subseteq Nat
  BY <1>1, RootCreated DEF DownFacts
<1>3. Kept(n)
  <2>1. \A m \in Under(n) : Under(m)' = Under(m)
    BY UnderKept
  <2>2. \A m \in Under(n) : type'[m] = type[m] /\ name'[m] = name[m] /\ parent'[m] = parent[m]
    BY DEF Spared
  <2> QED
    BY <1>2, <2>1, <2>2 DEF Kept
<1>4. Shape(n)' = Shape(n)
  <2>1. Linked' /\ Tree' /\ n \in Created'
    BY DEF Spared
  <2> QED
    BY <1>3, <2>1, ShapeKept
<1>5. ASSUME NEW m \in Under(n) PROVE Spared(m) /\ m \in Created
  <2>1. Under(m) \subseteq Under(n) /\ m \in Created
    BY <1>1, <1>2 DEF UnderTransFacts
  <2>2. Under(n)' = Under(n) /\ DownFacts' /\ Linked' /\ Tree' /\ n \in Created'
    BY <1>3, WalksNext DEF Spared, Kept, WalksClaim
  <2>3. m \in Created'
    BY <2>2 DEF DownFacts
  <2>4. \A k \in Under(m) \ {m} : k # n
    <3> SUFFICES ASSUME NEW k \in Under(m) \ {m} PROVE k # n
      OBVIOUS
    <3>1. m \in Nodes /\ m \in Nat /\ k \in Nodes /\ k \in Nat /\ n \in Nat
      BY <1>2, <2>1
    <3>2. k > m
      BY <3>1, Walks DEF UnderFacts, UnderStep
    <3>3. m >= n
      BY <1>1 DEF DownFacts
    <3> QED
      BY <3>1, <3>2, <3>3
  <2> QED
    BY <2>1, <2>2, <2>3, <2>4 DEF Spared
<1> QED
  BY <1>3, <1>4, <1>5

\* A node that is created elsewhere spares a subtree.
LEMMA AddSpares ==
    ASSUME TypeOK, Tree, Room, NEW nm \in Names, NEW ty \in Types,
           NEW d \in Created, NEW tgt \in Blocks \cup {Null},
           AddNode(nm, ty, d, tgt), NEW n \in Created, d \notin Under(n)
    PROVE  Spared(n)
<1>1. PICK k : k = pool_idx + 1 /\ Added(k, d)
  BY AddLists
<1>2. Linked /\ Linked' /\ Tree'
  BY AddLists
<1>3. Under(n) \subseteq Created /\ Created \subseteq Nodes /\ n \in Nodes
  BY <1>2, RootCreated, Walks DEF DownFacts
<1>4. n \in Created'
  <2>1. Created \subseteq Created'
    BY AddKeeps
  <2> QED
    BY <2>1
<1>5. ASSUME NEW m \in Under(n)
      PROVE  /\ type'[m] = type[m] /\ name'[m] = name[m]
             /\ parent'[m] = parent[m] /\ (m # n => Listed(m)')
  <2>1. m \in Nodes /\ m # k
    BY <1>1, <1>3 DEF Added
  <2>2. type'[m] = type[m] /\ name'[m] = name[m]
    BY <1>1, <2>1 DEF AddNode, TypeOK
  <2>3. parent'[m] = parent[m] /\ (Listed(m)' <=> Listed(m))
    BY <1>1, <2>1 DEF Added
  <2>4. m # n => Listed(m)
    BY <1>2, <1>3, <2>1, Walks DEF UnderFacts, UnderStep
  <2> QED
    BY <2>2, <2>3, <2>4
<1>6. ASSUME NEW m \in Nodes, Listed(m)', parent'[m] \in Under(n)
      PROVE  Listed(m) /\ parent[m] = parent'[m]
  <2>1. m # k
    BY <1>1, <1>6 DEF Added
  <2> QED
    BY <1>1, <1>6, <2>1 DEF Added
<1> QED
  BY <1>2, <1>4, <1>5, <1>6 DEF Spared

\* So does the removal of a node that is not below it.
LEMMA RemoveSpares ==
    ASSUME TypeOK, Tree, NEW d \in Created, NEW i \in 1 .. Len(children[d]),
           NEW t, t = children[d][i], Remove(d, i), NEW n \in Created, t \notin Under(n)
    PROVE  Spared(n)
<1>1. /\ Linked /\ Linked' /\ Tree' /\ parent' = parent
      /\ \A m \in Nodes : Listed(m)' <=> Listed(m) /\ m # t
  BY RemoveLists
<1>2. Under(n) \subseteq Created /\ Created \subseteq Nodes /\ n \in Nodes
  BY <1>1, RootCreated, Walks DEF DownFacts
<1>3. n \in Created'
  BY DEF Remove, Created
<1>4. ASSUME NEW m \in Under(n)
      PROVE  /\ type'[m] = type[m] /\ name'[m] = name[m]
             /\ parent'[m] = parent[m] /\ (m # n => Listed(m)')
  <2>1. m \in Nodes /\ m # t
    BY <1>2
  <2>2. type'[m] = type[m] /\ name'[m] = name[m]
    BY <2>1 DEF Remove, TypeOK
  <2>3. m # n => Listed(m)
    BY <1>1, <1>2, <2>1, Walks DEF UnderFacts, UnderStep
  <2> QED
    BY <1>1, <2>1, <2>2, <2>3
<1> QED
  BY <1>1, <1>3, <1>4 DEF Spared

\* And a step that leaves the tree alone.
LEMMA QuietSpares ==
    ASSUME Linked, Tree, UNCHANGED tree, NEW n \in Created
    PROVE  Spared(n)
<1>1. /\ Linked' /\ Tree' /\ n \in Created' /\ parent' = parent /\ type' = type /\ name' = name
      /\ \A m \in Nodes : Listed(m)' <=> Listed(m)
  BY DEF tree, Linked, Tree, ParentOlder, ListsAgree, Created, Listed
<1>2. Under(n) \subseteq Nodes /\ \A m \in Under(n) : m # n => Listed(m)
  BY RootCreated, Walks DEF UnderFacts, UnderStep, DownFacts
<1> QED
  BY <1>1, <1>2 DEF Spared


-----------------------------------------------------------------------------
(* A copy, while it is made.                                               *)

\* A copy takes the last nodes of the pool, from its first one on.
Copies(f) == f .. pool_idx

\* Each of them is the copy of a node of the source, o says of which.
Mirrored(s, f, o) ==
    /\ s \in Under(Root) /\ f \in Under(Root) /\ s < f
    /\ o \in [Copies(f) -> Under(s)] /\ o[f] = s /\ type[f] = type[s]
    /\ \A n \in Copies(f) : n \notin Under(s)
    /\ \A n \in Copies(f) \ {f} :
         /\ parent[n] \in Copies(f) /\ Listed(n)
         /\ o[n] # s /\ parent[o[n]] = o[parent[n]]
         /\ name[n] = name[o[n]] /\ type[n] = type[o[n]]
    /\ \A n, m \in Copies(f) : o[n] = o[m] => n = m

\* What is left to do: each node once, of which there is no copy yet, but of its
\* parent; and no child of a node that was copied is forgotten.
Asked(s, f, o, it) ==
    /\ it.deep /\ it.src \in Under(s) \ {s} /\ it.dst \in Copies(f)
    /\ o[it.dst] = parent[it.src] /\ it.name = name[it.src]
    /\ \A n \in Copies(f) : o[n] # it.src

Pending(s, f, o) ==
    /\ \A i \in 1 .. Len(todo) :
         /\ Asked(s, f, o, todo[i])
         /\ \A j \in 1 .. Len(todo) : j # i => todo[j].src # todo[i].src
    /\ \A n \in Copies(f) : \A c \in Nodes : Listed(c) /\ parent[c] = o[n] =>
         \/ \E m \in Copies(f) : o[m] = c
         \/ \E i \in 1 .. Len(todo) : todo[i].src = c

\* The nodes of the copy are those below its first one.
LEMMA CopiesUnder ==
    ASSUME Linked, Tree, NEW s, NEW f, NEW o, Mirrored(s, f, o)
    PROVE  /\ s \in Created /\ f \in Created /\ Copies(f) \in SUBSET Nodes
           /\ f \in Copies(f) /\ \A n \in Copies(f) : n \in Created /\ f <= n
           /\ Under(f) = Copies(f)
<1>1. /\ Root \in Created /\ Created \subseteq Nodes /\ Nodes \subseteq Nat /\ pool_idx \in Nat
      /\ UnderFacts /\ DownFacts /\ ListedFacts
  BY RootCreated, Walks DEF Linked
<1>2. s \in Created /\ f \in Created
  BY <1>1 DEF Mirrored, DownFacts
<1>3. Copies(f) \in SUBSET Nodes /\ f \in Copies(f) /\ \A n \in Copies(f) : n \in Created /\ f <= n
  BY <1>1, <1>2, PoolAssumption DEF Copies, Created, Nodes, Linked
<1>4. Under(f) \subseteq Copies(f)
  <2> SUFFICES ASSUME NEW n \in Under(f) PROVE n \in Copies(f)
    OBVIOUS
  <2>1. n \in Created /\ n >= f
    BY <1>1, <1>2 DEF DownFacts
  <2> QED
    BY <1>1, <1>2, <2>1 DEF Copies, Created
<1> DEFINE Bad == Copies(f) \ Under(f)
<1>5. ASSUME Bad # {} PROVE FALSE
  <2>1. PICK n \in Bad : \A k \in Bad : n <= k
    <3>1. Bad \in SUBSET Nat
      BY <1>1, <1>3
    <3> HIDE DEF Bad
    <3> QED
      BY <1>5, <3>1, Least
  <2>2. n \in Copies(f) /\ n \notin Under(f) /\ n \in Nodes /\ n \in Nat
    BY <1>1, <1>3, <2>1
  <2>3. n # f
    BY <1>1, <1>2, <2>2 DEF DownFacts
  <2>4. PICK q : q = parent[n] /\ q \in Copies(f) /\ Listed(n)
    BY <2>2, <2>3 DEF Mirrored
  <2>5. q < n /\ q \in Nat
    BY <1>1, <1>3, <2>2, <2>4 DEF ListedFacts
  <2>6. q \in Under(f)
    BY <2>1, <2>2, <2>4, <2>5
  <2>7. n > f
    BY <1>1, <1>2, <1>3, <2>2, <2>3
  <2> QED
    BY <1>1, <1>2, <2>2, <2>4, <2>6, <2>7 DEF UnderFacts, UnderStep
<1> QED
  BY <1>2, <1>3, <1>4, <1>5

\* When nothing is left to do, every node of the source was copied.
LEMMA AllCopied ==
    ASSUME Linked, Tree, NEW s, NEW f, NEW o, Mirrored(s, f, o), Pending(s, f, o), todo = <<>>
    PROVE  \A y \in Under(s) : \E n \in Copies(f) : o[n] = y
<1> DEFINE Image == {y \in Under(s) : \E n \in Copies(f) : o[n] = y}
<1>1. s \in Created /\ s \in Nodes /\ f \in Copies(f)
  BY CopiesUnder, RootCreated
<1>2. Under(s) \in SUBSET Nodes /\ s \in Under(s)
  BY <1>1, Walks DEF UnderFacts, DownFacts
<1>3. Image \in SUBSET Nodes /\ s \in Image
  BY <1>1, <1>2 DEF Mirrored
<1>4. ASSUME NEW m \in Under(s) \ {s}, m > s, Listed(m), parent[m] \in Under(s) \cap Image
      PROVE  m \in Image
  <2>1. PICK n \in Copies(f) : o[n] = parent[m]
    BY <1>4
  <2>2. Len(todo) = 0
    OBVIOUS
  <2>3. m \in Nodes
    BY <1>2
  <2>4. \E k \in Copies(f) : o[k] = m
    BY <1>4, <2>1, <2>2, <2>3 DEF Pending
  <2> QED
    BY <2>4
<1> HIDE DEF Image
<1>5. Under(s) \subseteq Image
  BY <1>1, <1>3, <1>4, UnderLeast DEF UnderLeastFacts
<1> QED
  BY <1>5 DEF Image

\* The copies below a node of the copy are the copies of what is below the node
\* that it is a copy of.
LEMMA CopiesBelow ==
    ASSUME Linked, Tree, NEW s, NEW f, NEW o, Mirrored(s, f, o), Pending(s, f, o), todo = <<>>,
           NEW n \in Copies(f)
    PROVE  Cardinality(Under(n)) = Cardinality(Under(o[n]))
<1> DEFINE U == Under(n)
           V == Under(o[n])
           y == o[n]
           C == Copies(f)
<1>1. /\ Root \in Created /\ Created \subseteq Nodes /\ Nodes \subseteq Nat
      /\ UnderFacts /\ DownFacts /\ ListedFacts /\ UnderLeastFacts /\ UnderTransFacts
  BY RootCreated, Walks, UnderTrans
<1>2. /\ s \in Created /\ f \in Created /\ C \in SUBSET Nodes /\ f \in C
      /\ \A k \in C : k \in Created /\ f <= k
      /\ Under(f) = C
  BY CopiesUnder
<1>3. /\ o \in [C -> Under(s)] /\ o[f] = s
      /\ \A k \in C \ {f} : parent[k] \in C /\ Listed(k) /\ o[k] # s /\ parent[o[k]] = o[parent[k]]
      /\ \A k, m \in C : o[k] = o[m] => k = m
  BY DEF Mirrored
<1>4. /\ n \in Nodes /\ n \in Created /\ U \subseteq C /\ U \in SUBSET Nodes /\ n \in U
      /\ y \in Under(s) /\ y \in Created /\ y \in Nodes /\ y \in V /\ V \in SUBSET Nodes /\ V \subseteq Under(s)
  <2>1. n \in Nodes /\ n \in Created
    BY <1>2
  <2>2. n \in U /\ U \in SUBSET Nodes
    BY <1>1, <2>1 DEF UnderFacts, DownFacts
  <2>3. U \subseteq C
    BY <1>1, <1>2 DEF UnderTransFacts
  <2>4. y \in Under(s)
    BY <1>3
  <2>5. y \in Created
    BY <1>1, <1>2, <2>4 DEF DownFacts
  <2>6. y \in Nodes /\ y \in V /\ V \in SUBSET Nodes
    BY <1>1, <2>5 DEF UnderFacts, DownFacts
  <2>7. V \subseteq Under(s)
    BY <1>1, <1>2, <2>4 DEF UnderTransFacts
  <2> QED
    BY <2>1, <2>2, <2>3, <2>4, <2>5, <2>6, <2>7
<1>5. /\ \A k \in Nodes : k \in U <=> k = n \/ (k > n /\ Listed(k) /\ parent[k] \in U)
      /\ \A k \in Nodes : k \in V <=> k = y \/ (k > y /\ Listed(k) /\ parent[k] \in V)
      /\ \A k \in Nodes : k \in Under(s) <=> k = s \/ (k > s /\ Listed(k) /\ parent[k] \in Under(s))
  <2>1. s \in Nodes
    BY <1>1, <1>2
  <2> QED
    BY <1>1, <1>4, <2>1 DEF UnderFacts, UnderStep
<1>6. \A z \in Under(s) : \E k \in C : o[k] = z
  BY AllCopied
<1>7. \A k \in C \ {f} : k \in Nodes /\ k \in Nat /\ parent[k] \in Nat /\ parent[k] < k
  BY <1>1, <1>2, <1>3 DEF ListedFacts
<1>8. \A k \in U \ {n} : k \in C \ {f} /\ parent[k] \in U
  <2> SUFFICES ASSUME NEW k \in U \ {n} PROVE k \in C \ {f} /\ parent[k] \in U
    OBVIOUS
  <2>1. k \in Nodes /\ k > n /\ parent[k] \in U
    BY <1>4, <1>5
  <2>2. f \in Nat /\ n \in Nat /\ k \in Nat /\ f <= n
    BY <1>1, <1>2, <1>4, <2>1
  <2> QED
    BY <1>4, <2>1, <2>2
<1> HIDE DEF U, V, C, y
<1>9. \A k \in U : o[k] \in V
  <2> DEFINE S == {k \in U : o[k] \in V}
  <2>1. S \in SUBSET Nodes /\ n \in S
    BY <1>4 DEF y
  <2>2. ASSUME NEW m \in U \ {n}, parent[m] \in U \cap S PROVE m \in S
    <3>1. m \in C \ {f}
      BY <1>8, <2>2
    <3>2. PICK q \in C : q = parent[m]
      BY <1>3, <3>1
    <3>3. o[q] \in V /\ parent[o[m]] = o[q] /\ o[m] \in Under(s) /\ o[m] # s
      BY <1>3, <2>2, <3>1, <3>2
    <3>4. PICK z : z = o[m]
      OBVIOUS
    <3>5. s \in Nodes /\ Under(s) \subseteq Nodes
      BY <1>1, <1>2 DEF UnderFacts
    <3>6. z \in Nodes /\ Listed(z) /\ parent[z] \in V
      BY <1>5, <3>3, <3>4, <3>5
    <3>7. parent[z] \in Nat /\ parent[z] < z /\ z \in Nat
      BY <1>1, <3>6 DEF ListedFacts
    <3>8. parent[z] >= y
      BY <1>1, <1>4, <3>6 DEF DownFacts, V, y
    <3>9. y \in Nat
      BY <1>1, <1>4
    <3>10. z \in V
      BY <1>5, <3>6, <3>7, <3>8, <3>9
    <3> QED
      BY <2>2, <3>4, <3>10
  <2> HIDE DEF S
  <2>3. \A T \in SUBSET Nodes :
           /\ n \in T
           /\ \A k \in U \ {n} : k > n /\ Listed(k) /\ parent[k] \in U \cap T => k \in T
           => U \subseteq T
    BY <1>1, <1>4 DEF UnderLeastFacts, U
  <2>4. U \subseteq S
    BY <2>1, <2>2, <2>3
  <2> QED
    BY <2>4 DEF S
<1>10. \A z \in V : \E k \in U : o[k] = z
  <2> DEFINE S == {z \in V : \E k \in U : o[k] = z}
  <2>1. S \in SUBSET Nodes /\ y \in S
    BY <1>4 DEF y
  <2>2. ASSUME NEW z \in V \ {y}, z > y, parent[z] \in V \cap S PROVE z \in S
    <3>1. PICK k \in C : o[k] = z
      BY <1>4, <1>6, <2>2
    <3>2. k # f
      <4>1. z \in Nat /\ y \in Nat /\ s \in Nat
        BY <1>1, <1>2, <1>4, <2>2
      <4>2. y >= s
        BY <1>1, <1>2, <1>4 DEF DownFacts
      <4> QED
        BY <1>3, <2>2, <3>1, <4>1, <4>2
    <3>3. PICK q \in C : q = parent[k]
      BY <1>3, <3>1, <3>2
    <3>4. parent[z] = o[q]
      BY <1>3, <3>1, <3>2, <3>3
    <3>5. PICK r \in U : o[r] = parent[z]
      BY <2>2
    <3>6. r = q
      BY <1>3, <1>4, <3>3, <3>4, <3>5
    <3>7. k \in Nodes /\ k \in Nat /\ q \in Nat /\ q < k /\ Listed(k)
      BY <1>1, <1>3, <1>7, <3>1, <3>2, <3>3
    <3>8. q >= n /\ n \in Nat
      BY <1>1, <1>4, <3>5, <3>6 DEF DownFacts, U
    <3>9. k \in U
      BY <1>5, <3>3, <3>5, <3>6, <3>7, <3>8
    <3> QED
      BY <2>2, <3>1, <3>9
  <2> HIDE DEF S
  <2>3. \A T \in SUBSET Nodes :
           /\ y \in T
           /\ \A k \in V \ {y} : k > y /\ Listed(k) /\ parent[k] \in V \cap T => k \in T
           => V \subseteq T
    BY <1>1, <1>4 DEF UnderLeastFacts, V, y
  <2>4. V \subseteq S
    BY <2>1, <2>2, <2>3
  <2> QED
    BY <2>4 DEF S
<1> DEFINE b == [k \in U |-> o[k]]
<1>11. b \in Bijection(U, V)
  <2>1. b \in [U -> V]
    BY <1>9
  <2>2. \A z \in V : \E k \in U : b[k] = z
    BY <1>10
  <2>3. \A k, m \in U : b[k] = b[m] => k = m
    BY <1>3, <1>4
  <2> HIDE DEF b
  <2> QED
    BY <2>1, <2>2, <2>3, Zenon DEF Bijection, Injection, Surjection, IsInjective
<1>12. IsFiniteSet(U)
  <2>1. IsFiniteSet(Nodes)
    BY FS_Interval, PoolAssumption DEF Nodes
  <2> QED
    BY <1>4, <2>1, FS_Subset
<1>13. ExistsBijection(U, V)
  BY <1>11 DEF ExistsBijection
<1>14. Cardinality(U) = Cardinality(V)
  BY <1>12, <1>13, FS_Bijection
<1> QED
  BY <1>14 DEF U, V


\* A copy is in its tree where its source is below the source's first node.
LEMMA CopiesNamed ==
    ASSUME Linked, Tree, NEW s, NEW f, NEW o, Mirrored(s, f, o)
    PROVE  \A n \in Copies(f) : Below(f, n) = Below(s, o[n]) /\ type[n] = type[o[n]]
<1>1. /\ s \in Created /\ f \in Created /\ Copies(f) \in SUBSET Nodes /\ f \in Copies(f)
      /\ Under(f) = Copies(f)
  BY CopiesUnder
<1>2. BelowFacts /\ ListedFacts /\ Nodes \subseteq Nat
  BY BelowIs, ListedIs, RootCreated
<1>3. /\ o \in [Copies(f) -> Under(s)] /\ o[f] = s /\ type[f] = type[s]
      /\ \A n \in Copies(f) \ {f} :
           /\ parent[n] \in Copies(f) /\ Listed(n)
           /\ o[n] # s /\ parent[o[n]] = o[parent[n]]
           /\ name[n] = name[o[n]] /\ type[n] = type[o[n]]
  BY DEF Mirrored
<1> DEFINE Bad == {n \in Copies(f) : Below(f, n) # Below(s, o[n])}
<1>4. ASSUME Bad # {} PROVE FALSE
  <2>1. PICK n \in Bad : \A k \in Bad : n <= k
    <3>1. Bad \in SUBSET Nat
      BY <1>1, <1>2
    <3> HIDE DEF Bad
    <3> QED
      BY <1>4, <3>1, Least
  <2>2. n \in Copies(f) /\ Below(f, n) # Below(s, o[n]) /\ n \in Nodes
    BY <1>1, <2>1
  <2>3. n # f
    BY <1>1, <1>2, <1>3, <2>2 DEF BelowFacts
  <2>4. PICK q \in Copies(f) : q = parent[n]
    BY <1>3, <2>2, <2>3
  <2>5. q < n /\ q \in Nat /\ n \in Nat
    BY <1>1, <1>2, <1>3, <2>2, <2>3, <2>4 DEF ListedFacts
  <2>6. Below(f, q) = Below(s, o[q])
    BY <2>1, <2>4, <2>5
  <2>7. Below(f, n) = Append(Below(f, q), name[n])
    BY <1>1, <1>2, <2>2, <2>3, <2>4 DEF BelowFacts
  <2>8. Below(s, o[n]) = Append(Below(s, o[q]), name[o[n]])
    <3>1. PICK y \in Under(s) \ {s} : y = o[n]
      BY <1>3, <2>2, <2>3
    <3>2. Below(s, y) = Append(Below(s, parent[y]), name[y])
      BY <1>1, <1>2, <3>1 DEF BelowFacts
    <3>3. parent[y] = o[q]
      BY <1>3, <2>2, <2>3, <2>4, <3>1
    <3> QED
      BY <3>1, <3>2, <3>3
  <2> QED
    BY <1>3, <2>2, <2>3, <2>6, <2>7, <2>8
<1> QED
  BY <1>3, <1>4

LEMMA ShapeCopied ==
    ASSUME Linked, Tree, NEW s, NEW f, NEW o, Mirrored(s, f, o), Pending(s, f, o), todo = <<>>
    PROVE  Shape(f) = Shape(s)
<1>1. Under(f) = Copies(f)
  BY CopiesUnder
<1> DEFINE At(n) == <<Below(f, n), type[n], Cardinality(Under(n))>>
           Of(y) == <<Below(s, y), type[y], Cardinality(Under(y))>>
<1>2. \A n \in Copies(f) : At(n) = Of(o[n])
  BY CopiesNamed, CopiesBelow
<1>3. \A n \in Copies(f) : o[n] \in Under(s)
  BY DEF Mirrored
<1>4. \A y \in Under(s) : \E n \in Copies(f) : o[n] = y
  BY AllCopied
<1> HIDE DEF At, Of
<1>5. {At(n) : n \in Copies(f)} = {Of(y) : y \in Under(s)}
  <2>1. ASSUME NEW n \in Copies(f) PROVE At(n) \in {Of(y) : y \in Under(s)}
    BY <1>2, <1>3
  <2>2. ASSUME NEW y \in Under(s) PROVE Of(y) \in {At(n) : n \in Copies(f)}
    <3>1. PICK n \in Copies(f) : o[n] = y
      BY <1>4
    <3> QED
      BY <1>2, <3>1
  <2> QED
    BY <2>1, <2>2
<1> QED
  BY <1>1, <1>5 DEF Shape, At, Of

\* The copy of a file is one node, whatever is linked below the file.
LEMMA ShapeAlone ==
    ASSUME Linked, Tree, NEW s, NEW f, NEW o, Mirrored(s, f, o), pool_idx = f
    PROVE  Shape(f) = {<<<<>>, type[s], 1>>}
<1>1. f \in Created /\ Under(f) = Copies(f)
  BY CopiesUnder
<1>2. Under(f) = {f}
  <2>1. f \in Nat
    BY <1>1, RootCreated
  <2>2. Copies(f) = {f}
    BY <2>1 DEF Copies
  <2> QED
    BY <1>1, <2>2
<1>3. Below(f, f) = <<>>
  BY <1>1, BelowIs DEF BelowFacts
<1>4. Cardinality({f}) = 1
  BY FS_Singleton
<1>5. type[f] = type[s]
  BY DEF Mirrored
<1> QED
  BY <1>2, <1>3, <1>4, <1>5 DEF Shape


\* A copy that has not made a node yet, or could not.
Waiting(s, deep) ==
    IF job.failed THEN todo = <<>>
    ELSE \E d \in Under(Root) \ Under(s) :
           Len(todo) = 1 /\ todo[1].src = s /\ todo[1].dst = d /\ todo[1].deep = deep

\* One that has.
Underway(s, f, deep) ==
    /\ ~job.failed
    /\ \E o : Mirrored(s, f, o) /\ IF deep THEN Pending(s, f, o) ELSE todo = <<>> /\ pool_idx = f

Wanted(s, deep) ==
    /\ s \in Under(Root) /\ deep \in BOOLEAN
    /\ job.want = IF deep THEN Shape(s) ELSE {<<<<>>, type[s], 1>>}
    /\ job.op = "mv" => job.src = s

\* A copy that has not failed in the middle, and is not put into its source.
Proper == phase = "copy" /\ ~job.inside /\ (job.failed => job.first = Null)

CopyInv == Proper =>
    \E s, deep : /\ Wanted(s, deep)
                 /\ job.first = Null => Waiting(s, deep)
                 /\ job.first # Null => Underway(s, job.first, deep)

\* So what CopyWhole claims holds when the copy is done.
LEMMA CopiedWhole == TypeOK /\ Tree /\ CopyInv => CopyWhole
<1> SUFFICES ASSUME TypeOK, Tree, CopyInv,
                    phase = "copy", todo = <<>>, ~job.failed, ~job.inside
             PROVE  Shape(job.first) = job.want
  BY DEF CopyWhole
<1>1. PICK s, deep : /\ Wanted(s, deep)
                     /\ job.first = Null => Waiting(s, deep)
                     /\ job.first # Null => Underway(s, job.first, deep)
  BY DEF CopyInv, Proper
<1>2. Linked /\ Len(todo) = 0
  BY DEF TypeOK, Linked
<1>3. job.first # Null
  BY <1>1, <1>2 DEF Waiting
<1>4. PICK f : f = job.first
  OBVIOUS
<1>5. Underway(s, f, deep)
  BY <1>1, <1>3, <1>4
<1>6. PICK o : Mirrored(s, f, o) /\ IF deep THEN Pending(s, f, o) ELSE todo = <<>> /\ pool_idx = f
  BY <1>5 DEF Underway
<1>7. CASE deep
  BY <1>1, <1>2, <1>4, <1>6, <1>7, ShapeCopied DEF Wanted
<1>8. CASE ~deep
  BY <1>1, <1>2, <1>4, <1>6, <1>8, ShapeAlone DEF Wanted
<1> QED
  BY <1>1, <1>7, <1>8 DEF Wanted

\* The node a copy is asked to make next, and what it is asked to make then.
Made(n, it, kids) ==
    /\ n = pool_idx + 1 /\ pool_idx' = n /\ n \in Under(Root)' /\ Added(n, it.dst)
    /\ todo \in Seq(Items) /\ todo # <<>> /\ it = todo[1] /\ it \in Items
    /\ it.src \in Under(Root) /\ it.dst \in Under(Root) /\ it.name \in Names
    /\ Room /\ AddNode(it.name, type[it.src], it.dst, Null)
    /\ name'[n] = it.name /\ type'[n] = type[it.src] /\ type[it.src] \in Types \ {"gone"}
    /\ \A m \in Created : type'[m] = type[m] /\ name'[m] = name[m]
    /\ kids = children'[it.src] /\ todo' = ChildrenToCopy(it, n, kids) \o Tail(todo)

LEMMA NextCopy ==
    ASSUME TreeInv, CopyNode
    PROVE  /\ Linked /\ Linked' /\ Tree /\ Tree' /\ Under(Root) \subseteq Under(Root)'
           /\ \E n, it, kids : Made(n, it, kids)
<1>0. TypeOK /\ Tree /\ Linked /\ NothingFreed
  BY DEF TreeInv, Inv, TypeOK, Linked
<1>1. PICK it : it = todo[1]
  OBVIOUS
<1>2. /\ todo \in Seq(Items) /\ todo # <<>> /\ Head(todo) = it /\ 1 \in 1 .. Len(todo) /\ it \in Items
  BY <1>0, <1>1 DEF CopyNode, TypeOK
<1>3. PICK n, kids : n = pool_idx + 1 /\ kids = children'[it.src]
  OBVIOUS
<1>4. /\ Room /\ AddNode(it.name, type[it.src], it.dst, Null) /\ used' = used
      /\ todo' = ChildrenToCopy(it, n, kids) \o Tail(todo)
  BY <1>2, <1>3 DEF CopyNode, LinkCopy
<1>5. it.src \in Under(Root) /\ it.dst \in Under(Root)
  BY <1>1, <1>2 DEF TreeInv, TodoInTree
<1>6. it.name \in Names /\ type[it.src] \in Types \ {"gone"} /\ it.src \in Nodes
  BY <1>0, <1>2, <1>5 DEF NothingFreed, Items, TypeOK
<1>7. it.dst \in Created /\ Created \subseteq Nodes
  BY <1>0, <1>5, RootCreated, Walks DEF DownFacts
<1>8. Linked' /\ Tree' /\ Added(n, it.dst)
  BY <1>0, <1>3, <1>4, <1>6, <1>7, AddLists
<1>9. Under(Root)' = Under(Root) \cup {n}
  BY <1>0, <1>3, <1>4, <1>5, <1>6, AddReaches
<1>10. pool_idx' = n /\ name'[n] = it.name /\ type'[n] = type[it.src]
       /\ \A m \in Created : type'[m] = type[m] /\ name'[m] = name[m]
  <2>1. n \in Nodes /\ n \notin Created
    BY <1>8 DEF Added
  <2>2. /\ pool_idx' = pool_idx + 1
        /\ name' = [name EXCEPT ![n] = it.name]
        /\ type' = [type EXCEPT ![n] = type[it.src]]
    BY <1>3, <1>4 DEF AddNode
  <2> QED
    BY <1>0, <1>3, <1>7, <2>1, <2>2 DEF TypeOK
<1>11. Made(n, it, kids)
  BY <1>1, <1>2, <1>3, <1>4, <1>5, <1>6, <1>8, <1>9, <1>10 DEF Made
<1> QED
  BY <1>0, <1>8, <1>9, <1>11

\* The list of what is left to do: the children of the node first, then the rest.
NewItem(it, n, c) ==
    [src |-> c, dst |-> n, deep |-> TRUE, name |-> IF c = n THEN it.name ELSE name[c]]

Lengthened(it, n, kids, a) ==
    /\ a \in Nat /\ Len(todo) \in Nat /\ Len(todo') = a + (Len(todo) - 1)
    /\ \A i \in 1 .. a : i \in 1 .. Len(todo') /\ todo'[i] = NewItem(it, n, kids[i])
    /\ \A i \in 1 .. Len(todo') : i > a =>
         (i - a) + 1 \in 2 .. Len(todo) /\ todo'[i] = todo[(i - a) + 1]
    /\ \A j \in 2 .. Len(todo) :
         (a + j) - 1 \in 1 .. Len(todo') /\ todo'[(a + j) - 1] = todo[j]

LEMMA NextTodo ==
    ASSUME NEW n, NEW it, NEW kids \in Seq(Nodes), Made(n, it, kids)
    PROVE  /\ it.deep => Lengthened(it, n, kids, Len(kids))
           /\ ~it.deep /\ Len(todo) = 1 => todo' = <<>>
<1> DEFINE new == ChildrenToCopy(it, n, kids)
           rest == Tail(todo)
<1>1. todo \in Seq(Items) /\ todo # <<>> /\ todo' = new \o rest
  BY DEF Made
<1>2. /\ Len(todo) \in Nat /\ Len(todo) >= 1 /\ Len(rest) = Len(todo) - 1 /\ rest \in Seq(Items)
      /\ \A i \in 1 .. Len(todo) - 1 : rest[i] = todo[i + 1]
  BY <1>1
<1> HIDE DEF rest
<1>3. ASSUME it.deep PROVE Lengthened(it, n, kids, Len(kids))
  <2> DEFINE item(i) == NewItem(it, n, kids[i])
             S == Items \cup {item(i) : i \in 1 .. Len(kids)}
  <2>1. new = [i \in 1 .. Len(kids) |-> item(i)] /\ Len(kids) \in Nat
    BY <1>3 DEF ChildrenToCopy, NewItem
  <2>2. PICK a \in Nat : a = Len(kids)
    BY <2>1
  <2> HIDE DEF item
  <2>3. \A i \in 1 .. a : item(i) \in S
    BY <2>2
  <2> HIDE DEF S
  <2>4. new \in Seq(S) /\ Len(new) = a /\ \A i \in 1 .. a : new[i] = item(i)
    BY <2>1, <2>2, <2>3
  <2>5. rest \in Seq(S)
    <3>1. \A i \in 1 .. Len(rest) : rest[i] \in S
      BY <1>2 DEF S
    <3> QED
      BY <1>2, <3>1
  <2> HIDE DEF new
  <2>6. PICK b \in Nat : b = Len(rest)
    BY <1>2
  <2>7. Long(new, S, a) /\ Long(rest, S, b)
    BY <2>4, <2>5, <2>6 DEF Long
  <2>8. Joined(new \o rest, new, rest, S, a, b)
    BY <2>7, ConcatIs
  <2>9. /\ Len(todo') = a + b /\ \A i \in 1 .. a : todo'[i] = new[i]
        /\ \A i \in 1 .. b : todo'[a + i] = rest[i]
    BY <1>1, <2>8 DEF Joined, Long
  <2>10. PICK t, c : t = todo' /\ c = Len(todo)
    OBVIOUS
  <2>11. /\ c \in Nat /\ c >= 1 /\ b = c - 1 /\ Len(t) = a + b
         /\ \A i \in 1 .. a : t[i] = item(i)
         /\ \A i \in 1 .. b : t[a + i] = todo[i + 1]
    <3>1. Len(todo) \in Nat /\ Len(todo) >= 1 /\ b = Len(todo) - 1
      BY <1>2, <2>6
    <3>2. \A i \in 1 .. b : rest[i] = todo[i + 1]
      BY <1>2, <2>6
    <3> QED
      BY <2>4, <2>9, <2>10, <3>1, <3>2
  <2>12. ASSUME NEW i \in 1 .. Len(t), i > a
         PROVE  (i - a) + 1 \in 2 .. c /\ t[i] = todo[(i - a) + 1]
    <3>1. /\ i - a \in 1 .. b /\ a + (i - a) = i
          /\ (i - a) + 1 \in 2 .. c
      BY <2>11, <2>12
    <3> QED
      BY <2>11, <3>1
  <2>13. ASSUME NEW j \in 2 .. c
         PROVE  (a + j) - 1 \in 1 .. Len(t) /\ t[(a + j) - 1] = todo[j]
    <3>1. /\ j - 1 \in 1 .. b /\ a + (j - 1) = (a + j) - 1 /\ (j - 1) + 1 = j
          /\ (a + j) - 1 \in 1 .. (a + b)
      BY <2>11
    <3>2. t[a + (j - 1)] = todo[(j - 1) + 1]
      BY <2>11, <3>1
    <3> QED
      BY <2>11, <3>1, <3>2
  <2>14. \A i \in 1 .. a : i \in 1 .. Len(t) /\ t[i] = NewItem(it, n, kids[i])
    BY <2>11 DEF item
  <2>15. Len(t) = a + (c - 1)
    BY <2>11
  <2> HIDE DEF item
  <2> QED
    BY <2>2, <2>10, <2>11, <2>12, <2>13, <2>14, <2>15, Zenon DEF Lengthened
<1>4. ASSUME ~it.deep, Len(todo) = 1 PROVE todo' = <<>>
  <2>1. new = <<>>
    BY <1>4 DEF ChildrenToCopy
  <2>2. rest = <<>>
    BY <1>2, <1>4
  <2> QED
    BY <1>1, <2>1, <2>2
<1> QED
  BY <1>3, <1>4


\* Making a node outside the source leaves the source as it was.
SourceStays(s, n, it, kids) ==
    /\ s \in Created /\ Spared(s) /\ Shape(s)' = Shape(s) /\ Under(s)' = Under(s)
    /\ s \in Under(s) /\ Under(s) \subseteq Created /\ n \notin Under(s) /\ s < n
    /\ \A m \in Under(s) : type'[m] = type[m] /\ name'[m] = name[m] /\ parent'[m] = parent[m]
    /\ kids \in Seq(Nodes)
    /\ \A i \in 1 .. Len(kids) :
         /\ kids[i] \in Under(s) \ {s} /\ kids[i] # n /\ kids[i] # it.src
         /\ parent[kids[i]] = it.src
         /\ \A j \in 1 .. Len(kids) : i # j => kids[i] # kids[j]
    /\ \A c \in Nodes : Listed(c) /\ parent[c] = it.src => \E i \in 1 .. Len(kids) : kids[i] = c

LEMMA MadeOutside ==
    ASSUME TreeInv, CopyNode, NEW n, NEW it, NEW kids, Made(n, it, kids),
           NEW s \in Under(Root), it.src \in Under(s), it.dst \notin Under(s)
    PROVE  SourceStays(s, n, it, kids)
<1>0. TypeOK /\ Tree /\ Linked
  BY DEF TreeInv, Inv, TypeOK, Linked
<1>1. /\ Root \in Created /\ Created \subseteq Nodes /\ Nodes \subseteq Nat /\ DownFacts
  BY <1>0, RootCreated, Walks
<1>2. /\ s \in Created /\ s \in Under(s) /\ Under(s) \subseteq Created
      /\ \A d \in Under(s) : d >= s /\ \A i \in 1 .. Len(children[d]) :
           children[d][i] \in Under(s) /\ children[d][i] > d
  BY <1>1 DEF DownFacts
<1>3. /\ n \in Nodes /\ n \notin Created /\ it.dst \in Created
      /\ \A e \in Nodes : e # n /\ e # it.dst => children'[e] = children[e]
  BY <1>1 DEF Made, Added, DownFacts
<1>4. Spared(s)
  <2>1. type[it.src] \in Types /\ Null \in Blocks \cup {Null}
    BY DEF Made
  <2> QED
    BY <1>0, <1>2, <1>3, <2>1, AddSpares DEF Made
<1>5. Shape(s)' = Shape(s) /\ Under(s)' = Under(s)
  BY <1>0, <1>2, <1>4, SparedKept DEF Kept
<1>6. n \notin Under(s) /\ s < n
  BY <1>0, <1>1, <1>2, <1>3, PoolAssumption DEF Made, Created, Linked
<1>7. it.src \in Nodes /\ it.src \in Nat /\ kids = children[it.src] /\ kids \in Seq(Nodes)
  <2>1. it.src \in Nodes /\ it.src # n /\ it.src # it.dst
    BY <1>1, <1>2, <1>3
  <2> QED
    BY <1>0, <1>1, <1>3, <2>1 DEF Made, Linked
<1>8. ASSUME NEW i \in 1 .. Len(kids)
      PROVE  /\ kids[i] \in Under(s) \ {s} /\ kids[i] # n /\ kids[i] # it.src
             /\ parent[kids[i]] = it.src
             /\ \A j \in 1 .. Len(kids) : i # j => kids[i] # kids[j]
  <2>1. kids[i] \in Under(s) /\ kids[i] > it.src /\ it.src >= s /\ kids[i] \in Nodes
    BY <1>2, <1>7
  <2>2. PICK c : c = kids[i]
    OBVIOUS
  <2>3. c # s /\ c # it.src
    BY <1>1, <1>2, <1>7, <2>1, <2>2
  <2>4. parent[c] = it.src /\ \A j \in 1 .. Len(kids) : i # j => c # kids[j]
    BY <1>0, <1>7, <2>2 DEF Tree, ListsAgree
  <2> QED
    BY <1>6, <2>1, <2>2, <2>3, <2>4
<1>9. ASSUME NEW c \in Nodes, Listed(c), parent[c] = it.src
      PROVE  \E i \in 1 .. Len(kids) : kids[i] = c
  BY <1>7, <1>9 DEF Listed
<1>10. \A m \in Under(s) : type'[m] = type[m] /\ name'[m] = name[m] /\ parent'[m] = parent[m]
  BY <1>4 DEF Spared
<1> QED
  BY <1>2, <1>4, <1>5, <1>6, <1>7, <1>8, <1>9, <1>10 DEF SourceStays

\* The first node of a copy.
LEMMA FirstMade ==
    ASSUME TreeInv, CopyNode, NEW n, NEW it, NEW kids, Made(n, it, kids), Linked', Tree',
           NEW s, NEW deep, s \in Under(Root)', deep \in BOOLEAN, it.src = s, it.deep = deep,
           Len(todo) = 1, SourceStays(s, n, it, kids)
    PROVE  \E o : Mirrored(s, n, o)' /\ IF deep THEN Pending(s, n, o)' ELSE todo' = <<>> /\ pool_idx' = n
<1> DEFINE U == Under(s)
<1>1. PICK o : o = [m \in {n} |-> s]
  OBVIOUS
<1>2. n \in Nat /\ pool_idx' = n /\ Copies(n)' = {n}
  <2>1. n \in Nat /\ pool_idx' = n
    BY PoolAssumption DEF Made, Added, Nodes
  <2> QED
    BY <2>1 DEF Copies
<1>3. /\ s \in U /\ U' = U /\ n \notin U /\ s < n /\ type'[s] = type[s]
      /\ kids \in Seq(Nodes) /\ Len(kids) \in Nat
  BY DEF SourceStays
<1>4. type'[n] = type[s] /\ n \in Under(Root)'
  BY DEF Made
<1> HIDE DEF U
<1>5. Mirrored(s, n, o)'
  BY <1>1, <1>2, <1>3, <1>4 DEF Mirrored, U
<1>6. ASSUME deep PROVE Pending(s, n, o)'
  <2>1. Lengthened(it, n, kids, Len(kids))
    BY <1>3, <1>6, NextTodo
  <2>2. PICK t, a : t = todo' /\ a = Len(kids) /\ a \in Nat
    BY <1>3
  <2>3. Len(t) = a /\ \A i \in 1 .. a : t[i] = NewItem(it, n, kids[i])
    BY <2>1, <2>2 DEF Lengthened
  <2>4. \A i \in 1 .. a :
          /\ kids[i] \in U \ {s} /\ kids[i] # n /\ parent'[kids[i]] = s
          /\ name'[kids[i]] = name[kids[i]]
          /\ \A j \in 1 .. a : i # j => kids[i] # kids[j]
    BY <2>2 DEF SourceStays, U
  <2>5. \A i \in 1 .. a : /\ t[i].deep /\ t[i].src = kids[i] /\ t[i].dst = n
                          /\ t[i].name = name'[kids[i]]
    BY <2>3, <2>4 DEF NewItem
  <2>6. \A i \in 1 .. a : Asked(s, n, o, t[i])'
    <3> SUFFICES ASSUME NEW i \in 1 .. a PROVE Asked(s, n, o, t[i])'
      OBVIOUS
    <3>1. PICK x : x = t[i]
      OBVIOUS
    <3>2. x.deep /\ x.src \in U' \ {s} /\ x.dst = n /\ x.name = name'[x.src] /\ parent'[x.src] = s
      BY <1>3, <2>4, <2>5, <3>1
    <3>3. o[n] = s
      BY <1>1
    <3>4. Asked(s, n, o, x)'
      BY <1>2, <3>2, <3>3 DEF Asked, U
    <3> QED
      BY <2>2, <3>1, <3>4
  <2>7. ASSUME NEW c \in Nodes, Listed(c)', parent'[c] = s
        PROVE  \E i \in 1 .. a : t[i].src = c
    <3>1. Listed(c) /\ parent[c] = s
      BY <1>3, <2>7 DEF SourceStays, Spared, U
    <3>2. PICK i \in 1 .. a : kids[i] = c
      BY <2>2, <3>1 DEF SourceStays
    <3> QED
      BY <2>5, <3>2
  <2>8. \A i \in 1 .. Len(t) : Asked(s, n, o, t[i])' /\ \A j \in 1 .. Len(t) : j # i => t[j].src # t[i].src
    BY <2>3, <2>4, <2>5, <2>6
  <2>9. \A m \in Copies(n)' : \A c \in Nodes : Listed(c)' /\ parent'[c] = o[m] =>
          \E i \in 1 .. Len(t) : t[i].src = c
    BY <1>1, <1>2, <2>3, <2>7
  <2> QED
    BY <2>2, <2>8, <2>9 DEF Pending
<1>7. ASSUME ~deep PROVE todo' = <<>>
  BY <1>3, <1>7, NextTodo
<1> QED
  BY <1>2, <1>5, <1>6, <1>7


\* The next nodes of a copy.
Grown(u, f, n, o, x) == u = [m \in f .. n |-> IF m = n THEN x ELSE o[m]]

LEMMA MirroredMore ==
    ASSUME TreeInv, CopyNode, NEW n, NEW it, NEW kids, Made(n, it, kids), Linked', Tree',
           NEW s, NEW f, NEW o, Mirrored(s, f, o), Asked(s, f, o, it), SourceStays(s, n, it, kids),
           s \in Under(Root)', f \in Under(Root)',
           NEW u, Grown(u, f, n, o, it.src)
    PROVE  /\ Mirrored(s, f, u)'
           /\ n \in Nat /\ n \notin Copies(f) /\ u[n] = it.src
           /\ \A m \in Copies(f)' : m = n \/ m \in Copies(f)
           /\ \A m \in Copies(f) : m # n /\ m \in Copies(f)' /\ u[m] = o[m]
<1> DEFINE C == Copies(f)
           U == Under(s)
<1>0. TypeOK /\ Tree /\ Linked
  BY DEF TreeInv, Inv, TypeOK, Linked
<1>1. /\ C \in SUBSET Nodes /\ f \in C /\ \A m \in C : m \in Created /\ f <= m
      /\ f \in Created /\ Nodes \subseteq Nat /\ Created \subseteq Nodes
  BY <1>0, CopiesUnder, RootCreated
<1>2. n \in Nat /\ n \notin C /\ C' = C \cup {n} /\ C' = f .. n
  <2>1. f \in Nat /\ n \in Nat /\ n = pool_idx + 1 /\ pool_idx' = n /\ f <= pool_idx /\ pool_idx \in Nat
    BY <1>0, <1>1 DEF Made, Added, Created, Linked, Copies
  <2>2. C = f .. pool_idx /\ C' = f .. n
    BY <2>1 DEF Copies
  <2>3. f .. n = (f .. pool_idx) \cup {n} /\ n \notin f .. pool_idx
    BY <2>1
  <2> QED
    BY <2>1, <2>2, <2>3
<1>3. u[n] = it.src /\ \A m \in C : m # n /\ m \in C' /\ u[m] = o[m]
  BY <1>2 DEF Grown
<1>4. /\ s \in U /\ U' = U /\ n \notin U
      /\ \A m \in U : type'[m] = type[m] /\ name'[m] = name[m] /\ parent'[m] = parent[m]
  BY DEF SourceStays
<1>5. /\ o \in [C -> U] /\ o[f] = s /\ type[f] = type[s] /\ s < f
      /\ \A m \in C : m \notin U
      /\ \A m \in C \ {f} :
           /\ parent[m] \in C /\ Listed(m)
           /\ o[m] # s /\ parent[o[m]] = o[parent[m]]
           /\ name[m] = name[o[m]] /\ type[m] = type[o[m]]
      /\ \A m, k \in C : o[m] = o[k] => m = k
  BY DEF Mirrored
<1>6. /\ it.src \in U \ {s} /\ it.dst \in C /\ o[it.dst] = parent[it.src] /\ it.name = name[it.src]
      /\ \A m \in C : o[m] # it.src
  BY DEF Asked
<1>7. /\ \A m \in C : type'[m] = type[m] /\ name'[m] = name[m] /\ parent'[m] = parent[m]
                      /\ (Listed(m)' <=> Listed(m))
      /\ parent'[n] = it.dst /\ Listed(n)' /\ name'[n] = it.name /\ type'[n] = type[it.src]
  BY <1>1, <1>3 DEF Made, Added
<1> HIDE DEF C, U
<1>8. u \in [C' -> U']
  <2>1. u = [m \in C' |-> u[m]]
    BY <1>2 DEF Grown
  <2>2. \A m \in C' : u[m] \in U'
    BY <1>2, <1>3, <1>4, <1>5, <1>6
  <2> QED
    BY <2>1, <2>2
<1>9. ASSUME NEW m \in C' \ {f}
      PROVE  /\ parent'[m] \in C' /\ Listed(m)'
             /\ u[m] # s /\ parent'[u[m]] = u[parent'[m]]
             /\ name'[m] = name'[u[m]] /\ type'[m] = type'[u[m]]
  <2>1. CASE m = n
    <3>1. u[m] = it.src /\ parent'[m] = it.dst /\ it.dst \in C'
      BY <1>2, <1>3, <1>6, <1>7, <2>1
    <3>2. parent'[it.src] = parent[it.src] /\ name'[it.src] = name[it.src] /\ type'[it.src] = type[it.src]
      BY <1>4, <1>6
    <3>3. u[it.dst] = o[it.dst]
      BY <1>3, <1>6
    <3> QED
      BY <1>6, <1>7, <2>1, <3>1, <3>2, <3>3
  <2>2. CASE m # n
    <3>1. m \in C \ {f}
      BY <1>2, <1>9, <2>2
    <3>2. PICK q \in C : q = parent[m]
      BY <1>5, <3>1
    <3>3. PICK y \in U : y = o[m]
      BY <1>5, <3>1
    <3>4. u[m] = y /\ u[q] = o[q] /\ q \in C' /\ parent'[m] = q
      BY <1>3, <1>7, <3>1, <3>2, <3>3
    <3>5. y # s /\ parent'[y] = o[q] /\ name'[m] = name'[y] /\ type'[m] = type'[y] /\ Listed(m)'
      BY <1>4, <1>5, <1>7, <3>1, <3>2, <3>3
    <3> QED
      BY <3>4, <3>5
  <2> QED
    BY <2>1, <2>2
<1>10. ASSUME NEW m \in C', NEW k \in C', u[m] = u[k] PROVE m = k
  <2>1. (m = n \/ m \in C) /\ (k = n \/ k \in C)
    BY <1>2
  <2>2. ASSUME m \in C, k = n PROVE FALSE
    BY <1>3, <1>6, <1>10, <2>2
  <2>3. ASSUME k \in C, m = n PROVE FALSE
    BY <1>3, <1>6, <1>10, <2>3
  <2>4. ASSUME m \in C, k \in C PROVE m = k
    BY <1>3, <1>5, <1>10, <2>4
  <2> QED
    BY <2>1, <2>2, <2>3, <2>4
<1>11. u[f] = s /\ type'[f] = type'[s]
  BY <1>1, <1>3, <1>4, <1>5, <1>7
<1>12. \A m \in C' : m \notin U'
  BY <1>2, <1>4, <1>5
<1>13. Mirrored(s, f, u)'
  BY <1>5, <1>8, <1>9, <1>10, <1>11, <1>12, Zenon DEF Mirrored, C, U
<1>14. \A m \in C' : m = n \/ m \in C
  BY <1>2
<1> QED
  BY <1>2, <1>3, <1>13, <1>14 DEF C


LEMMA PendingMore ==
    ASSUME TreeInv, CopyNode, NEW n, NEW it, NEW kids, Made(n, it, kids), Linked', Tree',
           NEW s, NEW f, NEW o, Mirrored(s, f, o), Pending(s, f, o), SourceStays(s, n, it, kids),
           s \in Under(Root)', f \in Under(Root)',
           NEW u, Grown(u, f, n, o, it.src)
    PROVE  Mirrored(s, f, u)' /\ Pending(s, f, u)'
<1> DEFINE C == Copies(f)
           U == Under(s)
<1>0. /\ TypeOK /\ todo \in Seq(Items) /\ it = todo[1] /\ Len(todo) \in Nat /\ 1 \in 1 .. Len(todo)
  BY DEF TreeInv, Inv, Made
<1>1. Asked(s, f, o, it)
  BY <1>0 DEF Pending
<1>2. /\ Mirrored(s, f, u)'
      /\ n \in Nat /\ n \notin C /\ u[n] = it.src
      /\ \A m \in C' : m = n \/ m \in C
      /\ \A m \in C : m # n /\ m \in C' /\ u[m] = o[m]
  <2> HIDE DEF U, C
  <2>1. Mirrored(s, f, u)'
    BY <1>1, MirroredMore
  <2>2. n \in Nat /\ n \notin Copies(f) /\ u[n] = it.src
    BY <1>1, MirroredMore
  <2>3. \A m \in Copies(f)' : m = n \/ m \in Copies(f)
    BY <1>1, MirroredMore
  <2>4. \A m \in Copies(f) : m # n /\ m \in Copies(f)' /\ u[m] = o[m]
    BY <1>1, MirroredMore
  <2> QED
    BY <2>1, <2>2, <2>3, <2>4 DEF C
<1>3. n \in C'
  <2>1. f \in C /\ f \in Nat
    BY CopiesUnder, RootCreated DEF TreeInv, Inv, TypeOK, Linked
  <2>2. C' = f .. n /\ n = pool_idx + 1 /\ f <= pool_idx /\ pool_idx \in Nat
    BY <1>0, <2>1, PoolAssumption DEF Made, Copies, TypeOK, Nodes
  <2> QED
    BY <1>2, <2>1, <2>2
<1>4. /\ it.deep /\ it.src \in U \ {s} /\ it.dst \in C /\ o[it.dst] = parent[it.src]
      /\ \A m \in C : o[m] # it.src
  BY <1>1 DEF Asked
<1>5. /\ kids \in Seq(Nodes) /\ Len(kids) \in Nat /\ U' = U
      /\ \A m \in U : type'[m] = type[m] /\ name'[m] = name[m] /\ parent'[m] = parent[m]
      /\ \A i \in 1 .. Len(kids) :
           /\ kids[i] \in U \ {s} /\ kids[i] # n /\ kids[i] # it.src /\ parent[kids[i]] = it.src
           /\ \A j \in 1 .. Len(kids) : i # j => kids[i] # kids[j]
      /\ \A c \in Nodes : Listed(c) /\ parent[c] = it.src => \E i \in 1 .. Len(kids) : kids[i] = c
      /\ \A c \in Nodes : Listed(c)' /\ parent'[c] \in U => Listed(c) /\ parent[c] = parent'[c]
  BY DEF SourceStays, Spared
<1>6. Lengthened(it, n, kids, Len(kids))
  BY <1>4, <1>5, NextTodo
<1>7. PICK t, a, b : t = todo' /\ a = Len(kids) /\ b = Len(todo) /\ a \in Nat /\ b \in Nat
  BY <1>0, <1>5
<1>8. /\ \A i \in 1 .. a : i \in 1 .. Len(t) /\ t[i] = NewItem(it, n, kids[i])
      /\ \A i \in 1 .. Len(t) : i > a => (i - a) + 1 \in 2 .. b /\ t[i] = todo[(i - a) + 1]
      /\ \A j \in 2 .. b : (a + j) - 1 \in 1 .. Len(t) /\ t[(a + j) - 1] = todo[j]
      /\ Len(t) \in Nat
  <2>1. Len(t) = a + (b - 1) /\ b >= 1
    BY <1>0, <1>6, <1>7 DEF Lengthened
  <2>2. Len(t) \in Nat
    BY <1>7, <2>1
  <2>3. Lengthened(it, n, kids, a)
    BY <1>6, <1>7
  <2> QED
    BY <1>7, <2>2, <2>3, Zenon DEF Lengthened
<1>9. /\ o \in [C -> U] /\ o[f] = s
      /\ \A m \in C \ {f} : parent[m] \in C /\ parent[o[m]] = o[parent[m]]
  BY DEF Mirrored
<1> HIDE DEF C, U
\* Of the children of the node there are no copies yet, and nobody asks for one.
<1>10. \A i \in 1 .. a : \A m \in C : o[m] # kids[i]
  <2> SUFFICES ASSUME NEW i \in 1 .. a, NEW m \in C, o[m] = kids[i] PROVE FALSE
    OBVIOUS
  <2>1. kids[i] # s /\ parent[kids[i]] = it.src
    BY <1>5, <1>7
  <2>2. m \in C \ {f}
    BY <1>9, <2>1
  <2>3. parent[m] \in C /\ o[parent[m]] = it.src
    BY <1>9, <2>1, <2>2
  <2> QED
    BY <1>4, <2>3
<1>11. \A j \in 1 .. b :
         /\ Asked(s, f, o, todo[j])
         /\ \A k \in 1 .. b : k # j => todo[k].src # todo[j].src
  BY <1>7 DEF Pending
<1>12. \A i \in 1 .. a : \A j \in 1 .. b : todo[j].src # kids[i]
  <2> SUFFICES ASSUME NEW i \in 1 .. a, NEW j \in 1 .. b, todo[j].src = kids[i] PROVE FALSE
    OBVIOUS
  <2>1. todo[j].dst \in C /\ o[todo[j].dst] = parent[kids[i]]
    BY <1>11 DEF Asked, C
  <2> QED
    BY <1>4, <1>5, <1>7, <2>1
<1>13. ASSUME NEW i \in 1 .. a
       PROVE  Asked(s, f, u, t[i])' /\ t[i].src = kids[i]
  <2>1. PICK x : x = t[i]
    OBVIOUS
  <2>2. /\ x = NewItem(it, n, kids[i]) /\ kids[i] \in U \ {s} /\ kids[i] # n
        /\ parent'[kids[i]] = it.src /\ name'[kids[i]] = name[kids[i]] /\ kids[i] # it.src
    <3>1. /\ kids[i] \in U \ {s} /\ kids[i] # n /\ kids[i] # it.src /\ parent[kids[i]] = it.src
      BY <1>5, <1>7
    <3>2. x = NewItem(it, n, kids[i])
      BY <1>8, <2>1
    <3> QED
      BY <1>5, <3>1, <3>2
  <2>3. x.deep /\ x.src = kids[i] /\ x.dst = n /\ x.name = name'[x.src]
    BY <2>2 DEF NewItem
  <2>4. \A m \in C' : u[m] # x.src
    BY <1>2, <1>10, <2>2, <2>3
  <2>5. Asked(s, f, u, x)'
    BY <1>2, <1>3, <1>5, <2>2, <2>3, <2>4 DEF Asked, C, U
  <2> QED
    BY <2>1, <2>3, <2>5
<1>14. ASSUME NEW j \in 2 .. b, NEW x, x = todo[j]
       PROVE  Asked(s, f, u, x)'
  <2>2. j \in 1 .. b /\ 1 \in 1 .. b /\ j # 1
    BY <1>7
  <2>3. Asked(s, f, o, x) /\ x.src # it.src
    BY <1>0, <1>11, <1>14, <2>2
  <2>4. /\ x.deep /\ x.src \in U \ {s} /\ x.dst \in C /\ o[x.dst] = parent[x.src]
        /\ x.name = name[x.src] /\ \A m \in C : o[m] # x.src
    BY <2>3 DEF Asked, C, U
  <2>5. /\ x.dst \in C' /\ u[x.dst] = parent'[x.src] /\ x.name = name'[x.src]
        /\ x.src \in U' \ {s}
    BY <1>2, <1>5, <2>4
  <2>6. \A m \in C' : u[m] # x.src
    BY <1>2, <2>3, <2>4
  <2> QED
    BY <2>4, <2>5, <2>6 DEF Asked, C, U
<1>15. ASSUME NEW m \in C', NEW c \in Nodes, Listed(c)', parent'[c] = u[m]
       PROVE  \/ \E k \in C' : u[k] = c
              \/ \E i \in 1 .. Len(t) : t[i].src = c
  <2>1. u[m] \in U
    BY <1>2, <1>4, <1>9
  <2>2. Listed(c) /\ parent[c] = u[m]
    BY <1>5, <1>15, <2>1
  <2>3. CASE m = n
    <3>1. PICK i \in 1 .. a : kids[i] = c
      BY <1>2, <1>5, <1>7, <2>2, <2>3
    <3> QED
      BY <1>8, <1>13, <3>1
  <2>4. CASE m # n
    <3>1. m \in C /\ parent[c] = o[m]
      BY <1>2, <2>2, <2>4
    <3>2. \/ \E k \in C : o[k] = c
          \/ \E j \in 1 .. b : todo[j].src = c
      BY <1>7, <2>2, <3>1 DEF Pending, C
    <3>3. CASE \E k \in C : o[k] = c
      BY <1>2, <3>3
    <3>4. ASSUME NEW j \in 1 .. b, todo[j].src = c
          PROVE  (\E k \in C' : u[k] = c) \/ \E i \in 1 .. Len(t) : t[i].src = c
      <4>1. CASE j = 1
        BY <1>0, <1>2, <1>3, <3>4, <4>1
      <4>2. CASE j # 1
        <5>1. j \in 2 .. b
          BY <4>2
        <5> QED
          BY <1>8, <3>4, <5>1
      <4> QED
        BY <4>1, <4>2
    <3> QED
      BY <3>2, <3>3, <3>4
  <2> QED
    BY <2>3, <2>4
\* Entry i of the list is the child i, or an entry of the list before.
<1>16. ASSUME NEW i \in 1 .. Len(t), ~(i \in 1 .. a)
       PROVE  (i - a) + 1 \in 2 .. b /\ t[i] = todo[(i - a) + 1]
  <2>1. i > a
    BY <1>7, <1>8, <1>16
  <2> QED
    BY <1>8, <2>1
<1>17. \A i \in 1 .. Len(t) : Asked(s, f, u, t[i])'
  <2> SUFFICES ASSUME NEW i \in 1 .. Len(t) PROVE Asked(s, f, u, t[i])'
    OBVIOUS
  <2>1. PICK x : x = t[i]
    OBVIOUS
  <2>2. CASE i \in 1 .. a
    BY <1>13, <2>2
  <2>3. CASE ~(i \in 1 .. a)
    <3>1. PICK j \in 2 .. b : x = todo[j]
      BY <1>16, <2>1, <2>3
    <3>2. Asked(s, f, u, x)'
      BY <1>14, <3>1
    <3> QED
      BY <2>1, <3>2
  <2> QED
    BY <2>2, <2>3
<1>18. ASSUME NEW i \in 1 .. Len(t), NEW j \in 1 .. Len(t), j # i
       PROVE  t[j].src # t[i].src
  <2>1. CASE i \in 1 .. a /\ j \in 1 .. a
    <3>1. t[i].src = kids[i] /\ t[j].src = kids[j]
      BY <1>13, <2>1
    <3> QED
      BY <1>5, <1>7, <1>18, <2>1, <3>1
  <2>2. CASE i \in 1 .. a /\ ~(j \in 1 .. a)
    BY <1>12, <1>13, <1>16, <2>2
  <2>3. CASE ~(i \in 1 .. a) /\ j \in 1 .. a
    BY <1>12, <1>13, <1>16, <2>3
  <2>4. CASE ~(i \in 1 .. a) /\ ~(j \in 1 .. a)
    <3>1. /\ (i - a) + 1 \in 2 .. b /\ t[i] = todo[(i - a) + 1]
          /\ (j - a) + 1 \in 2 .. b /\ t[j] = todo[(j - a) + 1]
      BY <1>16, <2>4
    <3>2. (j - a) + 1 # (i - a) + 1
      BY <1>7, <1>8, <1>18
    <3>3. PICK x, y : x = (i - a) + 1 /\ y = (j - a) + 1
      OBVIOUS
    <3>4. x \in 1 .. b /\ y \in 1 .. b /\ y # x /\ t[i] = todo[x] /\ t[j] = todo[y]
      BY <3>1, <3>2, <3>3
    <3> QED
      BY <1>11, <3>4
  <2> QED
    BY <2>1, <2>2, <2>3, <2>4
<1>19. Pending(s, f, u)'
  BY <1>7, <1>15, <1>17, <1>18 DEF Pending, C
<1> QED
  BY <1>2, <1>19


\* What a copy keeps: no node of the source is forgotten, and none copied twice.
LEMMA QuietShape ==
    ASSUME Linked, Tree, UNCHANGED tree
    PROVE  /\ Under(Root)' = Under(Root) /\ Linked' /\ Tree'
           /\ \A n \in Under(Root) : /\ n \in Created /\ Spared(n)
                                     /\ Under(n)' = Under(n) /\ Shape(n)' = Shape(n)
<1>1. Root \in Created
  BY RootCreated
<1>2. \A n \in Created : Spared(n) /\ Under(n)' = Under(n) /\ Shape(n)' = Shape(n)
  <2> SUFFICES ASSUME NEW n \in Created
               PROVE  Spared(n) /\ Under(n)' = Under(n) /\ Shape(n)' = Shape(n)
    OBVIOUS
  <2>1. Spared(n)
    BY QuietSpares
  <2> QED
    BY <2>1, SparedKept DEF Kept
<1>3. Under(Root) \subseteq Created
  BY <1>1, Walks DEF DownFacts
<1>4. Spared(Root)
  BY <1>1, <1>2
<1> QED
  BY <1>2, <1>3, <1>4, TreeUnchanged DEF Spared

LEMMA StartCopies ==
    ASSUME TreeInv, NEW op \in {"cp", "mv"}, NEW p \in Paths, NEW q \in Paths,
           StartCopy(op, p, q)
    PROVE  CopyInv'
<1>0. TypeOK /\ Tree /\ Linked
  BY DEF TreeInv, Inv, TypeOK, Linked
<1>1. TodoInTree' /\ UNCHANGED tree
  <2>1. Next
    BY DEF Next
  <2> QED
    BY <2>1, StepChanges DEF StartCopy
<1>2. PICK s \in Created, d \in Created, deep \in BOOLEAN :
        /\ todo' = <<[src |-> s, dst |-> d, deep |-> deep,
                      name |-> IF deep THEN name[s] ELSE Last(q)]>>
        /\ job' = [IF op = "cp" THEN NoJob ELSE Move(s, p, q) EXCEPT
                     !.op = op, !.inside = d \in Under(s),
                     !.had = IF op = "cp" THEN <<>> ELSE Holding(s),
                     !.want = IF deep THEN Shape(s) ELSE {<<<<>>, type[s], 1>>}]
  BY DEF StartCopy
<1>3. Len(todo') = 1 /\ todo'[1].src = s /\ todo'[1].dst = d /\ todo'[1].deep = deep
  BY <1>2
<1>4. /\ job'.first = Null /\ job'.failed = FALSE /\ job'.inside = (d \in Under(s))
      /\ job'.want = IF deep THEN Shape(s) ELSE {<<<<>>, type[s], 1>>}
      /\ job'.op = "mv" => job'.src = s
  <2>1. CASE op = "cp"
    BY <1>2, <2>1 DEF NoJob
  <2>2. CASE op = "mv"
    BY <1>2, <2>2 DEF NoJob, Move
  <2> QED
    BY <2>1, <2>2
<1>5. s \in Under(Root)' /\ d \in Under(Root)'
  BY <1>1, <1>3 DEF TodoInTree
<1>6. Under(s)' = Under(s) /\ Shape(s)' = Shape(s) /\ type'[s] = type[s]
  BY <1>0, <1>1, <1>5, QuietShape DEF tree
<1>7. Wanted(s, deep)'
  BY <1>4, <1>5, <1>6 DEF Wanted
<1>8. ASSUME d \notin Under(s) PROVE Waiting(s, deep)'
  BY <1>3, <1>4, <1>5, <1>6, <1>8 DEF Waiting
<1> QED
  BY <1>4, <1>7, <1>8 DEF CopyInv, Proper

LEMMA NodeCopies ==
    ASSUME TreeInv, CopyInv, CopyNode
    PROVE  CopyInv'
<1> SUFFICES ASSUME Proper' PROVE CopyInv'
  BY DEF CopyInv
<1>0. TypeOK /\ Tree /\ Linked
  BY DEF TreeInv, Inv, TypeOK, Linked
<1>1. /\ Linked' /\ Tree' /\ Under(Root) \subseteq Under(Root)'
  BY NextCopy
<1>2. PICK n, it, kids : Made(n, it, kids)
  BY NextCopy
<1>3. n # Null /\ n = pool_idx + 1 /\ n \in Under(Root)'
  BY <1>2, NullAssumption DEF Made, Added
<1>4. /\ phase = "copy" /\ job'.first = IF job.first = Null THEN n ELSE job.first
      /\ job'.failed = job.failed /\ job'.inside = job.inside /\ job'.want = job.want
      /\ job'.op = job.op /\ job'.src = job.src /\ job'.from = job.from
  <2>1. phase = "copy" /\ job' = [job EXCEPT !.first = IF @ = Null THEN n ELSE @]
    BY <1>3 DEF CopyNode
  <2> QED
    BY <2>1 DEF TreeInv, SourceKnown
<1>5. ~job.failed /\ Proper
  BY <1>3, <1>4 DEF Proper
<1>6. PICK s, deep : /\ Wanted(s, deep)
                     /\ job.first = Null => Waiting(s, deep)
                     /\ job.first # Null => Underway(s, job.first, deep)
  BY <1>5 DEF CopyInv
<1>7. s \in Under(Root) /\ s \in Under(Root)' /\ deep \in BOOLEAN
  BY <1>1, <1>6 DEF Wanted
<1>8. ASSUME SourceStays(s, n, it, kids) PROVE Wanted(s, deep)'
  BY <1>4, <1>6, <1>7, <1>8 DEF Wanted, SourceStays
<1>9. CASE job.first = Null
  <2>1. it = todo[1]
    BY <1>2 DEF Made
  <2>2. Len(todo) = 1 /\ it.src = s /\ it.dst \notin Under(s) /\ it.deep = deep
    BY <1>5, <1>6, <1>9, <2>1 DEF Waiting
  <2>3. s \in Under(s)
    BY <1>0, <1>7, RootCreated, Walks DEF DownFacts
  <2>4. SourceStays(s, n, it, kids)
    BY <1>2, <1>7, <2>2, <2>3, MadeOutside
  <2>5. \E o : Mirrored(s, n, o)' /\ IF deep THEN Pending(s, n, o)' ELSE todo' = <<>> /\ pool_idx' = n
    BY <1>1, <1>2, <1>7, <2>2, <2>4, FirstMade
  <2>6. job'.first = n
    BY <1>4, <1>9
  <2>7. Underway(s, n, deep)'
    BY <1>4, <1>5, <2>5 DEF Underway
  <2>8. Underway(s, job.first, deep)'
    BY <2>6, <2>7 DEF Underway
  <2> QED
    BY <1>3, <1>8, <2>4, <2>6, <2>8 DEF CopyInv
<1>10. CASE job.first # Null
  <2>1. PICK f : f = job.first
    OBVIOUS
  <2>2. PICK o : Mirrored(s, f, o) /\ IF deep THEN Pending(s, f, o) ELSE todo = <<>> /\ pool_idx = f
    BY <1>6, <1>10, <2>1 DEF Underway
  <2>3. deep /\ Pending(s, f, o) /\ it = todo[1] /\ 1 \in 1 .. Len(todo)
    BY <1>2, <1>7, <2>2 DEF Made
  <2>4. Asked(s, f, o, it)
    BY <2>3 DEF Pending
  <2>5. it.src \in Under(s) /\ it.dst \notin Under(s)
    BY <2>2, <2>4 DEF Asked, Mirrored
  <2>6. SourceStays(s, n, it, kids)
    BY <1>2, <1>7, <2>5, MadeOutside
  <2>7. f \in Under(Root)'
    BY <1>1, <2>2 DEF Mirrored
  <2>8. PICK u : Grown(u, f, n, o, it.src)
    BY DEF Grown
  <2>9. Mirrored(s, f, u)' /\ Pending(s, f, u)'
    BY <1>1, <1>2, <1>7, <2>2, <2>3, <2>6, <2>7, <2>8, PendingMore
  <2>10. Underway(s, f, deep)'
    BY <1>4, <1>5, <2>3, <2>9 DEF Underway
  <2>11. job'.first = f
    BY <1>4, <1>10, <2>1
  <2>12. Underway(s, job.first, deep)'
    BY <2>10, <2>11 DEF Underway
  <2> QED
    BY <1>8, <1>10, <2>1, <2>6, <2>11, <2>12 DEF CopyInv
<1> QED
  BY <1>9, <1>10


LEMMA FailureCopies ==
    ASSUME TreeInv, CopyInv, CopyFails
    PROVE  CopyInv'
<1> SUFFICES ASSUME Proper' PROVE CopyInv'
  BY DEF CopyInv
<1>0. TypeOK /\ Tree /\ Linked /\ UNCHANGED tree
  BY DEF TreeInv, Inv, TypeOK, Linked, CopyFails
<1>1. /\ phase = "copy" /\ job'.first = job.first /\ job'.failed = TRUE
      /\ job'.inside = job.inside /\ job'.want = job.want
      /\ job'.op = job.op /\ job'.src = job.src /\ job'.from = job.from
      /\ todo \in Seq(Items) /\ todo # <<>> /\ todo' = Tail(todo)
  BY <1>0 DEF CopyFails, TreeInv, SourceKnown, TypeOK
<1>2. Proper /\ job.first = Null
  BY <1>1 DEF Proper
<1>3. PICK s, deep : Wanted(s, deep) /\ Waiting(s, deep)
  BY <1>2 DEF CopyInv
<1>4. Wanted(s, deep)'
  <2>1. s \in Under(Root)
    BY <1>3 DEF Wanted
  <2>2. s \in Under(Root)' /\ Shape(s)' = Shape(s) /\ type' = type
    BY <1>0, <2>1, QuietShape DEF tree
  <2> QED
    BY <1>1, <1>3, <2>2 DEF Wanted
<1>5. Waiting(s, deep)'
  <2>1. Len(todo) = 1
    BY <1>1, <1>3 DEF Waiting
  <2>2. todo' = <<>>
    BY <1>1, <2>1
  <2> QED
    BY <1>1, <2>2 DEF Waiting
<1> QED
  BY <1>1, <1>2, <1>4, <1>5 DEF CopyInv

LEMMA StutterCopies ==
    ASSUME TreeInv, CopyInv, UNCHANGED vars
    PROVE  CopyInv'
<1> SUFFICES ASSUME Proper' PROVE CopyInv'
  BY DEF CopyInv
<1>0. TypeOK /\ Tree /\ Linked /\ UNCHANGED <<tree, job, todo, phase>>
  BY DEF TreeInv, Inv, TypeOK, Linked, vars, copying
<1>1. Proper
  BY <1>0 DEF Proper
<1>2. PICK s, deep : /\ Wanted(s, deep)
                     /\ job.first = Null => Waiting(s, deep)
                     /\ job.first # Null => Underway(s, job.first, deep)
  BY <1>1 DEF CopyInv
<1>3. s \in Under(Root)
  BY <1>2 DEF Wanted
<1>4. /\ Under(Root)' = Under(Root) /\ Under(s)' = Under(s) /\ Shape(s)' = Shape(s)
      /\ type' = type /\ parent' = parent /\ name' = name /\ pool_idx' = pool_idx
      /\ \A m \in Nodes : Listed(m)' <=> Listed(m)
  <2>1. Under(Root)' = Under(Root) /\ Under(s)' = Under(s) /\ Shape(s)' = Shape(s)
    BY <1>0, <1>3, QuietShape
  <2> QED
    BY <1>0, <2>1 DEF tree, Listed
<1>5. Wanted(s, deep)'
  BY <1>0, <1>2, <1>3, <1>4 DEF Wanted
<1>6. CASE job.first = Null
  <2>1. Waiting(s, deep)'
    BY <1>0, <1>2, <1>4, <1>6 DEF Waiting
  <2> QED
    BY <1>0, <1>5, <1>6, <2>1 DEF CopyInv
<1>7. CASE job.first # Null
  <2>1. PICK f : f = job.first
    OBVIOUS
  <2>2. PICK o : Mirrored(s, f, o) /\ IF deep THEN Pending(s, f, o) ELSE todo = <<>> /\ pool_idx = f
    BY <1>2, <1>7, <2>1 DEF Underway
  <2>3. Copies(f)' = Copies(f) /\ Copies(f) \in SUBSET Nodes
    BY <1>0, <1>4, <2>2, CopiesUnder DEF Copies
  <2>4. Mirrored(s, f, o)'
    BY <1>4, <2>2, <2>3 DEF Mirrored
  <2>5. ASSUME Pending(s, f, o) PROVE Pending(s, f, o)'
    BY <1>0, <1>4, <2>3, <2>5 DEF Pending, Asked
  <2>6. Underway(s, f, deep)'
    BY <1>0, <1>2, <1>4, <1>7, <2>1, <2>2, <2>4, <2>5 DEF Underway
  <2>7. Underway(s, job.first, deep)'
    BY <1>0, <2>1, <2>6 DEF Underway
  <2> QED
    BY <1>0, <1>5, <1>7, <2>7 DEF CopyInv
<1> QED
  BY <1>6, <1>7

LEMMA StepCopies == TreeInv /\ CopyInv /\ [Next]_vars => CopyInv'
<1> SUFFICES ASSUME TreeInv, CopyInv, [Next]_vars PROVE CopyInv'
  OBVIOUS
<1>1. ASSUME phase = "idle", UNCHANGED copying PROVE CopyInv'
  BY <1>1 DEF copying, CopyInv, Proper
<1>2. ASSUME NEW op \in {"cp", "mv"}, NEW p \in Paths, NEW q \in Paths,
             StartCopy(op, p, q)
      PROVE  CopyInv'
  BY <1>2, StartCopies
<1>3. CASE CopyNode
  BY <1>3, NodeCopies
<1>4. CASE CopyFails
  BY <1>4, FailureCopies
<1>5. CASE Return \/ Prompt
  BY <1>5 DEF Return, Prompt, CopyInv, Proper
<1>6. CASE UNCHANGED vars
  BY <1>6, StutterCopies
<1> QED
  BY <1>1, <1>2, <1>3, <1>4, <1>5, <1>6, CommandChanges DEF Next, Copying

\* A copy that ran out of no nodes and was not put into its own source is the
\* source again, node for node: whatever was copied or linked there before, and
\* however large the source is.
THEOREM CopiesAreWhole == Spec => []CopyWhole
<1>1. Init => TreeInv /\ CopyInv
  BY InitTree DEF Init, CopyInv, Proper
<1>2. TreeInv /\ CopyInv /\ [Next]_vars => TreeInv' /\ CopyInv'
  BY StepTree, StepCopies
<1>3. TreeInv /\ CopyInv => CopyWhole
  BY CopiedWhole DEF TreeInv, Inv
<1> QED
  BY <1>1, <1>2, <1>3, PTL DEF Spec

-----------------------------------------------------------------------------
(* A move, and what the path of its source leads to when it is done.       *)

\* How far a node is from the root.
Above(n) == {a \in Created : n \in Under(a)}
Depth(n) == Cardinality(Above(n))

DepthFacts ==
    /\ \A n \in Created : Depth(n) \in Nat
    /\ \A n \in Created : Listed(n) => parent[n] \in Created /\ Depth(n) = Depth(parent[n]) + 1
    /\ \A n \in Created : \A m \in Under(n) :
         Depth(m) >= Depth(n) /\ (Depth(m) = Depth(n) => m = n)

LEMMA DepthIs == Linked /\ Tree => DepthFacts
<1> SUFFICES ASSUME Linked, Tree PROVE DepthFacts
  OBVIOUS
<1>1. /\ UnderFacts /\ DownFacts /\ ListedFacts /\ UnderTransFacts
      /\ Created \subseteq Nodes /\ Nodes \subseteq Nat
  BY Walks, UnderTrans, RootCreated
<1>2. IsFiniteSet(Created)
  <2>1. 0 \in Int /\ pool_idx \in Int
    BY DEF Linked, Nodes
  <2> QED
    BY <2>1, FS_Interval DEF Created
<1>3. \A n \in Created : Above(n) \in SUBSET Created
  BY DEF Above
<1>4. ASSUME NEW n \in Created PROVE IsFiniteSet(Above(n)) /\ Depth(n) \in Nat
  <2>1. IsFiniteSet(Above(n))
    BY <1>2, <1>3, FS_Subset
  <2> QED
    BY <2>1, FS_CardinalityType DEF Depth
<1>5. ASSUME NEW n \in Created, Listed(n)
      PROVE  parent[n] \in Created /\ Depth(n) = Depth(parent[n]) + 1
  <2>1. n \in Nodes /\ parent[n] \in Nodes /\ parent[n] < n
    BY <1>1, <1>5 DEF ListedFacts
  <2>2. PICK d : d = parent[n]
    OBVIOUS
  <2>3. d \in Created
    BY <1>1, <2>1, <2>2 DEF Linked, Created, Nodes
  <2>4. \A a \in Created : n \in Under(a) <=> n = a \/ (n > a /\ d \in Under(a))
    BY <1>1, <1>5, <2>1, <2>2 DEF UnderFacts, UnderStep
  <2>5. \A a \in Created : d \in Under(a) => d >= a
    BY <1>1 DEF DownFacts
  <2>6. \A a \in Created : a \in Nat
    BY <1>1
  <2>7. Above(n) = Above(d) \cup {n}
    <3>1. \A a \in Created : n \in Under(a) <=> n = a \/ d \in Under(a)
      BY <2>1, <2>2, <2>3, <2>4, <2>5, <2>6
    <3> QED
      BY <3>1 DEF Above
  <2>8. n \notin Above(d)
    <3>1. ~(d >= n)
      BY <2>1, <2>2, <2>3, <2>6
    <3> QED
      BY <2>5, <3>1 DEF Above
  <2>9. IsFiniteSet(Above(d))
    BY <1>4, <2>3
  <2>10. Cardinality(Above(d) \cup {n}) = Cardinality(Above(d)) + 1
    BY <2>8, <2>9, FS_AddElement
  <2> QED
    BY <2>2, <2>3, <2>7, <2>10 DEF Depth
<1>6. ASSUME NEW n \in Created, NEW m \in Under(n)
      PROVE  Depth(m) >= Depth(n) /\ (Depth(m) = Depth(n) => m = n)
  <2>1. m \in Created /\ n \in Nat /\ m \in Nat /\ m >= n /\ m \in Under(m)
    BY <1>1 DEF DownFacts
  <2>2. Above(n) \subseteq Above(m)
    BY <1>1 DEF Above, UnderTransFacts
  <2>3. Depth(n) <= Depth(m) /\ (Depth(m) = Depth(n) => Above(m) = Above(n))
    BY <1>4, <2>1, <2>2, FS_Subset DEF Depth
  <2>4. ASSUME Above(m) = Above(n) PROVE m = n
    <3>1. n \in Under(m)
      BY <2>1, <2>4 DEF Above
    <3>2. n >= m
      BY <1>1, <2>1, <3>1 DEF DownFacts
    <3> QED
      BY <2>1, <3>2
  <2>5. Depth(n) \in Nat /\ Depth(m) \in Nat
    BY <1>4, <2>1
  <2> QED
    BY <2>3, <2>4, <2>5
<1> QED
  BY <1>4, <1>5, <1>6 DEF DepthFacts

FindFacts == \A d \in Nodes : \A nm :
    \/ /\ Find(d, nm) = Null
       /\ \/ type[d] # "dir"
          \/ \A i \in 1 .. Len(children[d]) : name[children[d][i]] # nm
    \/ /\ type[d] = "dir"
       /\ \E i \in 1 .. Len(children[d]) : FirstNamed(d, nm, i)

FindClaim == Linked => FindFacts

LEMMA FindNext == FindClaim'
<1>1. FindClaim
  BY FindIs DEF FindClaim, FindFacts
<1> QED
  BY <1>1, PTL

\* A new node hides at most the nodes of its name beside it.
LEMMA FindAdded ==
    ASSUME TypeOK, Tree, Room, NEW nm0 \in Names, NEW ty \in Types,
           NEW d \in Created, NEW tgt \in Blocks \cup {Null},
           AddNode(nm0, ty, d, tgt), NEW n, n = pool_idx + 1,
           NEW x \in Created, NEW nm
    PROVE  Find(x, nm)' = Find(x, nm) \/ (x = d /\ Find(x, nm)' = n)
<1>0. Linked /\ Linked' /\ Tree' /\ Added(n, d)
  BY AddLists
<1>1. Created \subseteq Nodes /\ x \in Nodes /\ x # n /\ d # n /\ x \notin {n}
  BY <1>0, RootCreated DEF Added
<1>2. type'[x] = type[x] /\ \A m \in Nodes \ {n} : name'[m] = name[m]
  BY <1>1 DEF AddNode, TypeOK
<1>3. \A i \in 1 .. Len(children[x]) : children[x][i] \in Nodes \ {n}
  <2>1. n \notin Created
    BY <1>0 DEF Added
  <2>2. \A i \in 1 .. Len(children[x]) : children[x][i] \in Created
    BY <1>1 DEF Tree, ListsAgree
  <2> QED
    BY <1>1, <2>1, <2>2
<1>4. FindFacts /\ FindFacts'
  BY <1>0, FindIs, FindNext DEF FindFacts, FindClaim
<1>5. PICK s, t : s = children[x] /\ t = children'[x]
  OBVIOUS
<1>6. s \in Seq(Nodes) /\ t \in Seq(Nodes) /\ Len(s) \in Nat /\ Len(t) \in Nat
  BY <1>0, <1>1, <1>5 DEF Linked
<1>7. \/ /\ Find(x, nm) = Null
         /\ \/ type[x] # "dir"
            \/ \A i \in 1 .. Len(s) : name[s[i]] # nm
      \/ /\ type[x] = "dir"
         /\ \E i \in 1 .. Len(s) :
              Find(x, nm) = s[i] /\ name[s[i]] = nm /\ \A j \in 1 .. Len(s) : name[s[j]] = nm => i <= j
  BY <1>1, <1>4, <1>5 DEF FindFacts, FirstNamed
<1>8. \/ /\ Find(x, nm)' = Null
         /\ \/ type'[x] # "dir"
            \/ \A i \in 1 .. Len(t) : name'[t[i]] # nm
      \/ /\ type'[x] = "dir"
         /\ \E i \in 1 .. Len(t) :
              Find(x, nm)' = t[i] /\ name'[t[i]] = nm /\ \A j \in 1 .. Len(t) : name'[t[j]] = nm => i <= j
  BY <1>1, <1>4, <1>5 DEF FindFacts, FirstNamed
<1>9. \A i \in 1 .. Len(s) : name'[s[i]] = name[s[i]]
  BY <1>2, <1>3, <1>5
<1> DEFINE F == Find(x, nm)
           G == Find(x, nm)'
<1> HIDE DEF F, G
<1>10. CASE x # d
  <2>1. t = s
    BY <1>0, <1>1, <1>5, <1>10 DEF Added
  <2> QED
    BY <1>2, <1>6, <1>7, <1>8, <1>9, <2>1
<1>11. CASE x = d
  <2>1. t = <<n>> \o s
    BY <1>0, <1>5, <1>11 DEF Added
  <2>2. Len(t) = Len(s) + 1 /\ t[1] = n /\ \A i \in 1 .. Len(s) : t[i + 1] = s[i]
    BY <1>0, <1>6, <2>1 DEF Added
  <2>3. \A i \in 1 .. Len(t) : i # 1 => i - 1 \in 1 .. Len(s) /\ t[i] = s[i - 1]
    BY <1>6, <2>2
  <2>4. \A i \in 1 .. Len(s) : i + 1 \in 1 .. Len(t)
    BY <1>6, <2>2
  <2>5. CASE type[x] # "dir"
    BY <1>2, <1>7, <1>8, <2>5
  <2>6. ASSUME type[x] = "dir", \A i \in 1 .. Len(t) : name'[t[i]] # nm
        PROVE  Find(x, nm)' = Find(x, nm)
    <3>1. \A i \in 1 .. Len(s) : name[s[i]] # nm
      BY <1>9, <2>2, <2>4, <2>6
    <3> QED
      BY <1>2, <1>7, <1>8, <2>6, <3>1
  <2>7. ASSUME type[x] = "dir",
               NEW i \in 1 .. Len(t), Find(x, nm)' = t[i], name'[t[i]] = nm,
               \A j \in 1 .. Len(t) : name'[t[j]] = nm => i <= j
        PROVE  Find(x, nm)' = n \/ Find(x, nm)' = Find(x, nm)
    <3>1. CASE i = 1
      BY <2>2, <2>7, <3>1
    <3>2. CASE i # 1
      <4>1. i - 1 \in 1 .. Len(s) /\ t[i] = s[i - 1] /\ name[s[i - 1]] = nm
        BY <1>9, <2>3, <2>7, <3>2
      <4>2. PICK k \in 1 .. Len(s) :
              Find(x, nm) = s[k] /\ name[s[k]] = nm /\ \A j \in 1 .. Len(s) : name[s[j]] = nm => k <= j
        BY <1>7, <2>7, <4>1
      <4>3. k <= i - 1
        BY <4>1, <4>2
      <4>4. k + 1 \in 1 .. Len(t) /\ name'[t[k + 1]] = nm
        BY <1>9, <2>2, <2>4, <4>2
      <4>5. i <= k + 1
        BY <2>7, <4>4
      <4>6. k = i - 1
        BY <4>1, <4>3, <4>5
      <4> QED
        BY <2>7, <4>1, <4>2, <4>6
    <3> QED
      BY <3>1, <3>2
  <2> QED
    BY <1>2, <1>8, <1>11, <2>5, <2>6, <2>7
<1> QED
  BY <1>10, <1>11

\* Where a name led from x before f was made: to y, which f may hide by now.
Goes(x, nm, y, f) ==
    /\ x \in Under(Root) /\ y \in Under(Root) /\ x < f /\ y < f
    /\ \/ nm = Empty /\ y = x
       \/ nm = DotDot /\ y = (IF parent[x] = Null THEN x ELSE parent[x])
       \/ /\ nm \notin {Empty, DotDot} /\ Listed(y) /\ parent[y] = x
          /\ Find(x, nm) = y \/ (Find(x, nm) = f /\ parent[f] = x)

\* The way from the root to s along p, as it was before f was made.
Trail(w, p, s, f) ==
    /\ w \in [Nat -> Nodes \cup {Null}]
    /\ w[0] = Root /\ w[Len(p)] = s
    /\ \A i \in 1 .. Len(p) : Goes(w[i - 1], p[i], w[i], f)

\* One step of a lookup that is not lost.
LEMMA StepGoes ==
    ASSUME Linked, Tree, NEW x \in Under(Root), NEW nm, NEW y \in Under(Root),
           y = StepTo(x, nm)
    PROVE  \/ nm = Empty /\ y = x
           \/ nm = DotDot /\ y = (IF parent[x] = Null THEN x ELSE parent[x])
           \/ /\ nm \notin {Empty, DotDot} /\ Listed(y) /\ parent[y] = x
              /\ Find(x, nm) = y
<1>1. /\ x \in Nodes /\ x # Null /\ y # Null /\ y \in Nodes
  BY RootCreated, Walks, NullAssumption DEF UnderFacts
<1>2. CASE nm = Empty
  BY <1>1, <1>2 DEF StepTo
<1>3. CASE nm = DotDot
  BY <1>1, <1>3, NamesAssumption DEF StepTo
<1>4. CASE nm \notin {Empty, DotDot}
  <2>1. y = Find(x, nm)
    BY <1>1, <1>4 DEF StepTo
  <2>2. PICK i \in 1 .. Len(children[x]) : FirstNamed(x, nm, i)
    BY <1>1, <2>1, FindIs
  <2>3. y = children[x][i]
    BY <2>1, <2>2 DEF FirstNamed
  <2>4. parent[y] = x
    BY <1>1, <2>3 DEF Tree, ListsAgree
  <2>5. Listed(y)
    BY <1>1, <2>3, <2>4 DEF Listed
  <2> QED
    BY <1>4, <2>1, <2>4, <2>5
<1> QED
  BY <1>2, <1>3, <1>4

\* A path that leads to a node is not lost on its way.
LEMMA WalkArrives ==
    ASSUME Linked, Tree, NEW p \in Seq(Names), NEW s \in Under(Root), Lookup(p) = s
    PROVE  \E w : /\ w \in [Nat -> Nodes \cup {Null}] /\ w[0] = Root /\ w[Len(p)] = s
                  /\ \A i \in 1 .. Len(p) : /\ w[i - 1] \in Under(Root) /\ w[i] \in Under(Root)
                                            /\ w[i] = StepTo(w[i - 1], p[i])
<1>1. Under(Root) \in SUBSET Nodes /\ s # Null
  BY RootCreated, UnderIs, NullAssumption
<1>2. Root \in Under(Root)
  BY RootCreated, Down DEF DownFacts
<1>3. \A nm : \A c \in Under(Root) \cup {Null} : StepTo(c, nm) \in Under(Root) \cup {Null}
  BY StepsInTree
<1>4. PICK w : IsWalk(w, p, Under(Root))
  BY <1>1, <1>2, <1>3, WalkExists
<1>5. PICK k : k = Len(p)
  OBVIOUS
<1>6. k \in Nat
  BY <1>5
<1>7. /\ w \in [Nat -> Under(Root) \cup {Null}] /\ w[0] = Root /\ w[k] = s
      /\ \A i \in Nat \ {0} : w[i] = StepTo(w[i - 1], p[i])
  BY <1>1, <1>4, <1>5 DEF IsWalk
<1> DEFINE Lost == {i \in 0 .. k : w[i] = Null}
<1>8. ASSUME Lost # {} PROVE FALSE
  <2>1. PICK u \in Lost : \A v \in Lost : v <= u
    <3>1. Lost \in SUBSET (0 .. k)
      OBVIOUS
    <3> HIDE DEF Lost
    <3> QED
      BY <1>6, <1>8, <3>1, Greatest
  <2>2. u \in 0 .. k /\ w[u] = Null /\ u # k
    BY <1>1, <1>7, <2>1
  <2>3. u + 1 \in Nat \ {0} /\ u + 1 \in 0 .. k /\ (u + 1) - 1 = u /\ ~(u + 1 <= u)
    BY <1>6, <2>2
  <2>4. w[u + 1] = StepTo(Null, p[u + 1])
    BY <1>7, <2>2, <2>3
  <2>5. w[u + 1] = Null
    BY <2>4 DEF StepTo
  <2> QED
    BY <2>1, <2>3, <2>5
<1>9. \A i \in 0 .. k : w[i] \in Under(Root)
  BY <1>6, <1>7, <1>8
<1>10. \A i \in 1 .. k : /\ w[i - 1] \in Under(Root) /\ w[i] \in Under(Root)
                         /\ w[i] = StepTo(w[i - 1], p[i])
  <2> SUFFICES ASSUME NEW i \in 1 .. k
               PROVE  /\ w[i - 1] \in Under(Root) /\ w[i] \in Under(Root)
                      /\ w[i] = StepTo(w[i - 1], p[i])
    OBVIOUS
  <2>1. i - 1 \in 0 .. k /\ i \in 0 .. k /\ i \in Nat \ {0}
    BY <1>6
  <2> QED
    BY <1>7, <1>9, <2>1
<1>11. w \in [Nat -> Nodes \cup {Null}]
  BY <1>1, <1>7
<1> QED
  BY <1>5, <1>7, <1>10, <1>11

\* When a node is made the way of before it is known.
LEMMA TrailStarts ==
    ASSUME TypeOK, Tree, Room, NEW nm0 \in Names, NEW ty \in Types,
           NEW d \in Created, NEW tgt \in Blocks \cup {Null},
           AddNode(nm0, ty, d, tgt), NEW n, n = pool_idx + 1,
           Under(Root) \subseteq Under(Root)',
           NEW p \in Seq(Names), NEW s \in Under(Root), Lookup(p) = s
    PROVE  \E w : Trail(w, p, s, n)'
<1>0. Linked /\ Linked' /\ Tree' /\ Added(n, d)
  BY AddLists
<1>1. Under(Root) \subseteq Created /\ Created \subseteq Nodes /\ Nodes \subseteq Nat
      /\ pool_idx \in Nat /\ n \in Nat
  BY <1>0, RootCreated, Walks DEF DownFacts, Linked, Added
<1>2. PICK w : /\ w \in [Nat -> Nodes \cup {Null}] /\ w[0] = Root /\ w[Len(p)] = s
               /\ \A i \in 1 .. Len(p) : /\ w[i - 1] \in Under(Root) /\ w[i] \in Under(Root)
                                         /\ w[i] = StepTo(w[i - 1], p[i])
  BY <1>0, WalkArrives
<1>3. ASSUME NEW x \in Under(Root), NEW y \in Under(Root), NEW nm, y = StepTo(x, nm)
      PROVE  Goes(x, nm, y, n)'
  <2>1. x \in Created /\ y \in Created /\ x \in Under(Root)' /\ y \in Under(Root)'
    BY <1>1
  <2>2. x < n /\ y < n /\ x \in Nodes /\ y \in Nodes
    BY <1>1, <2>1 DEF Created
  <2>3. x # n /\ y # n
    BY <1>0, <2>1 DEF Added
  <2>4. parent'[x] = parent[x] /\ parent'[y] = parent[y] /\ (Listed(y)' <=> Listed(y))
    BY <1>0, <2>2, <2>3 DEF Added
  <2>5. \/ nm = Empty /\ y = x
        \/ nm = DotDot /\ y = (IF parent[x] = Null THEN x ELSE parent[x])
        \/ /\ nm \notin {Empty, DotDot} /\ Listed(y) /\ parent[y] = x
           /\ Find(x, nm) = y
    BY <1>0, <1>3, StepGoes
  <2>6. Find(x, nm)' = Find(x, nm) \/ (x = d /\ Find(x, nm)' = n)
    BY <2>1, FindAdded
  <2>7. parent'[n] = d
    BY <1>0 DEF Added
  <2> QED
    BY <2>1, <2>2, <2>4, <2>5, <2>6, <2>7 DEF Goes
<1>4. \A i \in 1 .. Len(p) : Goes(w[i - 1], p[i], w[i], n)'
  <2> SUFFICES ASSUME NEW i \in 1 .. Len(p) PROVE Goes(w[i - 1], p[i], w[i], n)'
    OBVIOUS
  <2>1. PICK x, y, nm : x = w[i - 1] /\ y = w[i] /\ nm = p[i]
    OBVIOUS
  <2>2. Goes(x, nm, y, n)'
    BY <1>2, <1>3, <2>1
  <2> QED
    BY <2>1, <2>2
<1>5. Trail(w, p, s, n)'
  BY <1>2, <1>4 DEF Trail
<1> QED
  BY <1>5

\* And stays so while nodes are made elsewhere than on it.
LEMMA TrailStays ==
    ASSUME TypeOK, Tree, Room, NEW nm0 \in Names, NEW ty \in Types,
           NEW d \in Created, NEW tgt \in Blocks \cup {Null},
           AddNode(nm0, ty, d, tgt), NEW n, n = pool_idx + 1,
           Under(Root) \subseteq Under(Root)',
           NEW w, NEW p \in Seq(Names), NEW s, NEW f \in Created, f <= d, Trail(w, p, s, f)
    PROVE  Trail(w, p, s, f)'
<1>0. Linked /\ Linked' /\ Tree' /\ Added(n, d)
  BY AddLists
<1>1. Under(Root) \subseteq Created /\ Created \subseteq Nodes /\ Nodes \subseteq Nat
      /\ pool_idx \in Nat /\ n \in Nat
  BY <1>0, RootCreated, Walks DEF DownFacts, Linked, Added
<1>3. ASSUME NEW x, NEW y, NEW nm, Goes(x, nm, y, f)
      PROVE  Goes(x, nm, y, f)'
  <2>1. x \in Created /\ y \in Created /\ x \in Under(Root)' /\ y \in Under(Root)'
        /\ x < f /\ y < f
    BY <1>1, <1>3 DEF Goes
  <2>2. x \in Nodes /\ y \in Nodes /\ f \in Nodes /\ x # d
    BY <1>1, <2>1
  <2>3. x # n /\ y # n /\ f # n
    BY <1>0, <2>1 DEF Added
  <2>4. parent'[x] = parent[x] /\ parent'[y] = parent[y] /\ parent'[f] = parent[f]
        /\ (Listed(y)' <=> Listed(y))
    BY <1>0, <2>2, <2>3 DEF Added
  <2>5. Find(x, nm)' = Find(x, nm)
    BY <2>1, <2>2, FindAdded
  <2> QED
    BY <1>3, <2>1, <2>4, <2>5 DEF Goes
<1>4. \A i \in 1 .. Len(p) : Goes(w[i - 1], p[i], w[i], f)'
  <2> SUFFICES ASSUME NEW i \in 1 .. Len(p) PROVE Goes(w[i - 1], p[i], w[i], f)'
    OBVIOUS
  <2>1. PICK x, y, nm : x = w[i - 1] /\ y = w[i] /\ nm = p[i]
    OBVIOUS
  <2>2. Goes(x, nm, y, f)
    BY <2>1 DEF Trail
  <2>3. Goes(x, nm, y, f)'
    BY <1>3, <2>2
  <2> QED
    BY <2>1, <2>3
<1> QED
  BY <1>4 DEF Trail

\* A lookup that is made now keeps to the way of before, or goes astray below f,
\* as far from the root as it would have been.
Follows(a, b, f) ==
    \/ a = Null
    \/ a = b
    \/ /\ a \in Under(f) /\ b \in Under(parent[f]) \ {parent[f]}
       /\ Depth(a) = Depth(b)

\* A child that is found.
LEMMA FoundChild ==
    ASSUME Linked, Tree, NEW n \in Created, NEW a \in Under(n), NEW nm, Find(a, nm) # Null
    PROVE  /\ Find(a, nm) \in Under(n) /\ Find(a, nm) \in Created
           /\ Listed(Find(a, nm)) /\ parent[Find(a, nm)] = a
<1>1. a \in Nodes /\ Under(n) \subseteq Created
  BY RootCreated, Walks DEF DownFacts, UnderFacts
<1>2. PICK i \in 1 .. Len(children[a]) : FirstNamed(a, nm, i)
  BY <1>1, FindIs
<1>3. PICK c : c = children[a][i] /\ Find(a, nm) = c
  BY <1>2 DEF FirstNamed
<1>4. c \in Under(n) /\ parent[c] = a
  BY <1>1, <1>3, Walks DEF DownFacts, Tree, ListsAgree
<1>5. Listed(c)
  BY <1>1, <1>3, <1>4, NullAssumption DEF Listed
<1> QED
  BY <1>1, <1>3, <1>4, <1>5

LEMMA StepFollows ==
    ASSUME Linked, Tree, NEW f \in Under(Root), f # Root,
           NEW x, NEW y, NEW nm, Goes(x, nm, y, f), NEW a, Follows(a, x, f)
    PROVE  Follows(StepTo(a, nm), y, f)
<1>1. /\ UnderFacts /\ DownFacts /\ ListedFacts /\ UnderTransFacts /\ DepthFacts
      /\ Created \subseteq Nodes /\ Nodes \subseteq Nat /\ Root \in Created
  BY Walks, UnderTrans, RootCreated, DepthIs
<1>2. PICK u : u = parent[f]
  OBVIOUS
<1>3. /\ f \in Created /\ Listed(f) /\ u \in Under(Root) /\ u \in Created /\ f \in Under(f)
      /\ f > Root
  BY <1>1, <1>2 DEF UnderFacts, UnderStep, DownFacts
<1>4. Depth(f) = Depth(u) + 1 /\ Depth(u) \in Nat /\ \A n \in Created : Depth(n) \in Nat
  BY <1>1, <1>2, <1>3 DEF DepthFacts
<1>5. x \in Under(Root) /\ y \in Under(Root) /\ x \in Created /\ y \in Created
      /\ x # Null /\ y # Null
  BY <1>1, NullAssumption DEF Goes, DownFacts
<1>6. \A n \in Created : \A m \in Under(n) \ {n} :
        m \in Created /\ Listed(m) /\ parent[m] \in Under(n) /\ parent[m] \in Created
          /\ parent[m] # Null /\ Depth(m) = Depth(parent[m]) + 1
  <2> SUFFICES ASSUME NEW n \in Created, NEW m \in Under(n) \ {n}
               PROVE  m \in Created /\ Listed(m) /\ parent[m] \in Under(n) /\ parent[m] \in Created
                        /\ parent[m] # Null /\ Depth(m) = Depth(parent[m]) + 1
    OBVIOUS
  <2>1. m \in Created /\ m \in Nodes /\ n \in Nodes
    BY <1>1 DEF DownFacts
  <2>2. Listed(m) /\ parent[m] \in Under(n)
    BY <1>1, <2>1 DEF UnderFacts, UnderStep
  <2>3. parent[m] \in Created /\ parent[m] # Null /\ Depth(m) = Depth(parent[m]) + 1
    BY <1>1, <2>1, <2>2 DEF DepthFacts, Listed
  <2> QED
    BY <2>1, <2>2, <2>3
<1>7. CASE a = Null
  BY <1>7 DEF StepTo, Follows
<1>8. CASE a = x
  <2>1. CASE nm = Empty
    <3>1. StepTo(a, nm) = a /\ y = x
      BY <1>8, <2>1, NamesAssumption DEF StepTo, Goes
    <3> QED
      BY <1>8, <3>1 DEF Follows
  <2>2. CASE nm = DotDot
    <3>1. StepTo(a, nm) = y
      BY <1>5, <1>8, <2>2, NamesAssumption DEF StepTo, Goes
    <3> QED
      BY <3>1 DEF Follows
  <2>3. CASE nm \notin {Empty, DotDot}
    <3>1. StepTo(a, nm) = Find(x, nm)
      BY <1>5, <1>8, <2>3 DEF StepTo
    <3>2. Listed(y) /\ parent[y] = x /\ (Find(x, nm) = y \/ (Find(x, nm) = f /\ u = x))
      BY <1>2, <2>3 DEF Goes
    <3>3. CASE Find(x, nm) = y
      BY <3>1, <3>3 DEF Follows
    <3>4. CASE Find(x, nm) = f /\ u = x
      <4>1. Depth(y) = Depth(x) + 1
        BY <1>1, <1>5, <3>2 DEF DepthFacts
      <4>2. y \in Nodes /\ y > x /\ x \in Nodes /\ x \in Under(x)
        BY <1>1, <1>5, <3>2 DEF ListedFacts, DownFacts
      <4>3. y \in Under(u) \ {u}
        BY <1>1, <3>2, <3>4, <4>2 DEF UnderFacts, UnderStep
      <4> QED
        BY <1>2, <1>3, <1>4, <3>1, <3>4, <4>1, <4>3 DEF Follows
    <3> QED
      BY <3>2, <3>3, <3>4
  <2> QED
    BY <2>1, <2>2, <2>3
<1>9. CASE a \in Under(f) /\ x \in Under(u) \ {u} /\ Depth(a) = Depth(x)
  <2>0. /\ a \in Created /\ a # Null /\ Depth(a) \in Nat /\ Depth(x) \in Nat
        /\ Listed(x) /\ parent[x] \in Under(u) /\ parent[x] \in Created /\ parent[x] # Null
        /\ Depth(x) = Depth(parent[x]) + 1
        /\ Depth(parent[x]) \in Nat
    BY <1>1, <1>3, <1>4, <1>5, <1>6, <1>9, NullAssumption DEF DownFacts
  <2>1. CASE nm = Empty
    <3>1. StepTo(a, nm) = a /\ y = x
      BY <2>1, NamesAssumption DEF StepTo, Goes
    <3> QED
      BY <1>2, <1>9, <3>1 DEF Follows
  <2>2. CASE nm = DotDot
    <3>1. y = parent[x]
      BY <2>0, <2>2, NamesAssumption DEF Goes
    <3>2. StepTo(a, nm) = IF parent[a] = Null THEN a ELSE parent[a]
      BY <2>0, <2>2, NamesAssumption DEF StepTo
    <3>3. CASE a = f
      <4>1. parent[a] = u /\ u # Null
        BY <1>2, <1>3, <3>3 DEF Listed
      <4>2. Depth(y) = Depth(u)
        BY <1>4, <1>9, <2>0, <3>1, <3>3
      <4>3. y = u
        BY <1>1, <1>3, <2>0, <3>1, <4>2 DEF DepthFacts
      <4> QED
        BY <3>2, <4>1, <4>3 DEF Follows
    <3>4. CASE a # f
      <4>1. /\ parent[a] \in Under(f) /\ parent[a] \in Created /\ parent[a] # Null
            /\ Depth(a) = Depth(parent[a]) + 1 /\ Depth(parent[a]) \in Nat
        BY <1>3, <1>4, <1>6, <1>9, <3>4
      <4>2. Depth(parent[a]) = Depth(y)
        BY <1>9, <2>0, <3>1, <4>1
      <4>3. Depth(parent[a]) >= Depth(f)
        BY <1>1, <1>3, <4>1 DEF DepthFacts
      <4>4. Depth(f) \in Nat
        BY <1>3, <1>4
      <4>5. y # u
        BY <1>4, <4>1, <4>2, <4>3, <4>4
      <4> QED
        BY <1>2, <2>0, <3>1, <3>2, <4>1, <4>2, <4>5 DEF Follows
    <3> QED
      BY <3>3, <3>4
  <2>3. CASE nm \notin {Empty, DotDot}
    <3>1. StepTo(a, nm) = Find(a, nm)
      BY <2>0, <2>3 DEF StepTo
    <3>2. Listed(y) /\ parent[y] = x
      BY <2>3 DEF Goes
    <3>3. CASE Find(a, nm) = Null
      BY <3>1, <3>3 DEF Follows
    <3>4. CASE Find(a, nm) # Null
      <4>1. PICK c : c = Find(a, nm)
        OBVIOUS
      <4>2. c \in Under(f) /\ c \in Created /\ Listed(c) /\ parent[c] = a
        BY <1>3, <1>9, <3>4, <4>1, FoundChild
      <4>3. Depth(c) = Depth(a) + 1 /\ Depth(y) = Depth(x) + 1
        BY <1>1, <1>5, <3>2, <4>2 DEF DepthFacts
      <4>4. y \in Nodes /\ y > x /\ x \in Nat /\ y \in Nat /\ u \in Nodes /\ u \in Nat /\ x >= u
        BY <1>1, <1>3, <1>5, <1>9, <3>2 DEF ListedFacts, DownFacts
      <4>5. y > u /\ y # u
        BY <4>4
      <4>6. y \in Under(u)
        BY <1>1, <1>9, <3>2, <4>4, <4>5 DEF UnderFacts, UnderStep
      <4> QED
        BY <1>2, <1>9, <3>1, <4>1, <4>2, <4>3, <4>5, <4>6 DEF Follows
    <3> QED
      BY <3>3, <3>4
  <2> QED
    BY <2>1, <2>2, <2>3
<1> QED
  BY <1>2, <1>7, <1>8, <1>9 DEF Follows

\* So each lookup along the path of the source.
LEMMA WalkFollows ==
    ASSUME Linked, Tree, NEW f \in Under(Root), f # Root,
           NEW w, NEW p \in Seq(Names), NEW s, Trail(w, p, s, f),
           NEW q, NEW v, IsWalk(v, q, Under(Root)),
           NEW k \in Nat, k <= Len(p), \A i \in 1 .. k : q[i] = p[i]
    PROVE  Follows(v[k], w[k], f)
<1> DEFINE S == {i \in Nat : Follows(v[i], w[i], f)}
<1>1. 0 \in S
  BY DEF IsWalk, Trail, Follows
<1>2. ASSUME NEW i \in 1 .. k, i - 1 \in S PROVE i \in S
  <2>1. PICK x, y, a, nm : x = w[i - 1] /\ y = w[i] /\ a = v[i - 1] /\ nm = p[i]
    OBVIOUS
  <2>2. i \in 1 .. Len(p) /\ i \in Nat \ {0} /\ q[i] = nm
    BY <2>1
  <2>3. Goes(x, nm, y, f)
    BY <2>1, <2>2 DEF Trail
  <2>4. Follows(a, x, f)
    BY <1>2, <2>1
  <2>5. v[i] = StepTo(a, nm)
    BY <2>1, <2>2 DEF IsWalk
  <2>6. Follows(StepTo(a, nm), y, f)
    BY <2>3, <2>4, StepFollows
  <2> QED
    BY <2>1, <2>2, <2>5, <2>6
<1>3. \A i \in 0 .. k : i \in S
  <2> HIDE DEF S
  <2> QED
    BY <1>1, <1>2, Climb
<1> QED
  BY <1>3

\* What the path of the source leads to is in the source or in the copy.
LEMMA RemovesOne ==
    ASSUME Linked, Tree, NEW f \in Under(Root), f # Root, NEW s \in Under(Root),
           NEW w, NEW p \in Seq(Names), p # <<>>, Trail(w, p, s, f),
           NEW d \in Created, NEW i \in 1 .. Len(children[d]), Found(p, d, i)
    PROVE  children[d][i] \in Under(s) \/ children[d][i] \in Under(f)
<1>1. /\ UnderFacts /\ DownFacts /\ Under(Root) \in SUBSET Nodes /\ Root \in Under(Root)
      /\ Created \subseteq Nodes /\ Under(Root) \subseteq Created /\ Root \in Created
  BY RootCreated, Walks DEF UnderFacts, DownFacts
<1>2. PICK k, t, nm : k = Len(p) /\ t = children[d][i] /\ nm = p[k]
  OBVIOUS
<1>3. k \in Nat /\ k >= 1 /\ d # Null /\ d = ParentOf(p) /\ t = Find(d, nm)
      /\ f \in Created /\ s \in Created /\ d \in Nodes
  BY <1>1, <1>2, NullAssumption DEF Found, Last
<1>4. k # 1
  BY <1>2, <1>3 DEF ParentOf
<1>5. PICK l : l = k - 1
  OBVIOUS
<1>6. l \in Nat /\ l <= Len(p) /\ l >= 1 /\ k \in 1 .. Len(p) /\ k - 1 = l
  BY <1>2, <1>3, <1>4, <1>5
<1>7. Goes(w[l], nm, s, f)
  BY <1>2, <1>6 DEF Trail
<1>8. Follows(d, w[l], f)
  <2>1. CASE k = 2 /\ p[1] = Empty
    <3>1. d = Root /\ l = 1 /\ 1 \in 1 .. Len(p)
      BY <1>2, <1>3, <1>5, <2>1 DEF ParentOf
    <3>2. Goes(w[0], Empty, w[1], f) /\ w[0] = Root
      BY <2>1, <3>1 DEF Trail
    <3>3. w[1] = Root
      BY <3>2, NamesAssumption DEF Goes
    <3> QED
      BY <3>1, <3>3 DEF Follows
  <2>2. CASE ~(k = 2 /\ p[1] = Empty)
    <3>1. PICK q : q = SubSeq(p, 1, l)
      OBVIOUS
    <3>2. q \in Seq(Names) /\ Len(q) = l /\ \A j \in 1 .. l : q[j] = p[j]
      BY <1>2, <1>6, <3>1
    <3>3. d = Lookup(q)
      BY <1>2, <1>3, <1>4, <1>5, <2>2, <3>1 DEF ParentOf
    <3>4. q # <<Empty>>
      <4>1. ASSUME q = <<Empty>> PROVE FALSE
        <5>1. l = 1 /\ q[1] = Empty /\ 1 \in 1 .. l
          BY <3>2, <4>1
        <5>2. p[1] = Empty /\ k = 2
          BY <1>3, <1>5, <3>2, <5>1
        <5> QED
          BY <2>2, <5>2
      <4> QED
        BY <4>1
    <3>5. \A e : \A c \in Under(Root) \cup {Null} : StepTo(c, e) \in Under(Root) \cup {Null}
      BY StepsInTree
    <3>6. PICK v : IsWalk(v, q, Under(Root))
      BY <1>1, <3>5, WalkExists
    <3>7. d = v[l]
      BY <3>2, <3>3, <3>4, <3>6 DEF IsWalk
    <3>8. Follows(v[l], w[l], f)
      BY <1>6, <3>2, <3>6, WalkFollows
    <3> QED
      BY <3>7, <3>8
  <2> QED
    BY <2>1, <2>2
<1>9. CASE d \in Under(f)
  BY <1>1, <1>2, <1>3, <1>9 DEF DownFacts
<1>10. CASE d = w[l]
  <2>1. Goes(d, nm, s, f)
    BY <1>7, <1>10
  <2>2. ASSUME d \in Under(s) PROVE t \in Under(s)
    BY <1>1, <1>2, <1>3, <2>2 DEF DownFacts
  <2>3. s \in Under(s) /\ f \in Under(f)
    BY <1>1, <1>3 DEF DownFacts
  <2>4. CASE s = d
    BY <1>2, <2>2, <2>3, <2>4
  <2>5. CASE parent[d] # Null /\ s = parent[d]
    <3>1. d \in Under(Root) /\ d # Root
      BY <2>1, <2>5 DEF Goes, Tree, ParentOlder
    <3>2. Listed(d) /\ d \in Nodes
      BY <1>1, <3>1 DEF UnderFacts, UnderStep
    <3>3. d > s /\ s \in Nodes
      BY <1>1, <2>5, <3>2, Walks DEF ListedFacts
    <3>4. d \in Under(s)
      BY <1>1, <2>3, <2>5, <3>2, <3>3 DEF UnderFacts, UnderStep
    <3> QED
      BY <1>2, <2>2, <3>4
  <2>6. CASE Find(d, nm) = s \/ Find(d, nm) = f
    BY <1>2, <1>3, <2>3, <2>6
  <2> QED
    BY <2>1, <2>4, <2>5, <2>6 DEF Goes
<1> QED
  BY <1>3, <1>8, <1>9, <1>10 DEF Follows

\* What is not below the node that is removed stays in the tree.
LEMMA RemoveLeaves ==
    ASSUME TypeOK, Tree, NEW d \in Created, NEW i \in 1 .. Len(children[d]),
           NEW t, t = children[d][i], Remove(d, i), NEW n \in Under(Root), n \notin Under(t)
    PROVE  n \in Under(Root)'
<1>1. /\ Linked /\ Linked' /\ Tree /\ Tree' /\ parent' = parent /\ t \in Created
      /\ \A m \in Nodes : Listed(m)' <=> Listed(m) /\ m # t
  BY RemoveLists
<1>2. /\ UnderFacts /\ UnderLeastFacts /\ DownFacts /\ Root \in Nodes /\ t \in Nodes
      /\ Created \subseteq Nodes /\ Nodes \subseteq Nat /\ t \in Under(t)
  BY <1>1, RootCreated, Walks DEF DownFacts
<1>3. PICK V : V = Under(Root)'
  OBVIOUS
<1>4. \A m \in Nodes : m \in V <=> m = Root \/ (m > Root /\ Listed(m)' /\ parent'[m] \in V)
  BY <1>1, <1>2, <1>3, WalksNext DEF WalksClaim, UnderFacts, UnderStep, Nodes, Root
<1>5. Root \in V
  BY <1>2, <1>4
<1> DEFINE S == {m \in Nodes : m \in Under(t) \/ m \in V}
<1>6. ASSUME NEW m \in Under(Root) \ {Root}, m > Root, Listed(m), parent[m] \in Under(Root) \cap S
      PROVE  m \in S
  <2>1. m \in Nodes /\ m \in Nat /\ t \in Nat
    BY <1>2 DEF UnderFacts
  <2>2. CASE m = t
    BY <1>2, <2>1, <2>2
  <2>3. CASE m # t /\ parent[m] \in V
    BY <1>1, <1>4, <1>6, <2>1, <2>3
  <2>4. CASE parent[m] \in Under(t)
    <3>1. parent[m] >= t /\ m > parent[m] /\ parent[m] \in Nat
      BY <1>1, <1>2, <1>6, <2>1, <2>4, Walks DEF DownFacts, ListedFacts
    <3>2. m > t
      BY <2>1, <3>1
    <3>3. m \in Under(t)
      BY <1>2, <1>6, <2>1, <2>4, <3>2 DEF UnderFacts, UnderStep
    <3> QED
      BY <2>1, <3>3
  <2> QED
    BY <1>6, <2>2, <2>3, <2>4
<1>7. S \in SUBSET Nodes /\ Root \in S
  BY <1>2, <1>5
<1>8. Under(Root) \subseteq S
  <2> HIDE DEF S
  <2> QED
    BY <1>2, <1>6, <1>7 DEF UnderLeastFacts
<1> QED
  BY <1>3, <1>8

\* A move that has not failed in the middle can still tell the way to its source.
MoveInv == Proper /\ job.op = "mv" =>
    /\ job.first = Null => Lookup(job.from) = job.src
    /\ job.first # Null => \E w : Trail(w, job.from, job.src, job.first)

LEMMA QuietLookup ==
    ASSUME UNCHANGED tree, NEW p
    PROVE  Lookup(p)' = Lookup(p)
<1>1. parent' = parent /\ name' = name /\ type' = type /\ children' = children
  BY DEF tree
<1> QED
  BY <1>1 DEF Lookup, Find

LEMMA QuietTrail ==
    ASSUME UNCHANGED tree, NEW w, NEW p, NEW s, NEW f, Trail(w, p, s, f)
    PROVE  Trail(w, p, s, f)'
<1>1. /\ parent' = parent /\ name' = name /\ type' = type /\ children' = children
      /\ Under(Root)' = Under(Root)
  BY TreeUnchanged DEF tree
<1>2. ASSUME NEW x, NEW y, NEW nm PROVE Goes(x, nm, y, f)' <=> Goes(x, nm, y, f)
  BY <1>1 DEF Goes, Find, Listed
<1> QED
  BY <1>2 DEF Trail

LEMMA StartMoves ==
    ASSUME TreeInv, NEW op \in {"cp", "mv"}, NEW p \in Paths, NEW q \in Paths,
           StartCopy(op, p, q)
    PROVE  MoveInv'
<1>1. UNCHANGED tree
  BY DEF StartCopy
<1>2. PICK s \in Created, d \in Created, deep \in BOOLEAN :
        /\ s = Lookup(p)
        /\ job' = [IF op = "cp" THEN NoJob ELSE Move(s, p, q) EXCEPT
                     !.op = op, !.inside = d \in Under(s),
                     !.had = IF op = "cp" THEN <<>> ELSE Holding(s),
                     !.want = IF deep THEN Shape(s) ELSE {<<<<>>, type[s], 1>>}]
  BY DEF StartCopy
<1>3. /\ job'.first = Null
      /\ job'.op = "mv" => job'.src = s /\ job'.from = p
  <2>1. CASE op = "cp"
    BY <1>2, <2>1 DEF NoJob
  <2>2. CASE op = "mv"
    BY <1>2, <2>2 DEF NoJob, Move
  <2> QED
    BY <2>1, <2>2
<1>4. Lookup(p)' = s
  BY <1>1, <1>2, QuietLookup
<1>5. ASSUME job'.op = "mv" PROVE Lookup(job.from)' = job'.src
  <2>0. job'.from = p
    BY <1>3, <1>5
  <2>1. Lookup(job.from)' = Lookup(p)'
    BY <2>0 DEF Lookup
  <2> QED
    BY <1>3, <1>4, <1>5, <2>1
<1> QED
  BY <1>3, <1>5 DEF MoveInv

LEMMA NodeMoves ==
    ASSUME TreeInv, CopyInv, MoveInv, CopyNode
    PROVE  MoveInv'
<1> SUFFICES ASSUME Proper', job'.op = "mv" PROVE MoveInv'
  BY DEF MoveInv
<1>0. TypeOK /\ Tree /\ Linked /\ Under(Root) \subseteq Created
  BY RootCreated, Walks DEF TreeInv, Inv, TypeOK, Linked, DownFacts
<1>1. /\ Linked' /\ Tree' /\ Under(Root) \subseteq Under(Root)'
  BY NextCopy
<1>2. PICK n : n = pool_idx + 1
  OBVIOUS
<1>3. PICK it : it = todo[1]
  OBVIOUS
<1>4. /\ todo \in Seq(Items) /\ todo # <<>> /\ it \in Items /\ 1 \in 1 .. Len(todo) /\ Head(todo) = it
      /\ it.dst \in Created /\ it.name \in Names /\ type[it.src] \in Types
  <2>1. todo \in Seq(Items) /\ todo # <<>>
    BY <1>0 DEF TypeOK, CopyNode
  <2>2. it \in Items /\ 1 \in 1 .. Len(todo) /\ Head(todo) = it
    BY <1>3, <2>1
  <2>3. it.dst \in Created
    BY <1>3, <2>2 DEF TreeInv, Inv, TodoCreated
  <2>4. it.name \in Names /\ it.src \in Nodes
    BY <2>2 DEF Items
  <2>5. type[it.src] \in Types
    BY <1>0, <2>4 DEF TypeOK
  <2> QED
    BY <2>1, <2>2, <2>3, <2>4, <2>5
<1>5. Room /\ AddNode(it.name, type[it.src], it.dst, Null)
  BY <1>4 DEF CopyNode, LinkCopy
<1>6. n \in Nodes
  BY <1>0, <1>2, <1>5, PoolAssumption DEF Linked, Room, Nodes
<1>7. n # Null
  BY <1>6, NullAssumption
<1>8. /\ phase = "copy" /\ job'.first = IF job.first = Null THEN n ELSE job.first
      /\ job'.failed = job.failed /\ job'.inside = job.inside
      /\ job'.op = job.op /\ job'.src = job.src /\ job'.from = job.from
  <2>1. phase = "copy" /\ job' = [job EXCEPT !.first = IF @ = Null THEN n ELSE @]
    BY <1>2 DEF CopyNode
  <2> QED
    BY <2>1 DEF TreeInv, SourceKnown
<1>9. Proper /\ job.op = "mv"
  BY <1>7, <1>8 DEF Proper
<1>10. PICK s, deep : /\ Wanted(s, deep)
                      /\ job.first = Null => Waiting(s, deep)
                      /\ job.first # Null => Underway(s, job.first, deep)
  BY <1>9 DEF CopyInv
<1>11. PICK p : p = job.from
  OBVIOUS
<1>12. s = job.src /\ s \in Under(Root) /\ p \in Paths /\ p \in Seq(Names)
  BY <1>9, <1>10, <1>11, NamesAssumption DEF Wanted, TreeInv, SourceKnown
<1>13. ASSUME NEW f, job'.first = f, NEW w, Trail(w, p, s, f)' PROVE MoveInv'
  <2>1. Trail(w, job.from, job.src, job.first)'
    <3>1. job'.from = p /\ job'.src = s /\ job'.first = f
      BY <1>8, <1>11, <1>12, <1>13
    <3> QED
      BY <1>13, <3>1 DEF Trail
  <2>2. job'.first # Null
    BY <1>7, <1>8
  <2> QED
    BY <2>1, <2>2 DEF MoveInv
<1>14. CASE job.first = Null
  <2>1. Lookup(p) = s
    BY <1>9, <1>11, <1>12, <1>14 DEF MoveInv
  <2>2. \E w : Trail(w, p, s, n)'
    BY <1>0, <1>1, <1>2, <1>4, <1>5, <1>12, <2>1, TrailStarts
  <2> QED
    BY <1>8, <1>13, <1>14, <2>2
<1>15. CASE job.first # Null
  <2>1. PICK f : f = job.first
    OBVIOUS
  <2>2. PICK w : Trail(w, p, s, f)
    BY <1>9, <1>11, <1>12, <1>15, <2>1 DEF MoveInv
  <2>3. PICK o : Mirrored(s, f, o) /\ IF deep THEN Pending(s, f, o) ELSE todo = <<>> /\ pool_idx = f
    BY <1>10, <1>15, <2>1 DEF Underway
  <2>4. Asked(s, f, o, it)
    BY <1>3, <1>4, <2>3 DEF Pending
  <2>5. f <= it.dst /\ f \in Created
    BY <1>0, <2>3, <2>4, CopiesUnder DEF Asked
  <2>6. Trail(w, p, s, f)'
    BY <1>0, <1>1, <1>2, <1>4, <1>5, <1>12, <2>2, <2>5, TrailStays
  <2> QED
    BY <1>8, <1>13, <1>15, <2>1, <2>6
<1> QED
  BY <1>14, <1>15

\* A step of a copy that leaves the tree alone.
LEMMA QuietMoves ==
    ASSUME TreeInv, MoveInv, UNCHANGED tree, phase' = phase,
           job' = job \/ CopyFails
    PROVE  MoveInv'
<1> SUFFICES ASSUME Proper', job'.op = "mv" PROVE MoveInv'
  BY DEF MoveInv
<1>1. /\ job'.first = job.first /\ job'.op = job.op /\ job'.src = job.src /\ job'.from = job.from
      /\ job'.inside = job.inside /\ (job.failed => job'.failed)
  <2>1. CASE job' = job
    BY <2>1
  <2>2. CASE CopyFails
    BY <2>2 DEF CopyFails, TreeInv, SourceKnown
  <2> QED
    BY <2>1, <2>2
<1>2. Proper /\ job.op = "mv"
  BY <1>1 DEF Proper
<1>3. CASE job.first = Null
  <2>1. PICK p : p = job.from
    OBVIOUS
  <2>2. Lookup(p)' = job.src
    BY <1>2, <1>3, <2>1, QuietLookup DEF MoveInv
  <2>3. Lookup(job.from)' = Lookup(p)'
    BY <1>1, <2>1 DEF Lookup
  <2> QED
    BY <1>1, <1>3, <2>2, <2>3 DEF MoveInv
<1>4. CASE job.first # Null
  <2>1. PICK p, s, f : p = job.from /\ s = job.src /\ f = job.first
    OBVIOUS
  <2>2. PICK w : Trail(w, p, s, f)
    BY <1>2, <1>4, <2>1 DEF MoveInv
  <2>3. Trail(w, p, s, f)'
    BY <2>2, QuietTrail
  <2>4. Trail(w, job.from, job.src, job.first)'
    BY <1>1, <2>1, <2>3 DEF Trail
  <2> QED
    BY <1>1, <1>4, <2>4 DEF MoveInv
<1> QED
  BY <1>3, <1>4

LEMMA StepMoves == TreeInv /\ CopyInv /\ MoveInv /\ [Next]_vars => MoveInv'
<1> SUFFICES ASSUME TreeInv, CopyInv, MoveInv, [Next]_vars PROVE MoveInv'
  OBVIOUS
<1>1. ASSUME phase = "idle", UNCHANGED copying PROVE MoveInv'
  BY <1>1 DEF copying, MoveInv, Proper
<1>2. ASSUME NEW op \in {"cp", "mv"}, NEW p \in Paths, NEW q \in Paths,
             StartCopy(op, p, q)
      PROVE  MoveInv'
  BY <1>2, StartMoves
<1>3. CASE CopyNode
  BY <1>3, NodeMoves
<1>4. CASE CopyFails
  <2>1. UNCHANGED tree /\ phase' = phase
    BY <1>4 DEF CopyFails
  <2> QED
    BY <1>4, <2>1, QuietMoves
<1>5. CASE Return \/ Prompt
  BY <1>5 DEF Return, Prompt, MoveInv, Proper
<1>6. CASE UNCHANGED vars
  <2>1. UNCHANGED tree /\ phase' = phase /\ job' = job
    BY <1>6 DEF vars, copying
  <2> QED
    BY <2>1, QuietMoves
<1> QED
  BY <1>1, <1>2, <1>3, <1>4, <1>5, <1>6, CommandChanges DEF Next, Copying

\* What mv returns with: the source is as it was while the copy is made, and no
\* node of the copy has a link target.
HeldInv == Proper /\ job.op = "mv" =>
    /\ job.had = Holding(job.src)
    /\ job.first # Null => \A m \in Created : m >= job.first => target[m] = Null

LEMMA QuietHolding ==
    ASSUME UNCHANGED tree, NEW s
    PROVE  Holding(s)' = Holding(s)
<1>1. Under(s)' = Under(s)
  BY TreeUnchanged
<1>2. parent' = parent /\ name' = name /\ type' = type /\ target' = target
  BY DEF tree
<1> QED
  BY <1>1, <1>2 DEF Holding

LEMMA SparedHolding ==
    ASSUME Linked, Tree, NEW s \in Created, Spared(s),
           \A m \in Under(s) : target'[m] = target[m]
    PROVE  Holding(s)' = Holding(s)
<1>1. Kept(s)
  BY SparedKept
<1> QED
  BY <1>1 DEF Kept, Holding

LEMMA StartHeld ==
    ASSUME TreeInv, NEW op \in {"cp", "mv"}, NEW p \in Paths, NEW q \in Paths,
           StartCopy(op, p, q)
    PROVE  HeldInv'
<1>1. UNCHANGED tree
  BY DEF StartCopy
<1>2. PICK s \in Created, d \in Created, deep \in BOOLEAN :
        job' = [IF op = "cp" THEN NoJob ELSE Move(s, p, q) EXCEPT
                  !.op = op, !.inside = d \in Under(s),
                  !.had = IF op = "cp" THEN <<>> ELSE Holding(s),
                  !.want = IF deep THEN Shape(s) ELSE {<<<<>>, type[s], 1>>}]
  BY DEF StartCopy
<1>3. PICK had : had = Holding(s)
  OBVIOUS
<1>4. job'.op = "mv" => job'.src = s /\ job'.had = had /\ job'.first = Null
  <2>1. CASE op = "cp"
    BY <1>2, <2>1 DEF NoJob
  <2>2. CASE op = "mv"
    BY <1>2, <1>3, <2>2 DEF NoJob, Move
  <2> QED
    BY <2>1, <2>2
<1>5. Holding(s)' = had
  BY <1>1, <1>3, QuietHolding
<1>6. ASSUME job'.op = "mv" PROVE job'.had = Holding(job.src)'
  <2>1. job'.src = s
    BY <1>4, <1>6
  <2>2. Holding(job.src)' = Holding(s)'
    BY <2>1 DEF Holding
  <2> QED
    BY <1>4, <1>5, <1>6, <2>2
<1> QED
  BY <1>4, <1>6 DEF HeldInv

\* A node of the copy is made outside its source.
LEMMA NodeOutside ==
    ASSUME TreeInv, CopyInv, CopyNode, NEW n, NEW it, NEW kids, Made(n, it, kids),
           Proper, job.op = "mv", ~job.failed
    PROVE  SourceStays(job.src, n, it, kids)
<1>0. TypeOK /\ Tree /\ Linked
  BY DEF TreeInv, Inv, TypeOK, Linked
<1>1. PICK s, deep : /\ Wanted(s, deep)
                     /\ job.first = Null => Waiting(s, deep)
                     /\ job.first # Null => Underway(s, job.first, deep)
  BY DEF CopyInv
<1>2. s \in Under(Root) /\ deep \in BOOLEAN /\ job.src = s
  BY <1>1 DEF Wanted
<1>3. CASE job.first = Null
  <2>1. it.src = s /\ it.dst \notin Under(s)
    BY <1>1, <1>3 DEF Waiting, Made
  <2>2. s \in Under(s)
    BY <1>0, <1>2, RootCreated, Walks DEF DownFacts
  <2> QED
    BY <1>2, <2>1, <2>2, MadeOutside
<1>4. CASE job.first # Null
  <2>1. PICK f : f = job.first
    OBVIOUS
  <2>2. PICK o : Mirrored(s, f, o) /\ IF deep THEN Pending(s, f, o) ELSE todo = <<>> /\ pool_idx = f
    BY <1>1, <1>4, <2>1 DEF Underway
  <2>3. Pending(s, f, o) /\ it = todo[1] /\ 1 \in 1 .. Len(todo)
    BY <1>2, <2>2 DEF Made
  <2>4. Asked(s, f, o, it)
    BY <2>3 DEF Pending
  <2>5. it.src \in Under(s) /\ it.dst \notin Under(s)
    BY <2>2, <2>4 DEF Asked, Mirrored
  <2> QED
    BY <1>2, <2>5, MadeOutside
<1> QED
  BY <1>3, <1>4

LEMMA NodeHeld ==
    ASSUME TreeInv, CopyInv, HeldInv, CopyNode
    PROVE  HeldInv'
<1> SUFFICES ASSUME Proper', job'.op = "mv" PROVE HeldInv'
  BY DEF HeldInv
<1>0. TypeOK /\ Tree /\ Linked
  BY DEF TreeInv, Inv, TypeOK, Linked
<1>1. PICK n, it, kids : Made(n, it, kids)
  BY NextCopy
<1>2. n = pool_idx + 1 /\ n \in Nodes /\ n \notin Created /\ n # Null
      /\ pool_idx' = n /\ target' = [target EXCEPT ![n] = Null]
  BY <1>1, NullAssumption DEF Made, Added, AddNode
<1>3. /\ phase = "copy" /\ job'.first = IF job.first = Null THEN n ELSE job.first
      /\ job'.failed = job.failed /\ job'.inside = job.inside
      /\ job'.op = job.op /\ job'.src = job.src /\ job'.had = job.had
  <2>1. phase = "copy" /\ job' = [job EXCEPT !.first = IF @ = Null THEN n ELSE @]
    BY <1>2 DEF CopyNode
  <2> QED
    BY <2>1 DEF TreeInv, SourceKnown
<1>4. Proper /\ job.op = "mv" /\ ~job.failed
  BY <1>2, <1>3 DEF Proper
<1>5. PICK s : s = job.src
  OBVIOUS
<1>6. SourceStays(s, n, it, kids)
  BY <1>1, <1>4, <1>5, NodeOutside
<1>7. \A m \in Created : target'[m] = target[m]
  BY <1>0, <1>2, RootCreated DEF TypeOK
<1>8. Holding(s)' = Holding(s)
  BY <1>0, <1>6, <1>7, SparedHolding DEF SourceStays
<1>9. job'.had = Holding(job.src)'
  <2>1. job'.src = s
    BY <1>3, <1>5
  <2>2. Holding(job.src)' = Holding(s)'
    BY <2>1 DEF Holding
  <2>3. job.had = Holding(s)
    BY <1>4, <1>5 DEF HeldInv
  <2> QED
    BY <1>3, <1>8, <2>2, <2>3
<1>10. ASSUME NEW m \in Created', m >= job'.first PROVE target'[m] = Null
  <2>1. CASE m = n
    BY <1>0, <1>2, <2>1 DEF TypeOK
  <2>2. CASE m # n
    <3>1. m \in Created /\ m \in Nat /\ n \in Nat /\ m < n
      BY <1>0, <1>2, <2>2, RootCreated DEF Created, Linked, Nodes
    <3>2. job.first # Null /\ m >= job.first
      BY <1>3, <1>10, <3>1
    <3>3. target[m] = Null
      BY <1>4, <3>1, <3>2 DEF HeldInv
    <3> QED
      BY <1>7, <3>1, <3>3
  <2> QED
    BY <2>1, <2>2
<1> QED
  BY <1>9, <1>10 DEF HeldInv

\* A step of a copy that leaves the tree alone.
LEMMA QuietHeld ==
    ASSUME TreeInv, HeldInv, UNCHANGED tree, phase' = phase,
           job' = job \/ CopyFails
    PROVE  HeldInv'
<1> SUFFICES ASSUME Proper', job'.op = "mv" PROVE HeldInv'
  BY DEF HeldInv
<1>1. /\ job'.first = job.first /\ job'.op = job.op /\ job'.src = job.src /\ job'.had = job.had
      /\ job'.inside = job.inside /\ (job.failed => job'.failed)
  <2>1. CASE job' = job
    BY <2>1
  <2>2. CASE CopyFails
    BY <2>2 DEF CopyFails, TreeInv, SourceKnown
  <2> QED
    BY <2>1, <2>2
<1>2. Proper /\ job.op = "mv"
  BY <1>1 DEF Proper
<1>3. PICK s : s = job.src
  OBVIOUS
<1>4. Holding(s)' = Holding(s)
  BY QuietHolding
<1>5. Holding(job.src)' = Holding(s)'
  <2>1. job'.src = s
    BY <1>1, <1>3
  <2> QED
    BY <2>1 DEF Holding
<1>6. job'.had = Holding(job.src)'
  BY <1>1, <1>2, <1>3, <1>4, <1>5 DEF HeldInv
<1>7. Created' = Created /\ target' = target
  BY DEF tree, Created
<1> QED
  BY <1>1, <1>2, <1>6, <1>7 DEF HeldInv

LEMMA StepHeld == TreeInv /\ CopyInv /\ HeldInv /\ [Next]_vars => HeldInv'
<1> SUFFICES ASSUME TreeInv, CopyInv, HeldInv, [Next]_vars PROVE HeldInv'
  OBVIOUS
<1>1. ASSUME phase = "idle", UNCHANGED copying PROVE HeldInv'
  BY <1>1 DEF copying, HeldInv, Proper
<1>2. ASSUME NEW op \in {"cp", "mv"}, NEW p \in Paths, NEW q \in Paths,
             StartCopy(op, p, q)
      PROVE  HeldInv'
  BY <1>2, StartHeld
<1>3. CASE CopyNode
  BY <1>3, NodeHeld
<1>4. CASE CopyFails
  <2>1. UNCHANGED tree /\ phase' = phase
    BY <1>4 DEF CopyFails
  <2> QED
    BY <1>4, <2>1, QuietHeld
<1>5. CASE Return \/ Prompt
  BY <1>5 DEF Return, Prompt, HeldInv, Proper
<1>6. CASE UNCHANGED vars
  <2>1. UNCHANGED tree /\ phase' = phase /\ job' = job
    BY <1>6 DEF vars, copying
  <2> QED
    BY <2>1, QuietHeld
<1> QED
  BY <1>1, <1>2, <1>3, <1>4, <1>5, <1>6, CommandChanges DEF Next, Copying

\* What mv leaves is the source, or else the copy.
LEMMA ReturnKeeps ==
    ASSUME TreeInv, CopyInv, MoveInv, HeldInv, Return
    PROVE  MvKeepsOne'
<1> SUFFICES ASSUME job'.op = "mv", ~job'.inside, job'.failed => job'.first = Null
             PROVE  MvKeepsOne'
  BY DEF MvKeepsOne
<1>0. TypeOK /\ Tree /\ Linked /\ Under(Root) \in SUBSET Nodes /\ Under(Root) \subseteq Created
      /\ Nodes \subseteq Nat
  BY RootCreated, Walks DEF TreeInv, Inv, TypeOK, Linked, UnderFacts, DownFacts
<1>1. phase = "copy" /\ todo = <<>> /\ job' = job
  BY DEF Return
<1>2. Proper /\ job.op = "mv"
  BY <1>1 DEF Proper
<1>3. PICK s, deep : /\ Wanted(s, deep)
                     /\ job.first = Null => Waiting(s, deep)
                     /\ job.first # Null => Underway(s, job.first, deep)
  BY <1>2 DEF CopyInv
<1>4. s \in Under(Root) /\ s = job.src /\ s \in Nodes /\ s # Null /\ s \in Created
  BY <1>0, <1>2, <1>3, NullAssumption DEF Wanted
<1>5. PICK want, had, f, p : want = job.want /\ had = job.had /\ f = job.first /\ p = job.from
  OBVIOUS
<1>6. had = Holding(s)
  BY <1>2, <1>4, <1>5 DEF HeldInv
<1>7. ASSUME s \in Under(Root)', Holding(s)' = Holding(s)
      PROVE  MvKeepsOne'
  <2>1. job'.src = s /\ job'.had = had
    BY <1>1, <1>4, <1>5
  <2>2. InTree(job.src)' /\ Holding(job.src)' = Holding(s)'
    BY <1>7, <2>1 DEF InTree, Holding
  <2> QED
    BY <1>6, <1>7, <2>1, <2>2 DEF MvKeepsOne
<1>8. ASSUME f # Null, f \in Under(Root)', Shape(f)' = want,
             \A m \in Under(f)' : target'[m] = Null
      PROVE  MvKeepsOne'
  <2>1. job'.first = f /\ job'.want = want
    BY <1>1, <1>5
  <2>2. /\ InTree(job.first)' /\ Shape(job.first)' = Shape(f)'
        /\ Under(job.first)' = Under(f)'
    BY <1>8, <2>1 DEF InTree, Shape, Below, Under
  <2> QED
    BY <1>8, <2>1, <2>2 DEF MvKeepsOne
<1>9. CASE UNCHANGED tree
  <2>1. Under(Root)' = Under(Root) /\ Holding(s)' = Holding(s)
    BY <1>9, QuietHolding, TreeUnchanged
  <2> QED
    BY <1>4, <1>7, <2>1
<1>10. CASE ~UNCHANGED tree
  <2>1. Succeeded /\ RemoveSource
    BY <1>10 DEF Return
  <2>2. PICK d \in Created : \E i \in 1 .. Len(children[d]) : Found(job.from, d, i) /\ Remove(d, i)
    BY <1>10, <2>1 DEF RemoveSource
  <2>3. PICK i \in 1 .. Len(children[d]) : Found(job.from, d, i) /\ Remove(d, i)
    BY <2>2
  <2>4. PICK t : t = children[d][i]
    OBVIOUS
  <2>5. target' = target /\ pool_idx' = pool_idx
    BY <2>3 DEF Remove
  <2>6. f # Null /\ Underway(s, f, deep)
    BY <1>3, <1>5, <2>1 DEF Succeeded
  <2>7. PICK o : Mirrored(s, f, o)
    BY <2>6 DEF Underway
  <2>8. PICK w : Trail(w, p, s, f)
    BY <1>2, <1>4, <1>5, <2>6 DEF MoveInv
  <2>9. f \in Under(Root) /\ f # Root /\ f \in Created
    <3>1. f \in Under(Root) /\ s < f /\ s \in Nat
      BY <1>0, <1>4, <2>7 DEF Mirrored
    <3> QED
      BY <1>0, <1>4, <3>1 DEF Root
  <2>10. p \in Seq(Names) /\ p # <<>>
    BY <1>2, <1>5, NamesAssumption DEF TreeInv, SourceKnown
  <2>11. t \in Under(s) \/ t \in Under(f)
    BY <1>0, <1>4, <1>5, <2>3, <2>4, <2>8, <2>9, <2>10, RemovesOne
  <2>12. /\ \A m \in Under(f) : m \notin Under(s)
         /\ s \in Under(s) /\ f \in Under(f)
    <3>1. \A m \in Under(f) : m \notin Under(s)
      BY <1>0, <2>7, CopiesUnder DEF Mirrored
    <3> QED
      BY <1>0, <1>4, <2>9, <3>1, Walks DEF DownFacts
  <2>13. Shape(f) = want
    <3>1. ~job.inside /\ ~job.failed
      BY <1>2, <2>6 DEF Proper, Underway
    <3> QED
      BY <1>0, <1>1, <1>5, <3>1, CopiedWhole DEF CopyWhole
  <2>14. UnderTransFacts
    BY <1>0, UnderTrans
  <2>15. CASE t \in Under(s)
    <3>1. t \notin Under(f) /\ f \notin Under(t)
      BY <1>4, <2>9, <2>12, <2>14, <2>15 DEF UnderTransFacts
    <3>2. f \in Under(Root)'
      BY <1>0, <2>3, <2>4, <2>9, <3>1, RemoveLeaves
    <3>3. Spared(f)
      BY <1>0, <2>3, <2>4, <2>9, <3>1, RemoveSpares
    <3>4. Shape(f)' = Shape(f) /\ Under(f)' = Under(f)
      BY <1>0, <2>9, <3>3, SparedKept DEF Kept
    <3>5. \A m \in Under(f) : m \in Created /\ m >= f
      BY <1>0, <2>9, Walks DEF DownFacts
    <3>6. \A m \in Under(f) : target[m] = Null
      BY <1>2, <1>5, <2>6, <3>5 DEF HeldInv
    <3> QED
      BY <1>8, <2>5, <2>6, <2>13, <3>2, <3>4, <3>6
  <2>16. CASE t \in Under(f)
    <3>1. t \notin Under(s) /\ s \notin Under(t)
      BY <1>4, <2>9, <2>12, <2>14, <2>16 DEF UnderTransFacts
    <3>2. s \in Under(Root)'
      BY <1>0, <1>4, <2>3, <2>4, <3>1, RemoveLeaves
    <3>3. Spared(s)
      BY <1>0, <1>4, <2>3, <2>4, <3>1, RemoveSpares
    <3>4. Holding(s)' = Holding(s)
      BY <1>0, <1>4, <2>5, <3>3, SparedHolding
    <3> QED
      BY <1>7, <3>2, <3>4
  <2> QED
    BY <2>11, <2>15, <2>16
<1> QED
  BY <1>9, <1>10

LEMMA StepMvKeepsOne ==
    TreeInv /\ CopyInv /\ MoveInv /\ HeldInv /\ MvKeepsOne /\ [Next]_vars => MvKeepsOne'
<1> SUFFICES ASSUME TreeInv, CopyInv, MoveInv, HeldInv, MvKeepsOne, [Next]_vars
             PROVE  MvKeepsOne'
  OBVIOUS
<1>1. ASSUME phase = "idle", UNCHANGED copying PROVE MvKeepsOne'
  BY <1>1 DEF copying, MvKeepsOne
<1>2. ASSUME NEW op \in {"cp", "mv"}, NEW p \in Paths, NEW q \in Paths,
             StartCopy(op, p, q)
      PROVE  MvKeepsOne'
  BY <1>2 DEF StartCopy, MvKeepsOne
<1>3. CASE CopyNode \/ CopyFails
  BY <1>3 DEF CopyNode, CopyFails, MvKeepsOne
<1>4. CASE Return
  BY <1>4, ReturnKeeps
<1>5. CASE Prompt
  BY <1>5 DEF Prompt, MvKeepsOne
<1>6. ASSUME UNCHANGED vars PROVE MvKeepsOne'
  <2>1. UNCHANGED <<tree, job, phase>> /\ TypeOK /\ Tree /\ Linked
    BY <1>6 DEF vars, copying, TreeInv, Inv, TypeOK, Linked
  <2>2. PICK s, f : s = job.src /\ f = job.first
    OBVIOUS
  <2>3. /\ Under(Root)' = Under(Root) /\ Under(f)' = Under(f) /\ target' = target
        /\ Holding(s)' = Holding(s)
    <3>1. UNCHANGED tree /\ target' = target
      BY <2>1 DEF tree
    <3> QED
      BY <3>1, QuietHolding, TreeUnchanged
  <2>4. \A n \in Under(Root) : Shape(n)' = Shape(n)
    BY <2>1, QuietShape
  <2>5. /\ InTree(job.src)' <=> InTree(s) /\ Holding(job.src)' = Holding(s)
    BY <2>1, <2>2, <2>3 DEF InTree, Holding
  <2>6. job'.first = f
    BY <2>1, <2>2
  <2>7. InTree(job.first)' <=> InTree(f)
    BY <2>3, <2>6 DEF InTree
  <2>8. Under(job.first)' = Under(f)' /\ Shape(job.first)' = Shape(f)'
    BY <2>6 DEF Shape, Below, Under
  <2>9. InTree(f) => Shape(job.first)' = Shape(f)
    BY <2>4, <2>8 DEF InTree
  <2>10. Under(job.first)' = Under(f)
    BY <2>3, <2>8
  <2> QED
    BY <2>1, <2>2, <2>3, <2>5, <2>7, <2>9, <2>10 DEF MvKeepsOne
<1> QED
  BY <1>1, <1>2, <1>3, <1>4, <1>5, <1>6, CommandChanges DEF Next, Copying

\* Whichever of the two nodes its path leads to when the copy is there, mv leaves
\* the other one, and in the tree: the source with all it holds, or what vfs_cp
\* makes of it, which is without link targets and, of a file or link moved onto a
\* path, without what is linked below it (vfs.c:229-287).
THEOREM MovesLeaveOne == Spec => []MvKeepsOne
<1>1. Init => TreeInv /\ CopyInv /\ MoveInv /\ HeldInv /\ MvKeepsOne
  BY InitTree DEF Init, CopyInv, MoveInv, HeldInv, Proper, MvKeepsOne
<1>2. TreeInv /\ CopyInv /\ MoveInv /\ HeldInv /\ MvKeepsOne /\ [Next]_vars
        => TreeInv' /\ CopyInv' /\ MoveInv' /\ HeldInv' /\ MvKeepsOne'
  BY StepTree, StepCopies, StepMoves, StepHeld, StepMvKeepsOne
<1> QED
  BY <1>1, <1>2, PTL DEF Spec

=============================================================================
