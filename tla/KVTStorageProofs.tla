-------------------------- MODULE KVTStorageProofs --------------------------
(***************************************************************************)
(* Proofs about KVTStorage for every tree of paths and every set of        *)
(* parameters: the reference counts are exact, nothing dangles, pending    *)
(* nodes hold a parameter, each parameter has one owner, the counters tell *)
(* the truth, and the storage implements KVTMap.                           *)
(***************************************************************************)
EXTENDS KVTStorage, FiniteSetTheorems, TLAPS

-----------------------------------------------------------------------------
(* The tree of paths.                                                      *)

(* The way up from n to one of its proper prefixes y has one last node c   *)
(* before y, and the nodes passed on the way to y are c and those passed   *)
(* on the way to c.                                                        *)
LEMMA LastBefore ==
  ASSUME NEW n \in Tree, NEW y \in Above[n]
  PROVE  \E c \in Upto(n) \cap Node :
           /\ Parent[c] = y
           /\ Passed(y, n) = {c} \cup Passed(c, n)
           /\ \A d \in Upto(n) \cap Node : Parent[d] = y => d = c
<1>1. PICK c \in Upto(n) \cap Node : Parent[c] = y
  BY TreeAssumption
<1>2. /\ y \in Above[c] /\ c \notin Above[c] /\ y \notin Above[y]
      /\ Above[c] = {y} \cup Above[y]
      /\ y \in Tree
  BY <1>1, TreeAssumption DEF Tree, Upto
<1>3. Passed(y, n) = {c} \cup Passed(c, n)
  <2>1. ASSUME NEW z \in Passed(y, n), z # c PROVE z \in Passed(c, n)
    <3>1. z \in Upto(n) /\ y \in Above[z]
      BY <2>1 DEF Passed
    <3>2. z \in Tree
      BY <3>1, TreeAssumption DEF Upto, Tree
    <3>3. c \in Above[z] \/ z \in Above[c]
      BY <1>1, <2>1, <3>1, TreeAssumption
    <3>4. z # y
      BY <3>1, <1>2
    <3>5. z \notin Above[y]
      BY <3>1, <3>2, <1>2, TreeAssumption
    <3>6. QED
      BY <3>1, <3>3, <3>4, <3>5, <1>2 DEF Passed
  <2>2. c \in Passed(y, n)
    BY <1>1, <1>2 DEF Passed
  <2>3. ASSUME NEW z \in Passed(c, n) PROVE z \in Passed(y, n)
    <3>1. z \in Upto(n) /\ c \in Above[z]
      BY DEF Passed
    <3>2. z \in Tree
      BY <3>1, TreeAssumption DEF Upto, Tree
    <3>3. QED
      BY <3>1, <3>2, <1>2, TreeAssumption DEF Passed
  <2>4. QED
    BY <2>1, <2>2, <2>3
<1>4. ASSUME NEW d \in Upto(n) \cap Node, Parent[d] = y PROVE d = c
  <2>1. y \in Above[d] /\ d \notin Above[d] /\ Above[d] = {y} \cup Above[y]
    BY <1>4, TreeAssumption
  <2>2. d = c \/ d \in Above[c] \/ c \in Above[d]
    BY <1>1, TreeAssumption
  <2>3. d # y /\ c # y
    BY <1>2, <2>1
  <2>4. d \notin Above[y] /\ c \notin Above[y]
    BY <1>2, <2>1
  <2>5. QED
    BY <1>2, <2>1, <2>2, <2>3, <2>4
<1>5. QED
  BY <1>1, <1>3, <1>4

(* No prefix of n is a child of n, and nothing is passed before n. *)
LEMMA NothingBelow ==
  ASSUME NEW n \in Tree
  PROVE  /\ Passed(n, n) = {}
         /\ n \notin Above[n]
         /\ \A c \in Upto(n) \cap Node : Parent[c] # n
<1>1. n \notin Above[n]
  BY TreeAssumption DEF Tree
<1>2. ASSUME NEW z \in Upto(n), n \in Above[z] PROVE FALSE
  <2>1. z # n
    BY <1>1, <1>2
  <2>2. z \in Above[n]
    BY <2>1 DEF Upto
  <2>3. Above[z] \subseteq Above[n]
    BY <2>2, TreeAssumption
  <2>4. QED
    BY <2>3, <1>2, <1>1
<1>3. ASSUME NEW c \in Upto(n) \cap Node, Parent[c] = n PROVE FALSE
  <2>1. n \in Above[c]
    BY <1>3, TreeAssumption
  <2>2. QED
    BY <2>1, <1>2
<1>4. QED
  BY <1>1, <1>2, <1>3 DEF Passed

(* The parent of a prefix of n is a proper prefix of n. *)
LEMMA ParentUpto ==
  ASSUME NEW n \in Tree, NEW c \in Upto(n) \cap Node
  PROVE  Parent[c] \in Above[n]
<1>1. Parent[c] \in Above[c]
  BY TreeAssumption
<1>2. QED
  BY <1>1, TreeAssumption DEF Upto

(* Every set of nodes is finite. *)
LEMMA FiniteNodes ==
  ASSUME NEW S \in SUBSET Node
  PROVE  IsFiniteSet(S) /\ Cardinality(S) \in Nat
BY FS_Subset, FS_CardinalityType, TreeAssumption

-----------------------------------------------------------------------------
(* The inductive invariant.  None of its parts is inductive alone: exact   *)
(* counts need a sound tree to tell which children a climb meets, the tree *)
(* stays sound because the counts are exact, and both need that a node     *)
(* without a parameter is not pending, so that gc() can forget it.         *)
Core == TypeOK /\ TreeSound /\ RefsExact /\ PendingHasParam

(* What the counts say about a node under the invariant. *)
LEMMA Counts ==
  ASSUME Core, NEW n \in Tree
  PROVE  /\ Referenced(n) = sValid \cap Children(n)
         /\ IsFiniteSet(Referenced(n)) /\ Cardinality(Referenced(n)) \in Nat
         /\ refs[n] \in Nat
         /\ param[n] # NULL => n \in sValid
         /\ n = Root => refs[n] >= 1
<1> USE DEF Core
<1>1. Referenced(n) = sValid \cap Children(n)
  BY DEF Referenced, TreeSound, Allocated, Children
<1>2. IsFiniteSet(Referenced(n)) /\ Cardinality(Referenced(n)) \in Nat
  BY <1>1, FiniteNodes DEF Children
<1>3. refs[n] = Own(n) + Cardinality(Referenced(n))
  BY DEF RefsExact
<1>4. refs[n] \in Nat /\ (param[n] # NULL => refs[n] >= 1) /\ (n = Root => refs[n] >= 1)
  BY <1>2, <1>3 DEF Own
<1>5. param[n] # NULL => n \in Node
  BY DEF TypeOK, Tree
<1>6. QED
  BY <1>1, <1>2, <1>4, <1>5 DEF TreeSound

(* create_node() along a path: exactly what is not allocated is missing. *)
LEMMA MissingNodes ==
  ASSUME Core, NEW n \in Node
  PROVE  /\ Missing(n) = Path(n) \ Allocated
         /\ Path(n) \subseteq Node
         /\ \A y \in Path(n) : /\ Parent[y] \in Path(n) \cup {Root}
                               /\ Path(y) \subseteq Path(n)
<1>1. Path(n) \subseteq Node
  BY TreeAssumption DEF Path, Upto, Tree
<1>2. ASSUME NEW y \in Path(n) PROVE y \in children[Parent[y]] <=> y \in Allocated
  BY <1>1, TreeAssumption DEF Core, TreeSound, Children
<1>3. ASSUME NEW y \in Path(n)
      PROVE  Parent[y] \in Path(n) \cup {Root} /\ Path(y) \subseteq Path(n)
  <2>1. Parent[y] \in Above[n]
    BY <1>1, ParentUpto DEF Path, Tree
  <2>2. Above[y] \subseteq Upto(n)
    BY TreeAssumption DEF Path, Upto, Tree
  <2>3. QED
    BY <2>1, <2>2 DEF Path, Upto
<1>4. QED
  BY <1>1, <1>2, <1>3 DEF Missing

(* Creating the nodes of a path leaves a sound tree. *)
LEMMA CreateSound ==
  ASSUME Core, NEW n \in Node,
         children' = Linked(n), sGarbage' = sGarbage \cup Missing(n),
         UNCHANGED <<refs, sValid>>
  PROVE  /\ TreeSound'
         /\ children' \in [Tree -> SUBSET Node] /\ sGarbage' \subseteq Node \cup Spare
         /\ \A p \in Tree : Referenced(p)' = Referenced(p)
<1> USE DEF Core
<1>1. Missing(n) = Path(n) \ Allocated /\ Path(n) \subseteq Node
  BY MissingNodes
<1>2. Allocated' = Allocated \cup Path(n)
  BY <1>1 DEF Allocated
<1>3. \A p \in Tree : children'[p] = Allocated' \cap Children(p)
  BY <1>1, <1>2 DEF Linked, TreeSound, Children
<1>4. \A m \in Allocated' \cap Node : Parent[m] \in Allocated' \cup {Root}
  BY <1>2, MissingNodes DEF TreeSound
<1>5. sGarbage' \cap sValid' = {}
  BY <1>1 DEF TreeSound, Allocated
<1>6. TreeSound'
  BY <1>3, <1>4, <1>5 DEF TreeSound, Children, Path, Upto
<1>7. \A p \in Tree : Referenced(p)' = Referenced(p)
  <2>1. \A p \in Tree : Referenced(p) = sValid \cap Children(p)
    BY Counts
  <2>2. \A p \in Tree : Referenced(p)' = sValid \cap Children(p)
    BY <1>3, <1>2 DEF Referenced, TreeSound, Allocated, Children
  <2>3. QED
    BY <2>1, <2>2
<1>8. children' \in [Tree -> SUBSET Node]
  BY <1>1 DEF Linked, TypeOK
<1>9. QED
  BY <1>1, <1>6, <1>7, <1>8 DEF TypeOK

(* A climb up from n passes exactly the nodes of the path that are not     *)
(* referenced yet, and makes all of them referenced.                       *)
LEMMA RaisedNodes ==
  ASSUME Core, NEW n \in Node
  PROVE  /\ {y \in Raised(n) : refs[y] <= 0} = Path(n) \ sValid
         /\ Raised(n) \subseteq Upto(n) /\ n \in Raised(n)
         /\ \A y \in Above[n] : \A c \in Upto(n) \cap Node :
              Parent[c] = y => (y \in Raised(n) <=> c \notin sValid)
<1> USE DEF Core
<1>1. Raised(n) \subseteq Upto(n) /\ n \in Raised(n)
  BY NothingBelow DEF Raised, Upto, Tree
<1>2. ASSUME NEW y \in Tree, y \notin sValid, NEW z \in Passed(y, n)
      PROVE  y # Root => refs[z] <= 0
  <2>1. z \in Tree /\ y \in Above[z]
    BY TreeAssumption DEF Passed, Upto, Tree
  <2>2. z \in Node
    BY <2>1, TreeAssumption DEF Tree
  <2>3. y # Root => y \in Path(z)
    BY <2>1 DEF Path, Upto
  <2>4. QED
    BY <1>2, <2>2, <2>3, Counts DEF TreeSound, Tree
<1>3. {y \in Raised(n) : refs[y] <= 0} = Path(n) \ sValid
  <2>1. ASSUME NEW y \in Raised(n), refs[y] <= 0 PROVE y \in Path(n) \ sValid
    <3>1. y \in Tree
      BY <1>1, TreeAssumption DEF Upto, Tree
    <3>2. refs[y] \in Nat /\ (y = Root => refs[y] >= 1)
      BY <3>1, Counts
    <3>3. QED
      BY <1>1, <2>1, <3>1, <3>2 DEF Path, TreeSound
  <2>2. ASSUME NEW y \in Path(n) \ sValid PROVE y \in Raised(n) /\ refs[y] <= 0
    <3>1. y \in Node /\ y \in Upto(n) /\ y # Root
      BY MissingNodes DEF Path
    <3>2. refs[y] <= 0
      BY <3>1, Counts DEF TreeSound, Tree
    <3>3. QED
      BY <1>2, <3>1, <3>2 DEF Raised, Tree
  <2>3. QED
    BY <2>1, <2>2
<1>4. ASSUME NEW y \in Above[n], NEW c \in Upto(n) \cap Node, Parent[c] = y
      PROVE  y \in Raised(n) <=> c \notin sValid
  <2>1. Passed(y, n) = {c} \cup Passed(c, n)
    BY <1>4, LastBefore DEF Tree
  <2>2. c \notin sValid <=> refs[c] <= 0
    BY Counts DEF TreeSound, Tree
  <2>3. c \notin sValid => \A z \in Passed(c, n) : refs[z] <= 0
    BY <1>2, TreeAssumption DEF Tree
  <2>4. QED
    BY <2>1, <2>2, <2>3 DEF Raised, Upto
<1>5. QED
  BY <1>1, <1>3, <1>4

(* put() of a new parameter: references go up, the tree stays sound and    *)
(* the counts exact.                                                       *)
LEMMA UpSound ==
  ASSUME Core, NEW n \in Node, NEW v \in Param, param[n] = NULL,
         children' = Linked(n), ReferenceUp(n, sGarbage \cup Missing(n)),
         param' = [param EXCEPT ![n] = v]
  PROVE  /\ TreeSound' /\ RefsExact'
         /\ sValid' = sValid \cup Path(n)
         /\ nNodes' = nNodes + Cardinality(Path(n) \ sValid)
         /\ children' \in [Tree -> SUBSET Node] /\ refs' \in [Tree -> Int]
         /\ sValid' \subseteq Node /\ sGarbage' \subseteq Node \cup Spare
<1> USE DEF Core
<1> DEFINE moved == Path(n) \ sValid
<1>1. /\ {y \in Raised(n) : refs[y] <= 0} = moved
      /\ Raised(n) \subseteq Upto(n) /\ n \in Raised(n)
  BY RaisedNodes
<1>2. /\ refs' = [y \in Tree |-> IF y \in Raised(n) THEN refs[y] + 1 ELSE refs[y]]
      /\ sValid' = sValid \cup moved
      /\ sGarbage' = (sGarbage \cup Missing(n)) \ moved
      /\ nNodes' = nNodes + Cardinality(moved)
  BY <1>1 DEF ReferenceUp
<1>3. Missing(n) = Path(n) \ Allocated /\ Path(n) \subseteq Node
  BY MissingNodes
<1>4. /\ sValid' = sValid \cup Path(n)
      /\ Allocated' = Allocated \cup Path(n)
      /\ sGarbage' \cap sValid' = {}
      /\ sValid' \subseteq Node /\ sGarbage' \subseteq Node \cup Spare
  BY <1>2, <1>3 DEF Allocated, TypeOK, TreeSound
<1>5. \A p \in Tree : children'[p] = Allocated' \cap Children(p)
  BY <1>3, <1>4 DEF Linked, TreeSound, Children
<1>6. children' \in [Tree -> SUBSET Node] /\ refs' \in [Tree -> Int]
  BY <1>2, <1>3 DEF Linked, TypeOK
<1>7. \A m \in Allocated' \cap Node : Parent[m] \in Allocated' \cup {Root}
  BY <1>4, MissingNodes DEF TreeSound
<1>8. \A m \in sValid' : Path(m) \subseteq sValid'
  BY <1>4, MissingNodes DEF TreeSound
<1>9. sValid' = {m \in Node : refs'[m] > 0}
  <2>1. ASSUME NEW m \in Node PROVE m \in sValid' <=> refs'[m] > 0
    <3>1. refs[m] \in Nat /\ (m \in sValid <=> refs[m] > 0) /\ m \in Tree
      BY Counts DEF Tree, TreeSound
    <3>2. CASE m \in moved
      BY <1>1, <1>2, <3>1, <3>2
    <3>3. CASE m \notin moved
      <4>1. m \in sValid' <=> m \in sValid
        BY <1>2, <3>3
      <4>2. m \in Raised(n) => refs[m] > 0
        BY <1>1, <3>1, <3>3
      <4>3. QED
        BY <1>2, <3>1, <4>1, <4>2
    <3>4. QED
      BY <3>2, <3>3
  <2>2. QED
    BY <1>4, <2>1
<1>10. TreeSound'
  BY <1>4, <1>5, <1>7, <1>8, <1>9 DEF TreeSound, Children, Path, Upto
<1>11. \A y \in Tree : Referenced(y)' = (sValid \cup Path(n)) \cap Children(y)
  BY <1>5, <1>9, <1>4 DEF Referenced, Allocated, Children
<1>12. ASSUME NEW y \in Tree PROVE refs'[y] = Own(y)' + Cardinality(Referenced(y)')
  <2>1. /\ refs[y] = Own(y) + Cardinality(Referenced(y))
        /\ Referenced(y) = sValid \cap Children(y)
        /\ IsFiniteSet(Referenced(y)) /\ Cardinality(Referenced(y)) \in Nat
        /\ refs[y] \in Nat
    BY Counts DEF RefsExact
  <2>2. Referenced(y)' = Referenced(y) \cup (Path(n) \cap Children(y))
    BY <1>11, <2>1
  <2>3. CASE y = n
    <3>1. Path(n) \cap Children(n) = {}
      BY <1>3, NothingBelow DEF Children, Path, Tree
    <3>2. Own(n)' = Own(n) + 1
      BY TreeAssumption, ParamAssumption DEF Own, TypeOK, Tree
    <3>3. QED
      BY <1>1, <1>2, <2>1, <2>2, <2>3, <3>1, <3>2
  <2>4. CASE y \in Above[n]
    <3>1. PICK c \in Upto(n) \cap Node :
            Parent[c] = y /\ \A d \in Upto(n) \cap Node : Parent[d] = y => d = c
      BY <2>4, LastBefore DEF Tree
    <3>2. Path(n) \cap Children(y) = {c}
      BY <1>3, <3>1, TreeAssumption DEF Path, Children
    <3>3. y \in Raised(n) <=> c \notin sValid
      BY <2>4, <3>1, RaisedNodes
    <3>4. Own(y)' = Own(y)
      <4>1. y # n
        BY <2>4, NothingBelow DEF Tree
      <4>2. QED
        BY <4>1 DEF Own, TypeOK
    <3>5. Referenced(y)' = Referenced(y) \cup {c} /\ (c \in Referenced(y) <=> c \in sValid)
      BY <2>1, <2>2, <3>1, <3>2 DEF Children
    <3>6. Cardinality(Referenced(y)') = Cardinality(Referenced(y))
                                          + (IF c \in sValid THEN 0 ELSE 1)
      <4> DEFINE R == Referenced(y)
      <4>1. IsFiniteSet(R) /\ Cardinality(R) \in Nat
        BY <2>1
      <4> HIDE DEF R
      <4>2. Cardinality(R \cup {c}) = IF c \in R THEN Cardinality(R) ELSE Cardinality(R) + 1
        BY <4>1, FS_AddElement
      <4>3. CASE c \in sValid
        BY <4>1, <4>2, <4>3, <3>5 DEF R
      <4>4. CASE c \notin sValid
        BY <4>1, <4>2, <4>4, <3>5 DEF R
      <4>5. QED
        BY <4>3, <4>4
    <3>7. QED
      BY <1>2, <2>1, <3>3, <3>4, <3>6 DEF Own
  <2>5. CASE y \notin Upto(n)
    <3>1. Path(n) \cap Children(y) = {}
      BY <1>3, <2>5, ParentUpto DEF Path, Children, Upto, Tree
    <3>2. y \notin Raised(n) /\ y # n
      BY <1>1, <2>5 DEF Upto
    <3>3. Own(y)' = Own(y)
      BY <3>2 DEF Own, TypeOK
    <3>4. QED
      BY <1>2, <2>1, <2>2, <3>1, <3>2, <3>3
  <2>6. QED
    BY <2>3, <2>4, <2>5 DEF Upto
<1>13. RefsExact'
  BY <1>12 DEF RefsExact
<1>14. QED
  BY <1>2, <1>4, <1>6, <1>10, <1>13

(* A climb down from a stored parameter: what it empties is the part of    *)
(* the path that held nothing else, never the root.                        *)
Emptied(n) == {y \in Lowered(n) : refs[y] - 1 <= 0}

LEMMA LoweredNodes ==
  ASSUME Core, NEW n \in Node, param[n] # NULL
  PROVE  /\ Lowered(n) \subseteq Upto(n) /\ n \in Lowered(n)
         /\ Path(n) \subseteq sValid
         /\ Emptied(n) \subseteq Path(n)
         /\ \A y \in Above[n] : \A c \in Upto(n) \cap Node :
              Parent[c] = y => (y \in Lowered(n) <=> c \in Emptied(n))
         /\ \A y \in Emptied(n) : \A d \in Referenced(y) : y # n /\ d \in Upto(n)
<1> USE DEF Core
<1>1. Lowered(n) \subseteq Upto(n) /\ n \in Lowered(n)
  BY NothingBelow DEF Lowered, Upto, Tree
<1>2. n \in sValid /\ Path(n) \subseteq sValid /\ Upto(n) \subseteq Tree
  BY Counts, TreeAssumption DEF TreeSound, Tree, Upto
<1>3. ASSUME NEW y \in Above[n], NEW c \in Upto(n) \cap Node, Parent[c] = y
      PROVE  /\ y \in Lowered(n) <=> c \in Emptied(n)
             /\ c \in Referenced(y)
  <2>1. Passed(y, n) = {c} \cup Passed(c, n)
    BY <1>3, LastBefore DEF Tree
  <2>2. c \in sValid /\ y \in Tree
    BY <1>2, <1>3, TreeAssumption DEF Path, Tree
  <2>3. Referenced(y) = sValid \cap Children(y)
    BY <2>2, Counts
  <2>4. QED
    BY <1>3, <2>1, <2>2, <2>3 DEF Lowered, Emptied, Upto, Children
<1>4. ASSUME NEW y \in Tree, NEW c \in Referenced(y)
      PROVE  Cardinality(Referenced(y)) >= 1
             /\ \A d \in Referenced(y) : d # c => Cardinality(Referenced(y)) >= 2
  <2> DEFINE R == Referenced(y)
  <2>1. IsFiniteSet(R) /\ c \in R
    BY Counts
  <2> HIDE DEF R
  <2>2. IsFiniteSet(R \ {c}) /\ Cardinality(R \ {c}) \in Nat
        /\ Cardinality(R) \in Nat /\ Cardinality(R \ {c}) = Cardinality(R) - 1
    BY <2>1, FS_RemoveElement, FS_CardinalityType
  <2>3. ASSUME NEW d \in R, d # c PROVE Cardinality(R) >= 2
    <3>1. d \in R \ {c}
      BY <2>3
    <3>2. Cardinality(R \ {c}) # 0
      BY <2>2, <3>1, FS_EmptySet
    <3>3. QED
      BY <2>2, <3>2
  <2>4. QED
    BY <2>2, <2>3 DEF R
<1>5. ASSUME NEW y \in Emptied(n) PROVE refs[y] <= 1 /\ y \in Upto(n) /\ y \in Tree
  <2>1. y \in Upto(n) /\ y \in Tree /\ refs[y] - 1 <= 0
    BY <1>1, <1>2 DEF Emptied
  <2>2. refs[y] \in Nat
    BY <2>1, Counts
  <2>3. QED
    BY <2>1, <2>2
<1>6. ASSUME NEW y \in Tree
      PROVE  /\ refs[y] = Own(y) + Cardinality(Referenced(y))
             /\ Cardinality(Referenced(y)) \in Nat /\ Own(y) \in Nat
             /\ y = n \/ y = Root => Own(y) >= 1
  BY Counts DEF RefsExact, Own
<1>7. ASSUME NEW y \in Emptied(n), NEW d \in Referenced(y)
      PROVE  y # n /\ y # Root /\ d \in Upto(n)
  <2>1. Cardinality(Referenced(y)) >= 1
    BY <1>4, <1>5, <1>7
  <2>2. y # n /\ y # Root
    BY <1>5, <1>6, <2>1
  <2>3. PICK c \in Upto(n) \cap Node : Parent[c] = y
    BY <1>5, <2>2, TreeAssumption DEF Upto, Tree
  <2>4. c \in Referenced(y)
    BY <1>3, <1>5, <2>2, <2>3 DEF Upto
  <2>5. d = c
    BY <1>4, <1>5, <1>6, <1>7, <2>4
  <2>6. QED
    BY <2>2, <2>3, <2>5
<1>8. Emptied(n) \subseteq Path(n)
  <2>1. Root \in Upto(n) => Root \in Above[n]
    BY TreeAssumption DEF Upto, Tree
  <2>2. Root \in Above[n] => \E c \in Upto(n) \cap Node : Parent[c] = Root
    BY TreeAssumption DEF Tree
  <2>3. Root \notin Emptied(n)
    BY <1>3, <1>5, <1>7, <2>1, <2>2
  <2>4. QED
    BY <1>5, <2>3 DEF Path
<1>9. QED
  BY <1>1, <1>2, <1>3, <1>7, <1>8

(* No referenced node stays behind below one that a climb down empties.    *)
LEMMA EmptiedClosed ==
  ASSUME Core, NEW n \in Node, param[n] # NULL, NEW m \in sValid, m \notin Emptied(n)
  PROVE  Path(m) \cap Emptied(n) = {}
<1> USE DEF Core
<1>1. SUFFICES ASSUME NEW y \in Path(m), y \in Emptied(n) PROVE FALSE
  OBVIOUS
<1>2. m \in Node /\ m \in Tree /\ n \in Tree
  BY DEF TreeSound, Tree
<1>3. y \in Upto(m) \cap Upto(n)
  BY <1>1, LoweredNodes DEF Path
<1>4. PICK b \in Upto(m) \cap Upto(n) : \A a \in Upto(m) \cap Upto(n) : a \in Upto(b)
  BY <1>2, TreeAssumption
<1>5. b \in Tree
  BY <1>2, <1>4, TreeAssumption DEF Upto
<1>6. b \in Emptied(n)
  <2>1. b = y \/ b \in Passed(y, n)
    BY <1>3, <1>4 DEF Passed, Upto
  <2>2. Passed(b, n) \subseteq Passed(y, n)
    <3>1. ASSUME NEW z \in Upto(n), b \in Above[z] PROVE y \in Above[z]
      <4>1. Above[b] \subseteq Above[z]
        BY <1>2, <3>1, TreeAssumption DEF Upto
      <4>2. y = b \/ y \in Above[b]
        BY <1>3, <1>4 DEF Upto
      <4>3. QED
        BY <3>1, <4>1, <4>2
    <3>2. QED
      BY <3>1 DEF Passed
  <2>3. \A z \in Passed(y, n) : refs[z] - 1 <= 0
    BY <1>1 DEF Emptied, Lowered
  <2>4. refs[b] - 1 <= 0
    BY <1>1, <2>1, <2>3 DEF Emptied
  <2>5. QED
    BY <1>4, <2>2, <2>3, <2>4 DEF Emptied, Lowered
<1>7. b \in Above[m]
  BY <1>4, <1>6 DEF Upto
<1>8. PICK d \in Upto(m) \cap Node : Parent[d] = b
  BY <1>2, <1>7, TreeAssumption
<1>9. d \in sValid
  BY <1>8, TreeAssumption DEF TreeSound, Path
<1>10. d \in Referenced(b)
  BY <1>5, <1>8, <1>9, Counts DEF Children
<1>11. d \in Upto(n)
  BY <1>6, <1>10, LoweredNodes
<1>12. d \in Upto(b)
  BY <1>4, <1>8, <1>11
<1>13. QED
  BY <1>5, <1>8, <1>12, NothingBelow

(* remove() of a stored parameter: references go down, the tree stays      *)
(* sound and the counts exact.                                             *)
LEMMA DownSound ==
  ASSUME Core, NEW n \in Node, param[n] # NULL,
         UNCHANGED children, ReferenceDown(n),
         param' = [param EXCEPT ![n] = NULL]
  PROVE  /\ TreeSound' /\ RefsExact'
         /\ sValid' = sValid \ Emptied(n) /\ Emptied(n) \subseteq sValid
         /\ nNodes' = nNodes - Cardinality(Emptied(n))
         /\ refs' \in [Tree -> Int] /\ sValid' \subseteq Node /\ sGarbage' \subseteq Node \cup Spare
<1> USE DEF Core
<1>1. /\ refs' = [y \in Tree |-> IF y \in Lowered(n) THEN refs[y] - 1 ELSE refs[y]]
      /\ sValid' = sValid \ Emptied(n)
      /\ sGarbage' = sGarbage \cup Emptied(n)
      /\ nNodes' = nNodes - Cardinality(Emptied(n))
  BY DEF ReferenceDown, Emptied
<1>2. /\ Emptied(n) \subseteq Path(n) /\ Path(n) \subseteq sValid
      /\ Lowered(n) \subseteq Upto(n) /\ n \in Lowered(n)
      /\ \A y \in Emptied(n) : \A d \in Referenced(y) : y # n
  BY LoweredNodes
<1>3. /\ Allocated' = Allocated /\ sGarbage' \cap sValid' = {}
      /\ sValid' \subseteq Node /\ sGarbage' \subseteq Node \cup Spare
      /\ refs' \in [Tree -> Int]
  BY <1>1, <1>2 DEF Allocated, TreeSound, TypeOK
<1>4. \A m \in sValid' : Path(m) \subseteq sValid'
  BY <1>1, EmptiedClosed DEF TreeSound
<1>5. sValid' = {m \in Node : refs'[m] > 0}
  <2>1. ASSUME NEW m \in Node PROVE m \in sValid' <=> refs'[m] > 0
    <3>1. refs[m] \in Nat /\ (m \in sValid <=> refs[m] > 0) /\ m \in Tree
      BY Counts DEF Tree, TreeSound
    <3>2. CASE m \in Emptied(n)
      BY <1>1, <3>1, <3>2 DEF Emptied
    <3>3. CASE m \notin Emptied(n)
      BY <1>1, <3>1, <3>3 DEF Emptied
    <3>4. QED
      BY <3>2, <3>3
  <2>2. QED
    BY <1>3, <2>1
<1>6. TreeSound'
  BY <1>3, <1>4, <1>5 DEF TreeSound, Children, Path, Upto
<1>7. \A y \in Tree : Referenced(y)' = Referenced(y) \ Emptied(n)
  <2>1. \A y \in Tree : Referenced(y) = sValid \cap Children(y)
    BY Counts
  <2>2. \A y \in Tree : children[y] = Allocated \cap Children(y)
    BY DEF TreeSound
  <2>3. \A y \in Tree : Referenced(y)' = sValid' \cap Children(y)
    BY <1>5, <2>2, <1>1, <1>2 DEF Referenced, Allocated, Children
  <2>4. QED
    BY <1>1, <2>1, <2>3
<1>8. ASSUME NEW y \in Tree PROVE refs'[y] = Own(y)' + Cardinality(Referenced(y)')
  <2>1. /\ refs[y] = Own(y) + Cardinality(Referenced(y))
        /\ Referenced(y) = sValid \cap Children(y)
        /\ IsFiniteSet(Referenced(y)) /\ Cardinality(Referenced(y)) \in Nat
        /\ refs[y] \in Nat
    BY Counts DEF RefsExact
  <2>2. CASE y = n
    <3>1. Referenced(n)' = Referenced(n)
      <4>1. Path(n) \cap Children(n) = {}
        BY NothingBelow, MissingNodes DEF Children, Path, Tree
      <4>2. QED
        BY <1>2, <1>7, <2>1, <2>2, <4>1
    <3>2. Own(n)' = Own(n) - 1 /\ Own(n) \in Int
      BY TreeAssumption DEF Own, TypeOK, Tree
    <3>3. refs'[n] = refs[n] - 1
      BY <1>1, <1>2, <2>2
    <3>4. refs[n] = Own(n) + Cardinality(Referenced(n)) /\ Cardinality(Referenced(n)) \in Int
      <4>1. n \in Tree
        BY DEF Tree
      <4>2. QED
        BY <4>1, Counts DEF RefsExact
    <3>5. Cardinality(Referenced(n)') = Cardinality(Referenced(n))
      BY <3>1
    <3>6. refs'[n] = Own(n)' + Cardinality(Referenced(n)')
      BY <3>2, <3>3, <3>4, <3>5
    <3>7. QED
      BY <2>2, <3>6
  <2>3. CASE y \in Above[n]
    <3>1. PICK c \in Upto(n) \cap Node :
            Parent[c] = y /\ \A d \in Upto(n) \cap Node : Parent[d] = y => d = c
      BY <2>3, LastBefore DEF Tree
    <3>2. y \in Lowered(n) <=> c \in Emptied(n)
      BY <2>3, <3>1, LoweredNodes
    <3>3. c \in Referenced(y)
      BY <1>2, <2>1, <3>1, TreeAssumption DEF Children, Path
    <3>4. Referenced(y)' = IF c \in Emptied(n) THEN Referenced(y) \ {c} ELSE Referenced(y)
      <4>1. \A d \in Emptied(n) \cap Referenced(y) : d = c
        BY <1>2, <2>1, <3>1 DEF Children, Path, TypeOK
      <4>2. QED
        BY <1>7, <4>1
    <3>5. Own(y)' = Own(y)
      <4>1. y # n
        BY <2>3, NothingBelow DEF Tree
      <4>2. QED
        BY <4>1 DEF Own, TypeOK
    <3>6. Cardinality(Referenced(y)') = Cardinality(Referenced(y))
                                          - (IF c \in Emptied(n) THEN 1 ELSE 0)
      <4> DEFINE R == Referenced(y)
      <4>1. IsFiniteSet(R) /\ Cardinality(R) \in Nat /\ c \in R
        BY <2>1, <3>3
      <4> HIDE DEF R
      <4>2. Cardinality(R \ {c}) = Cardinality(R) - 1
        BY <4>1, FS_RemoveElement
      <4>3. CASE c \in Emptied(n)
        BY <4>1, <4>2, <4>3, <3>4 DEF R
      <4>4. CASE c \notin Emptied(n)
        BY <4>1, <4>4, <3>4 DEF R
      <4>5. QED
        BY <4>3, <4>4
    <3>7. QED
      BY <1>1, <2>1, <3>2, <3>5, <3>6 DEF Own
  <2>4. CASE y \notin Upto(n)
    <3>1. Path(n) \cap Children(y) = {}
      BY <2>4, MissingNodes, ParentUpto DEF Path, Children, Upto, Tree
    <3>2. y \notin Lowered(n) /\ y # n
      BY <1>2, <2>4 DEF Upto
    <3>3. Own(y)' = Own(y)
      BY <3>2 DEF Own, TypeOK
    <3>4. Referenced(y)' = Referenced(y)
      BY <1>2, <1>7, <2>1, <3>1
    <3>5. QED
      BY <1>1, <2>1, <3>2, <3>3, <3>4
  <2>5. QED
    BY <2>2, <2>3, <2>4 DEF Upto
<1>9. RefsExact'
  BY <1>8 DEF RefsExact
<1>10. QED
  BY <1>1, <1>2, <1>3, <1>6, <1>9

-----------------------------------------------------------------------------
(* Each call preserves the invariant.                                      *)

(* The part of TypeOK about the call in progress and the last result. *)
CallsTyped ==
  /\ loop \in [op : Ops, base : Tree, flags : SUBSET Flags, private : BOOLEAN,
               todo : SUBSET Tree]
  /\ ret \in [path : Tree, status : Status, value : Param \cup {NULL}]

(* Setting the flags of a node keeps the TX and RX lists in step with them. *)
LEMMA SetPendingSound ==
  ASSUME Core, NEW n \in Node, NEW flags \in SUBSET Flags, SetPending(n, flags)
  PROVE  /\ pending' = [pending EXCEPT ![n] = flags]
         /\ pending' \in [Tree -> SUBSET Flags]
         /\ sTx' = {m \in Node : "TX" \in pending'[m]}
         /\ sRx' = {m \in Node : "RX" \in pending'[m]}
         /\ sTx' \subseteq Node /\ sRx' \subseteq Node
         /\ nTxPending' \in Int /\ nRxPending' \in Int
<1> USE DEF Core
<1>1. /\ pending' = [pending EXCEPT ![n] = flags] /\ n \in Tree
      /\ pending' \in [Tree -> SUBSET Flags]
  BY DEF SetPending, TypeOK, Tree
<1>2. sTx' = {m \in Node : "TX" \in pending'[m]}
  BY <1>1 DEF SetPending, Relist, PendingHasParam, TypeOK, Tree
<1>3. sRx' = {m \in Node : "RX" \in pending'[m]}
  BY <1>1 DEF SetPending, Relist, PendingHasParam, TypeOK, Tree
<1>4. nTxPending' \in Int /\ nRxPending' \in Int
  BY DEF SetPending, Recount, TypeOK
<1>5. QED
  BY <1>1, <1>2, <1>3, <1>4

(* A step that leaves the counts, the tree and the parameters alone. *)
LEMMA TreeKept ==
  ASSUME Core, UNCHANGED <<treeVars, param>>
  PROVE  TreeSound' /\ RefsExact'
BY DEF Core, treeVars, TreeSound, RefsExact, Referenced, Own, Allocated, Children

(* A step that only moves the flags of one node that holds a parameter. *)
LEMMA MarkKeeps ==
  ASSUME Core, CallsTyped', UNCHANGED <<treeVars, valueVars>>,
         \/ UNCHANGED pendingVars
         \/ \E n \in Node, flags \in SUBSET Flags : param[n] # NULL /\ SetPending(n, flags)
  PROVE  Core'
<1>1. TreeSound' /\ RefsExact'
  BY TreeKept DEF valueVars
<1>2. TypeOK'
  BY SetPendingSound DEF Core, TypeOK, CallsTyped, treeVars, valueVars, pendingVars
<1>3. PendingHasParam'
  <2>1. CASE UNCHANGED pendingVars
    BY <2>1 DEF Core, PendingHasParam, valueVars, pendingVars
  <2>2. CASE \E n \in Node, flags \in SUBSET Flags : param[n] # NULL /\ SetPending(n, flags)
    <3>1. PICK n \in Node, flags \in SUBSET Flags : param[n] # NULL /\ SetPending(n, flags)
      BY <2>2
    <3>2. /\ pending' = [pending EXCEPT ![n] = flags]
          /\ sTx' = {m \in Node : "TX" \in pending'[m]}
          /\ sRx' = {m \in Node : "RX" \in pending'[m]}
      BY <3>1, SetPendingSound
    <3>3. QED
      BY <3>1, <3>2 DEF Core, PendingHasParam, TypeOK, valueVars
  <2>3. QED
    BY <2>1, <2>2
<1>4. QED
  BY <1>1, <1>2, <1>3 DEF Core

(* The end of one stored parameter. *)
LEMMA TakeParamKeeps ==
  ASSUME Core, NEW n \in Node, param[n] # NULL, TakeParam(n), CallsTyped'
  PROVE  Core'
<1>1. /\ SetPending(n, {}) /\ ReferenceDown(n) /\ UNCHANGED children
      /\ param' = [param EXCEPT ![n] = NULL]
      /\ pTrash' = pTrash \cup {param[n]} /\ nValues' = nValues - 1
  BY DEF TakeParam
<1>2. /\ TreeSound' /\ RefsExact'
      /\ refs' \in [Tree -> Int] /\ sValid' \subseteq Node /\ sGarbage' \subseteq Node \cup Spare
      /\ nNodes' = nNodes - Cardinality(Emptied(n)) /\ Emptied(n) \subseteq sValid
  BY <1>1, DownSound
<1>3. /\ pending' = [pending EXCEPT ![n] = {}]
      /\ pending' \in [Tree -> SUBSET Flags]
      /\ sTx' = {m \in Node : "TX" \in pending'[m]}
      /\ sRx' = {m \in Node : "RX" \in pending'[m]}
      /\ sTx' \subseteq Node /\ sRx' \subseteq Node
      /\ nTxPending' \in Int /\ nRxPending' \in Int
  BY <1>1, SetPendingSound
<1>4. n \in Tree /\ n # Root
  BY TreeAssumption DEF Tree
<1>5. nNodes' \in Int
  BY <1>2, FiniteNodes DEF Core, TypeOK
<1>6. TypeOK'
  BY <1>1, <1>2, <1>3, <1>4, <1>5 DEF Core, TypeOK, CallsTyped
<1>7. PendingHasParam'
  BY <1>1, <1>3, <1>4 DEF Core, PendingHasParam, TypeOK
<1>8. QED
  BY <1>2, <1>6, <1>7 DEF Core

(* A put() that creates the nodes of its path and no parameter. *)
LEMMA CreateKeeps ==
  ASSUME Core, NEW n \in Node,
         children' = Linked(n), sGarbage' = sGarbage \cup Missing(n),
         UNCHANGED <<refs, sValid, nNodes, valueVars, pendingVars>>, CallsTyped'
  PROVE  Core'
<1>1. /\ TreeSound'
      /\ children' \in [Tree -> SUBSET Node] /\ sGarbage' \subseteq Node \cup Spare
      /\ \A p \in Tree : Referenced(p)' = Referenced(p)
  BY CreateSound
<1>2. RefsExact'
  BY <1>1 DEF Core, RefsExact, Own, valueVars
<1>3. TypeOK'
  BY <1>1 DEF Core, TypeOK, CallsTyped, valueVars, pendingVars
<1>4. PendingHasParam'
  BY DEF Core, PendingHasParam, valueVars, pendingVars
<1>5. QED
  BY <1>1, <1>2, <1>3, <1>4 DEF Core

(* create_node() for every node of the path of n but the last: the path of *)
(* the parent.                                                             *)
LEMMA MissingParent ==
  ASSUME Core, NEW n \in Node
  PROVE  /\ Missing(Parent[n]) = Path(Parent[n]) \ Allocated
         /\ Path(Parent[n]) \subseteq Node
         /\ \A y \in Path(Parent[n]) : /\ Parent[y] \in Path(Parent[n]) \cup {Root}
                                       /\ Path(y) \subseteq Path(Parent[n])
<1>1. Parent[n] \in Node \/ Parent[n] = Root
  BY TreeAssumption DEF Tree
<1>2. CASE Parent[n] = Root
  BY <1>2, TreeAssumption DEF Path, Upto, Missing
<1>3. CASE Parent[n] \in Node
  BY <1>3, MissingNodes
<1> QED BY <1>1, <1>2, <1>3

(* A put() whose last node cannot be linked: the tree gains the nodes of   *)
(* the parent's path, and the object that stays out of it is garbage.      *)
LEMMA OrphanedKeeps ==
  ASSUME Core, NEW n \in Node, NEW s \in Spare, PutOrphaned(n, s), CallsTyped'
  PROVE  Core'
<1> USE DEF Core
<1> DEFINE p == Parent[n]
<1>1. /\ children' = Linked(p) /\ sGarbage' = sGarbage \cup Missing(p) \cup {s}
      /\ UNCHANGED <<refs, sValid, nNodes, param, pTrash, nValues>>
      /\ UNCHANGED <<pending, sTx, sRx, nTxPending, nRxPending>>
  BY DEF PutOrphaned, valueVars, pendingVars
<1>2. /\ Missing(p) = Path(p) \ Allocated /\ Path(p) \subseteq Node
      /\ \A y \in Path(p) : /\ Parent[y] \in Path(p) \cup {Root}
                            /\ Path(y) \subseteq Path(p)
  BY MissingParent
<1> HIDE DEF p
<1>3. s \notin Node /\ s \notin sValid
  BY SpareAssumption DEF Tree, TypeOK
<1>4. Allocated' = Allocated \cup Path(p) \cup {s}
  BY <1>1, <1>2 DEF Allocated
<1>5. \A q \in Tree : children'[q] = Allocated' \cap Children(q)
  BY <1>1, <1>2, <1>3, <1>4 DEF Linked, TreeSound, Children
<1>6. \A m \in Allocated' \cap Node : Parent[m] \in Allocated' \cup {Root}
  BY <1>2, <1>3, <1>4 DEF TreeSound
<1>7. sGarbage' \cap sValid' = {}
  BY <1>1, <1>2, <1>3 DEF TreeSound, Allocated
<1>8. TreeSound'
  BY <1>1, <1>5, <1>6, <1>7 DEF TreeSound, Children, Path, Upto
<1>9. RefsExact'
  <2>1. \A q \in Tree : Referenced(q) = sValid \cap Children(q)
    BY Counts
  <2>2. \A q \in Tree : Referenced(q)' = sValid \cap Children(q)
    BY <1>1, <1>5, <1>4 DEF Referenced, TreeSound, Allocated, Children
  <2> QED BY <1>1, <2>1, <2>2 DEF RefsExact, Own
<1>10. TypeOK'
  <2>1. children' \in [Tree -> SUBSET Node]
    BY <1>1, <1>2 DEF Linked, TypeOK
  <2> QED BY <1>1, <1>2, <2>1 DEF TypeOK, CallsTyped
<1>11. PendingHasParam'
  BY <1>1 DEF PendingHasParam
<1> QED BY <1>8, <1>9, <1>10, <1>11

LEMMA PutCreatedKeeps ==
  ASSUME Core, NEW n \in Node, NEW v \in Param, NEW flags \in SUBSET Flags,
         PutCreated(n, v, flags), CallsTyped'
  PROVE  Core'
<1>1. /\ param[n] = NULL /\ param' = [param EXCEPT ![n] = v] /\ v # NULL
      /\ children' = Linked(n) /\ ReferenceUp(n, sGarbage \cup Missing(n))
      /\ SetPending(n, pending[n] \cup flags)
      /\ nValues' = nValues + 1 /\ UNCHANGED pTrash
  BY ParamAssumption DEF PutCreated
<1>2. n \in Tree /\ n # Root /\ pending[n] \cup flags \in SUBSET Flags
  BY TreeAssumption DEF Tree, Core, TypeOK
<1>3. /\ TreeSound' /\ RefsExact'
      /\ nNodes' = nNodes + Cardinality(Path(n) \ sValid)
      /\ children' \in [Tree -> SUBSET Node] /\ refs' \in [Tree -> Int]
      /\ sValid' \subseteq Node /\ sGarbage' \subseteq Node \cup Spare
  BY <1>1, UpSound
<1>4. /\ pending' = [pending EXCEPT ![n] = pending[n] \cup flags]
      /\ pending' \in [Tree -> SUBSET Flags]
      /\ sTx' = {m \in Node : "TX" \in pending'[m]}
      /\ sRx' = {m \in Node : "RX" \in pending'[m]}
      /\ sTx' \subseteq Node /\ sRx' \subseteq Node
      /\ nTxPending' \in Int /\ nRxPending' \in Int
  BY <1>1, <1>2, SetPendingSound
<1>5. nNodes' \in Int
  <2>1. Cardinality(Path(n) \ sValid) \in Nat
    BY FiniteNodes, MissingNodes
  <2>2. QED
    BY <1>3, <2>1 DEF Core, TypeOK
<1>6. TypeOK'
  BY <1>1, <1>2, <1>3, <1>4, <1>5 DEF Core, TypeOK, CallsTyped
<1>7. PendingHasParam'
  BY <1>1, <1>2, <1>4 DEF Core, PendingHasParam, TypeOK
<1>8. QED
  BY <1>3, <1>6, <1>7 DEF Core

LEMMA PutChangedKeeps ==
  ASSUME Core, NEW n \in Node, NEW v \in Param, NEW flags \in SUBSET Flags,
         PutChanged(n, v, flags), CallsTyped'
  PROVE  Core'
<1>1. /\ param[n] # NULL /\ param' = [param EXCEPT ![n] = v] /\ v # NULL
      /\ children' = Linked(n) /\ sGarbage' = sGarbage \cup Missing(n)
      /\ SetPending(n, pending[n] \cup flags)
      /\ pTrash' = pTrash \cup {param[n]}
      /\ UNCHANGED <<refs, sValid, nNodes, nValues>>
  BY ParamAssumption DEF PutChanged
<1>2. n \in Tree /\ n # Root /\ pending[n] \cup flags \in SUBSET Flags
  BY TreeAssumption DEF Tree, Core, TypeOK
<1>3. /\ TreeSound'
      /\ children' \in [Tree -> SUBSET Node] /\ sGarbage' \subseteq Node \cup Spare
      /\ \A p \in Tree : Referenced(p)' = Referenced(p)
  BY <1>1, CreateSound
<1>4. RefsExact'
  <2>1. \A p \in Tree : Own(p)' = Own(p)
    BY <1>1 DEF Own, Core, TypeOK
  <2>2. QED
    BY <1>1, <1>3, <2>1 DEF Core, RefsExact
<1>5. /\ pending' = [pending EXCEPT ![n] = pending[n] \cup flags]
      /\ pending' \in [Tree -> SUBSET Flags]
      /\ sTx' = {m \in Node : "TX" \in pending'[m]}
      /\ sRx' = {m \in Node : "RX" \in pending'[m]}
      /\ sTx' \subseteq Node /\ sRx' \subseteq Node
      /\ nTxPending' \in Int /\ nRxPending' \in Int
  BY <1>1, <1>2, SetPendingSound
<1>6. TypeOK'
  BY <1>1, <1>2, <1>3, <1>5 DEF Core, TypeOK, CallsTyped
<1>7. PendingHasParam'
  BY <1>1, <1>2, <1>5 DEF Core, PendingHasParam, TypeOK
<1>8. QED
  BY <1>3, <1>4, <1>6, <1>7 DEF Core

(* gc() frees only what nothing refers to: apart from the trash and the    *)
(* nodes of the garbage list it changes nothing.                           *)
LEMMA GcNeutral ==
  ASSUME Core, Gc
  PROVE  /\ UNCHANGED <<refs, param, pending, sTx, sRx, sValid>>
         /\ sGarbage' = {} /\ pTrash' = {}
         /\ children' = [p \in Tree |-> sValid \cap Children(p)]
<1> USE DEF Core
<1>1. ASSUME NEW n \in Tree, n \in sGarbage PROVE refs[n] = 0 /\ param[n] = NULL
  <2>1. n \in Node /\ n \notin sValid
    BY <1>1, SpareAssumption DEF TypeOK, TreeSound
  <2>2. QED
    BY <2>1, Counts DEF TreeSound
<1>2. UNCHANGED <<refs, param>>
  BY <1>1 DEF Gc, TypeOK
<1>3. UNCHANGED <<pending, sTx, sRx>>
  <2>1. \A n \in Tree : n \in sGarbage => pending[n] = {} /\ n \notin sTx /\ n \notin sRx
    BY <1>1 DEF PendingHasParam
  <2>2. QED
    BY <2>1 DEF Gc, TypeOK, Tree
<1>4. ASSUME NEW p \in Tree PROVE children'[p] = sValid \cap Children(p)
  <2>1. children[p] = Allocated \cap Children(p)
    BY DEF TreeSound
  <2>2. children'[p] = IF p \in sGarbage THEN {}
                       ELSE IF p \in Swept THEN {c \in children[p] : refs[c] > 0}
                       ELSE children[p]
    BY DEF Gc
  <2>3. ASSUME NEW c \in sValid \cap Children(p) PROVE p \in sValid \cup {Root}
    BY ParentUpto, TreeAssumption DEF TreeSound, Children, Path, Upto, Tree
  <2>4. CASE p \in sGarbage
    BY <2>2, <2>3, <2>4, TreeAssumption, SpareAssumption DEF TreeSound, TypeOK, Tree
  <2>5. CASE p \notin sGarbage /\ p \in Swept
    BY <2>1, <2>2, <2>5 DEF TreeSound, Allocated, Children
  <2>6. CASE p \notin sGarbage /\ p \notin Swept
    <3>1. CASE refs[p] > 0
      BY <2>1, <2>2, <2>6, <3>1 DEF Swept, Allocated
    <3>2. CASE ~(refs[p] > 0)
      <4>1. p \notin sValid /\ p # Root /\ p \notin Allocated
        BY <2>6, <3>2, Counts DEF TreeSound, Allocated
      <4>2. children[p] = {}
        BY <2>1, <4>1 DEF TreeSound, Children
      <4>3. QED
        BY <2>2, <2>3, <2>6, <4>1, <4>2
    <3>3. QED
      BY <3>1, <3>2
  <2>7. QED
    BY <2>4, <2>5, <2>6
<1>5. QED
  BY <1>2, <1>3, <1>4 DEF Gc

LEMMA GcKeeps ==
  ASSUME Core, Gc, CallsTyped'
  PROVE  Core'
<1> USE DEF Core
<1>1. /\ UNCHANGED <<refs, param, pending, sTx, sRx, sValid>>
      /\ sGarbage' = {} /\ pTrash' = {}
      /\ children' = [p \in Tree |-> sValid \cap Children(p)]
  BY GcNeutral
<1>2. TreeSound'
  <2>1. \A m \in sValid : Parent[m] \in sValid \cup {Root}
    BY ParentUpto, TreeAssumption DEF TreeSound, Path, Upto, Tree
  <2>2. QED
    BY <1>1, <2>1 DEF TreeSound, Allocated, Children, Path, Upto
<1>3. RefsExact'
  <2>1. \A p \in Tree : Referenced(p) = sValid \cap Children(p)
    BY Counts
  <2>2. \A p \in Tree : Referenced(p)' = Referenced(p)
    BY <1>1, <2>1 DEF Referenced, TreeSound, Children
  <2>3. QED
    BY <1>1, <2>2 DEF RefsExact, Own
<1>4. TypeOK'
  BY <1>1 DEF TypeOK, CallsTyped, Gc, TreeSound, Children
<1>5. PendingHasParam'
  BY <1>1 DEF PendingHasParam
<1>6. QED
  BY <1>2, <1>3, <1>4, <1>5

(* Calls and results stay well formed. *)
LEMMA CallsStep ==
  ASSUME Core, [Next]_vars
  PROVE  CallsTyped'
<1> USE DEF Core, TypeOK, CallsTyped
<1>1. \A v \in Tree : param[v] \in Param \cup {NULL}
  OBVIOUS
<1>2. \A n \in Tree : n \in Node \/ n = Root
  BY DEF Tree
<1>3. CASE Call
  <2>1. UNCHANGED loop
    BY <1>3 DEF Call
  <2>2. ret' \in [path : Tree, status : Status, value : Param \cup {NULL}]
    <3>1. ASSUME NEW n \in Node, NEW v \in Param, NEW flags \in SUBSET Flags,
                 PutCreated(n, v, flags) \/ PutChanged(n, v, flags)
          PROVE  ret' \in [path : Tree, status : Status, value : Param \cup {NULL}]
      BY <3>1 DEF PutCreated, PutChanged, Return, Status, Tree
    <3>2. ASSUME NEW n \in Node, PutRejected(n) \/ PutFailed(n)
          PROVE  ret' \in [path : Tree, status : Status, value : Param \cup {NULL}]
      BY <3>2 DEF PutRejected, PutFailed, Return, Status, Tree
    <3>8. ASSUME NEW n \in Node, NEW s \in Spare, PutOrphaned(n, s)
          PROVE  ret' \in [path : Tree, status : Status, value : Param \cup {NULL}]
      BY <3>8 DEF PutOrphaned, Return, Status, Tree
    <3>3. ASSUME NEW n \in Node, NEW match \in BOOLEAN, Get(n, match) \/ Remove(n, match)
          PROVE  ret' \in [path : Tree, status : Status, value : Param \cup {NULL}]
      BY <3>3 DEF Get, Remove, Return, Status, Tree
    <3>4. ASSUME NEW n \in Node, NEW flags \in SUBSET Flags, NEW private \in BOOLEAN,
                 Commit(n, flags) \/ Touch(n, flags, private)
          PROVE  ret' \in [path : Tree, status : Status, value : Param \cup {NULL}]
      BY <3>4 DEF Commit, Touch, Return, Status, Tree
    <3>5. ASSUME Gc
          PROVE  ret' \in [path : Tree, status : Status, value : Param \cup {NULL}]
      BY <3>5 DEF Gc
    <3>6. \/ \E n \in Node, v \in Param, flags \in SUBSET Flags :
                PutCreated(n, v, flags) \/ PutChanged(n, v, flags)
          \/ \E n \in Node : PutRejected(n) \/ PutFailed(n)
          \/ \E n \in Node, s \in Spare : PutOrphaned(n, s)
          \/ \E n \in Node, match \in BOOLEAN : Get(n, match) \/ Remove(n, match)
          \/ \E n \in Node, flags \in SUBSET Flags :
                Commit(n, flags) \/ \E private \in BOOLEAN : Touch(n, flags, private)
          \/ Gc
      BY <1>3 DEF Call
    <3> HIDE DEF CallsTyped, Core, TypeOK
    <3>7. QED
      BY <3>1, <3>2, <3>3, <3>4, <3>5, <3>6, <3>8
  <2>3. QED
    BY <2>1, <2>2
<1>4. CASE LoopStart
  <2>1. ASSUME NEW n \in Tree, RemoveBranch(n) PROVE CallsTyped'
    <3>1. CASE ret' = NoReturn /\ loop' = [op |-> "remove_branch", base |-> n, flags |-> {},
                                            private |-> FALSE, todo |-> {n}]
      BY <3>1 DEF Ops, NoReturn, Status, Tree
    <3>2. CASE UNCHANGED loop /\ Return(n, IF Found(n) THEN "NO_MEM" ELSE "NOT_FOUND", NULL)
      BY <3>2 DEF Return, Status
    <3>3. QED
      <4> HIDE DEF CallsTyped
      <4>1. QED
        BY ONLY <2>1, <3>1, <3>2 DEF RemoveBranch
  <2>2. ASSUME NEW flags \in SUBSET Flags, CommitAll(flags) PROVE CallsTyped'
    BY <2>2 DEF CommitAll, Idle, Ops, Tree, NoReturn, Status
  <2>3. ASSUME NEW flags \in SUBSET Flags, NEW private \in BOOLEAN, TouchAll(flags, private)
        PROVE  CallsTyped'
    BY <2>3 DEF TouchAll, Ops, Tree, NoReturn, Status
  <2>4. QED
    BY <1>4, <2>1, <2>2, <2>3 DEF LoopStart
<1>5. ASSUME NEW n \in Tree,
             RemoveBranchStep(n) \/ TouchAllStep(n) \/ CommitAllStep(n)
      PROVE  CallsTyped'
  <2>1. children[n] \subseteq Tree
    BY DEF Tree
  <2>2. CASE GiveUp
    BY <2>2 DEF GiveUp, Idle, Return, Status, Ops, Tree
  <2>3. CASE UNCHANGED ret
    <3>1. CASE loop' = Idle
      BY <2>3, <3>1 DEF Idle, Ops, Tree
    <3>2. CASE UNCHANGED loop
      BY <2>3, <3>2
    <3>3. CASE \E todo \in SUBSET Tree : loop' = [loop EXCEPT !.todo = todo]
      BY <2>3, <3>3
    <3>4. (loop.todo \ {n}) \in SUBSET Tree
          /\ ((loop.todo \ {n}) \cup {c \in children[n] : refs[c] > 0}) \in SUBSET Tree
      BY <2>1
    <3>5. (UNCHANGED loop) \/ loop' = Idle
            \/ loop' = [loop EXCEPT !.todo = loop.todo \ {n}]
            \/ loop' = [loop EXCEPT !.todo = (loop.todo \ {n}) \cup {c \in children[n] : refs[c] > 0}]
      BY <1>5 DEF RemoveBranchStep, TouchAllStep, CommitAllStep, GiveUp
    <3>6. QED
      BY <3>1, <3>2, <3>3, <3>4, <3>5
  <2>4. GiveUp \/ UNCHANGED ret
    BY <1>5 DEF RemoveBranchStep, TouchAllStep, CommitAllStep
  <2>5. QED
    BY <2>2, <2>3, <2>4
<1>6. CASE LoopDone
  BY <1>6 DEF LoopDone, Idle, Return, Status, Ops, Tree
<1>7. CASE UNCHANGED vars
  BY <1>7 DEF vars
<1>8. QED
  BY <1>3, <1>4, <1>5, <1>6, <1>7 DEF Next, LoopStep

(* The step of the induction: one case per action. *)
LEMMA CoreStep ==
  ASSUME Core, [Next]_vars
  PROVE  Core'
<1>1. CallsTyped'
  BY CallsStep
<1>2. \A n \in Tree : pending[n] \in SUBSET Flags /\ (param[n] # NULL => n \in Node)
  BY DEF Core, TypeOK, Tree
<1>3. CASE Call
  <2>1. ASSUME NEW n \in Node, NEW v \in Param, NEW flags \in SUBSET Flags,
               PutCreated(n, v, flags) \/ PutChanged(n, v, flags)
        PROVE  Core'
    BY <1>1, <2>1, PutCreatedKeeps, PutChangedKeeps
  <2>2. ASSUME NEW n \in Node, PutRejected(n) \/ PutFailed(n) PROVE Core'
    BY <1>1, <2>2, CreateKeeps DEF PutRejected, PutFailed
  <2>9. ASSUME NEW n \in Node, NEW s \in Spare, PutOrphaned(n, s) PROVE Core'
    BY <1>1, <2>9, OrphanedKeeps
  <2>3. ASSUME NEW n \in Node, NEW match \in BOOLEAN, Get(n, match) PROVE Core'
    BY <1>1, <2>3, MarkKeeps DEF Get
  <2>4. ASSUME NEW n \in Node, NEW match \in BOOLEAN, Remove(n, match) PROVE Core'
    BY <1>1, <2>4, MarkKeeps, TakeParamKeeps DEF Remove
  <2>5. ASSUME NEW n \in Node, NEW flags \in SUBSET Flags, Commit(n, flags) PROVE Core'
    <3>1. pending[n] \ flags \in SUBSET Flags
      BY <1>2 DEF Tree
    <3>2. QED
      BY <1>1, <2>5, <3>1, MarkKeeps DEF Commit
  <2>6. ASSUME NEW n \in Node, NEW flags \in SUBSET Flags, NEW private \in BOOLEAN,
               Touch(n, flags, private)
        PROVE  Core'
    <3>1. pending[n] \cup flags \in SUBSET Flags
      BY <1>2 DEF Tree
    <3>2. QED
      BY <1>1, <2>6, <3>1, MarkKeeps DEF Touch, Skipped
  <2>7. ASSUME Gc PROVE Core'
    BY <1>1, <2>7, GcKeeps
  <2>8. QED
    BY <1>3, <2>1, <2>2, <2>3, <2>4, <2>5, <2>6, <2>7, <2>9 DEF Call
<1>4. CASE LoopStart
  BY <1>1, <1>4, MarkKeeps DEF LoopStart, RemoveBranch, CommitAll, TouchAll
<1>5. ASSUME NEW n \in Tree, RemoveBranchStep(n) PROVE Core'
  BY <1>1, <1>2, <1>5, MarkKeeps, TakeParamKeeps DEF RemoveBranchStep
<1>6. ASSUME NEW n \in Tree, TouchAllStep(n) PROVE Core'
  <2>1. loop.flags \in SUBSET Flags
    BY DEF Core, TypeOK
  <2>2. pending[n] \cup loop.flags \in SUBSET Flags
    BY <1>2, <2>1
  <2>3. QED
    BY <1>1, <1>2, <1>6, <2>2, MarkKeeps DEF TouchAllStep, Skipped
<1>7. ASSUME NEW n \in Tree, CommitAllStep(n) PROVE Core'
  <2> DEFINE left == pending[n] \ {IF "TX" \in loop.flags /\ sTx # {} THEN "TX" ELSE "RX"}
  <2>1. left \in SUBSET Flags
    BY <1>2
  <2>2. CASE param[n] = NULL
    BY <1>1, <1>7, <2>2, MarkKeeps DEF CommitAllStep
  <2>3. CASE param[n] # NULL
    <3>1. UNCHANGED <<treeVars, valueVars>> /\ SetPending(n, left)
      BY <1>7, <2>3 DEF CommitAllStep
    <3>2. QED
      BY <1>1, <1>2, <2>1, <2>3, <3>1, MarkKeeps
  <2>4. QED
    BY <2>2, <2>3
<1>8. CASE LoopDone
  BY <1>1, <1>8, MarkKeeps DEF LoopDone
<1>9. CASE UNCHANGED vars
  BY <1>1, <1>9, MarkKeeps DEF vars
<1>10. QED
  BY <1>3, <1>4, <1>5, <1>6, <1>7, <1>8, <1>9 DEF Next, LoopStep

LEMMA CoreInit ==
  ASSUME Init
  PROVE  Core
<1>1. TypeOK
  BY TreeAssumption DEF Init, TypeOK, Idle, Ops, Status, Tree, NoReturn
<1>2. TreeSound
  BY TreeAssumption DEF Init, TreeSound, Allocated, Children, Tree
<1>3. RefsExact
  <2>1. \A n \in Tree : Referenced(n) = {}
    BY DEF Init, Referenced
  <2>2. \A n \in Tree : refs[n] = Own(n)
    BY DEF Init, Own
  <2>3. \A n \in Tree : Own(n) \in Int
    BY DEF Own
  <2>4. QED
    BY <2>1, <2>2, <2>3, FS_EmptySet DEF RefsExact
<1>4. PendingHasParam
  BY DEF Init, PendingHasParam, Tree
<1>5. QED
  BY <1>1, <1>2, <1>3, <1>4 DEF Core

-----------------------------------------------------------------------------
(* In every reachable state of every storage the four parts of the         *)
(* invariant hold together.                                                *)
THEOREM CoreInvariant == Spec => []Core
<1>1. Init => Core
  BY CoreInit
<1>2. Core /\ [Next]_vars => Core'
  BY CoreStep
<1>3. QED
  BY <1>1, <1>2, PTL DEF Spec

(* The state of the storage stays well typed whatever calls are made.      *)
THEOREM TypeCorrect == Spec => []TypeOK
<1>1. Core => TypeOK
  BY DEF Core
<1>2. QED
  BY <1>1, CoreInvariant, PTL

(* reference_up() and reference_down(), which stop climbing early, keep    *)
(* every count equal to the parameter and the referenced children it is    *)
(* meant to count.                                                         *)
THEOREM ReferencesExact == Spec => []RefsExact
<1>1. Core => RefsExact
  BY DEF Core
<1>2. QED
  BY <1>1, CoreInvariant, PTL

(* put(), remove() and gc() leave no dangling child and no unreachable     *)
(* parameter, in any order of calls.                                       *)
THEOREM NothingDangles == Spec => []TreeSound
<1>1. Core => TreeSound
  BY DEF Core
<1>2. QED
  BY <1>1, CoreInvariant, PTL

(* No node without a parameter is linked in the TX or RX list, so gc() may *)
(* free garbage nodes without unlinking them and commit_all() does not     *)
(* meet a node it cannot unlink.                                           *)
THEOREM PendingNodesHold == Spec => []PendingHasParam
<1>1. Core => PendingHasParam
  BY DEF Core
<1>2. QED
  BY <1>1, CoreInvariant, PTL

-----------------------------------------------------------------------------
(* One owner for each parameter.                                           *)

LEMMA OwnedStep ==
  ASSUME Core, ParamsOwned, [Next]_vars
  PROVE  ParamsOwned'
<1>1. /\ NULL \notin pTrash /\ pTrash \subseteq Param /\ param[Root] = NULL
      /\ \A n \in Tree : param[n] \in Param \cup {NULL}
      /\ \A n \in Tree : n \in Node \/ n = Root
      /\ param = [n \in Tree |-> param[n]]
  BY ParamAssumption DEF Core, TypeOK, Tree
<1>2. CASE UNCHANGED <<param, pTrash>>
  BY <1>2 DEF ParamsOwned
<1>3. ASSUME NEW n \in Node, NEW v \in Fresh, param' = [param EXCEPT ![n] = v],
             pTrash' = pTrash \/ (pTrash' = pTrash \cup {param[n]} /\ param[n] # NULL)
      PROVE  ParamsOwned'
  <2>1. v # NULL /\ v \notin pTrash /\ \A m \in Tree : param[m] # v
    BY <1>1, ParamAssumption DEF Fresh
  <2>2. \A m \in Tree : param'[m] = IF m = n THEN v ELSE param[m]
    BY <1>1, <1>3
  <2>3. n \in Tree
    BY DEF Tree
  <2>4. \A m \in Tree : param'[m] \notin pTrash'
    <3>1. ASSUME NEW m \in Tree, m # n PROVE param[m] # param[n] \/ param[n] = NULL
      BY <3>1, <2>3 DEF ParamsOwned
    <3>2. QED
      BY <1>1, <1>3, <2>1, <2>2, <2>3, <3>1 DEF ParamsOwned
  <2>5. \A m, k \in Tree : param'[m] = param'[k] /\ m # k => param'[m] = NULL
    BY <2>1, <2>2 DEF ParamsOwned
  <2>6. QED
    BY <2>4, <2>5 DEF ParamsOwned
<1>4. ASSUME NEW n \in Node, param[n] # NULL, TakeParam(n) PROVE ParamsOwned'
  <2>1. param' = [param EXCEPT ![n] = NULL] /\ pTrash' = pTrash \cup {param[n]}
    BY <1>4 DEF TakeParam
  <2>2. \A m \in Tree : param'[m] = IF m = n THEN NULL ELSE param[m]
    BY <1>1, <2>1
  <2>3. n \in Tree
    BY DEF Tree
  <2>4. QED
    BY <1>1, <1>4, <2>1, <2>2, <2>3 DEF ParamsOwned
<1>5. CASE Gc
  BY <1>5, GcNeutral DEF ParamsOwned
<1>6. CASE Call
  <2>1. ASSUME NEW n \in Node, NEW v \in Param, NEW flags \in SUBSET Flags,
               PutCreated(n, v, flags) \/ PutChanged(n, v, flags)
        PROVE  ParamsOwned'
    <3>1. /\ v \in Fresh /\ param' = [param EXCEPT ![n] = v]
          /\ pTrash' = pTrash \/ (pTrash' = pTrash \cup {param[n]} /\ param[n] # NULL)
      BY <2>1 DEF PutCreated, PutChanged
    <3>2. QED
      BY <1>3, <3>1
  <2>2. ASSUME NEW n \in Node, PutRejected(n) \/ PutFailed(n) PROVE ParamsOwned'
    BY <1>2, <2>2 DEF PutRejected, PutFailed, valueVars
  <2>7. ASSUME NEW n \in Node, NEW s \in Spare, PutOrphaned(n, s) PROVE ParamsOwned'
    BY <1>2, <2>7 DEF PutOrphaned, valueVars
  <2>3. ASSUME NEW n \in Node, NEW match \in BOOLEAN, Get(n, match) \/ Remove(n, match)
        PROVE  ParamsOwned'
    BY <1>2, <1>4, <2>3 DEF Get, Remove, valueVars
  <2>4. ASSUME NEW n \in Node, NEW flags \in SUBSET Flags, NEW private \in BOOLEAN,
               Commit(n, flags) \/ Touch(n, flags, private)
        PROVE  ParamsOwned'
    BY <1>2, <2>4 DEF Commit, Touch, valueVars
  <2>5. \/ \E n \in Node, v \in Param, flags \in SUBSET Flags :
              PutCreated(n, v, flags) \/ PutChanged(n, v, flags)
        \/ \E n \in Node : PutRejected(n) \/ PutFailed(n)
        \/ \E n \in Node, s \in Spare : PutOrphaned(n, s)
        \/ \E n \in Node, match \in BOOLEAN : Get(n, match) \/ Remove(n, match)
        \/ \E n \in Node, flags \in SUBSET Flags :
              Commit(n, flags) \/ \E private \in BOOLEAN : Touch(n, flags, private)
        \/ Gc
    BY <1>6 DEF Call
  <2>6. QED
    BY <1>5, <2>1, <2>2, <2>3, <2>4, <2>5, <2>7
<1>7. CASE LoopStart \/ LoopDone
  BY <1>2, <1>7 DEF LoopStart, LoopDone, RemoveBranch, CommitAll, TouchAll, valueVars
<1>8. ASSUME NEW n \in Tree, RemoveBranchStep(n) PROVE ParamsOwned'
  BY <1>1, <1>2, <1>4, <1>8 DEF RemoveBranchStep, valueVars
<1>9. ASSUME NEW n \in Tree, TouchAllStep(n) \/ CommitAllStep(n) PROVE ParamsOwned'
  BY <1>2, <1>9 DEF TouchAllStep, CommitAllStep, valueVars
<1>10. CASE UNCHANGED vars
  BY <1>2, <1>10 DEF vars, valueVars
<1>11. QED
  BY <1>6, <1>7, <1>8, <1>9, <1>10 DEF Next, LoopStep

(* No parameter has two owners: gc() never frees a parameter a node still  *)
(* holds, and never the same one twice.                                    *)
THEOREM OneOwner == Spec => []ParamsOwned
<1>1. Init => ParamsOwned
  BY DEF Init, ParamsOwned
<1>2. Core /\ ParamsOwned /\ [Next]_vars => ParamsOwned'
  BY OwnedStep
<1>3. QED
  BY <1>1, <1>2, CoreInvariant, PTL DEF Spec

-----------------------------------------------------------------------------
(* The counters.                                                           *)

(* A list and its counter stay in step when one flag of one node moves. *)
LEMMA CountedFlag ==
  ASSUME NEW S \in SUBSET Node, NEW n \in Node, NEW had, NEW has,
         had \in BOOLEAN, has \in BOOLEAN, had <=> n \in S
  PROVE  Recount(Cardinality(S), had, has) = Cardinality(Relist(S, n, had, has))
<1>1. IsFiniteSet(S) /\ Cardinality(S) \in Nat
  BY FiniteNodes
<1>2. Cardinality(S \cup {n}) = IF n \in S THEN Cardinality(S) ELSE Cardinality(S) + 1
  BY <1>1, FS_AddElement
<1>3. Cardinality(S \ {n}) = IF n \in S THEN Cardinality(S) - 1 ELSE Cardinality(S)
  BY <1>1, FS_RemoveElement
<1>4. QED
  BY <1>1, <1>2, <1>3 DEF Recount, Relist

LEMMA CountedPending ==
  ASSUME Core, CountersExact,
         UNCHANGED pendingVars \/ \E n \in Node, flags \in SUBSET Flags : SetPending(n, flags)
  PROVE  nTxPending' = Cardinality(sTx') /\ nRxPending' = Cardinality(sRx')
<1>1. CASE UNCHANGED pendingVars
  BY <1>1 DEF CountersExact, pendingVars
<1>2. ASSUME NEW n \in Node, NEW flags \in SUBSET Flags, SetPending(n, flags)
      PROVE  nTxPending' = Cardinality(sTx') /\ nRxPending' = Cardinality(sRx')
  <2>1. /\ ("TX" \in pending[n]) <=> n \in sTx
        /\ ("RX" \in pending[n]) <=> n \in sRx
        /\ sTx \in SUBSET Node /\ sRx \in SUBSET Node
    BY DEF Core, PendingHasParam, TypeOK
  <2>2. /\ sTx' = Relist(sTx, n, "TX" \in pending[n], "TX" \in flags)
        /\ nTxPending' = Recount(nTxPending, "TX" \in pending[n], "TX" \in flags)
        /\ sRx' = Relist(sRx, n, "RX" \in pending[n], "RX" \in flags)
        /\ nRxPending' = Recount(nRxPending, "RX" \in pending[n], "RX" \in flags)
    BY <1>2 DEF SetPending
  <2>3. nTxPending = Cardinality(sTx) /\ nRxPending = Cardinality(sRx)
    BY DEF CountersExact
  <2>4. ("TX" \in pending[n]) \in BOOLEAN /\ ("TX" \in flags) \in BOOLEAN
        /\ ("RX" \in pending[n]) \in BOOLEAN /\ ("RX" \in flags) \in BOOLEAN
    OBVIOUS
  <2>5. nTxPending' = Cardinality(sTx')
    BY <2>1, <2>2, <2>3, <2>4, CountedFlag
  <2>6. nRxPending' = Cardinality(sRx')
    BY <2>1, <2>2, <2>3, <2>4, CountedFlag
  <2>7. QED
    BY <2>5, <2>6
<1>3. QED
  BY <1>1, <1>2

(* The counters under each action. *)
LEMMA CountersStep ==
  ASSUME Core, CountersExact, [Next]_vars
  PROVE  CountersExact'
<1> DEFINE Stored == {n \in Node : param[n] # NULL}
<1>1. /\ Stored \in SUBSET Node /\ sValid \in SUBSET Node
      /\ IsFiniteSet(Stored) /\ Cardinality(Stored) \in Nat
      /\ IsFiniteSet(sValid) /\ Cardinality(sValid) \in Nat
      /\ nNodes = Cardinality(sValid) /\ nValues = Cardinality(Stored)
      /\ param = [n \in Tree |-> param[n]]
  BY FiniteNodes DEF Core, TypeOK, CountersExact
<1>2. ASSUME UNCHANGED <<sValid, nNodes, param, nValues>>,
             UNCHANGED pendingVars \/ \E n \in Node, flags \in SUBSET Flags : SetPending(n, flags)
      PROVE  CountersExact'
  BY <1>2, CountedPending DEF CountersExact
<1>3. \A n \in Node : \A flags : pending[n] \cup flags \in SUBSET Flags
                                   <=> flags \in SUBSET Flags
  BY DEF Core, TypeOK, Tree
<1>4. \A n \in Node : \A flags : pending[n] \ flags \in SUBSET Flags
  BY DEF Core, TypeOK, Tree
<1>5. ASSUME NEW n \in Node, NEW v \in Param, NEW flags \in SUBSET Flags,
             PutCreated(n, v, flags)
      PROVE  CountersExact'
  <2>1. /\ param[n] = NULL /\ param' = [param EXCEPT ![n] = v] /\ v # NULL
        /\ children' = Linked(n) /\ ReferenceUp(n, sGarbage \cup Missing(n))
        /\ SetPending(n, pending[n] \cup flags) /\ nValues' = nValues + 1
    BY <1>5, ParamAssumption DEF PutCreated
  <2>2. sValid' = sValid \cup Path(n) /\ nNodes' = nNodes + Cardinality(Path(n) \ sValid)
    BY <2>1, UpSound
  <2>3. nNodes' = Cardinality(sValid')
    <3> DEFINE P == Path(n) \ sValid
    <3>1. IsFiniteSet(P) /\ Cardinality(P) \in Nat /\ sValid \cap P = {}
          /\ sValid' = sValid \cup P
      BY <2>2, MissingNodes, FiniteNodes
    <3> HIDE DEF P
    <3>2. Cardinality(sValid \cup P) = Cardinality(sValid) + Cardinality(P)
      <4>1. Cardinality(sValid \cup P)
              = Cardinality(sValid) + Cardinality(P) - Cardinality(sValid \cap P)
        BY <1>1, <3>1, FS_Union
      <4>2. Cardinality(sValid \cap P) = 0
        BY <3>1, FS_EmptySet
      <4>3. QED
        BY <1>1, <3>1, <4>1, <4>2
    <3>3. QED
      BY <1>1, <2>2, <3>1, <3>2 DEF P
  <2>4. nValues' = Cardinality(Stored')
    <3>1. Stored' = Stored \cup {n} /\ n \notin Stored
      BY <1>1, <2>1 DEF Tree
    <3> HIDE DEF Stored
    <3>2. QED
      BY <1>1, <2>1, <3>1, FS_AddElement
  <2>5. nTxPending' = Cardinality(sTx') /\ nRxPending' = Cardinality(sRx')
    BY <1>3, <2>1, CountedPending
  <2>6. QED
    BY <2>3, <2>4, <2>5 DEF CountersExact
<1>6. ASSUME NEW n \in Node, NEW v \in Param, NEW flags \in SUBSET Flags,
             PutChanged(n, v, flags)
      PROVE  CountersExact'
  <2>1. /\ param[n] # NULL /\ param' = [param EXCEPT ![n] = v] /\ v # NULL
        /\ SetPending(n, pending[n] \cup flags)
        /\ UNCHANGED <<sValid, nNodes, nValues>>
    BY <1>6, ParamAssumption DEF PutChanged
  <2>2. Stored' = Stored
    BY <1>1, <2>1 DEF Tree
  <2>3. nTxPending' = Cardinality(sTx') /\ nRxPending' = Cardinality(sRx')
    BY <1>3, <2>1, CountedPending
  <2>4. QED
    BY <1>1, <2>1, <2>2, <2>3 DEF CountersExact
<1>7. ASSUME NEW n \in Node, param[n] # NULL, TakeParam(n) PROVE CountersExact'
  <2>1. /\ SetPending(n, {}) /\ ReferenceDown(n) /\ UNCHANGED children
        /\ param' = [param EXCEPT ![n] = NULL] /\ nValues' = nValues - 1
    BY <1>7 DEF TakeParam
  <2>2. /\ sValid' = sValid \ Emptied(n) /\ Emptied(n) \subseteq sValid
        /\ nNodes' = nNodes - Cardinality(Emptied(n))
    BY <1>7, <2>1, DownSound
  <2>3. nNodes' = Cardinality(sValid')
    <3>1. sValid \cap Emptied(n) = Emptied(n)
      BY <2>2
    <3>2. Cardinality(sValid \ Emptied(n)) = Cardinality(sValid) - Cardinality(Emptied(n))
      BY <1>1, <3>1, FS_Difference
    <3>3. QED
      BY <1>1, <2>2, <3>2
  <2>4. nValues' = Cardinality(Stored')
    <3>1. Stored' = Stored \ {n} /\ n \in Stored
      BY <1>1, <1>7, <2>1 DEF Tree
    <3> HIDE DEF Stored
    <3>2. QED
      BY <1>1, <2>1, <3>1, FS_RemoveElement
  <2>5. nTxPending' = Cardinality(sTx') /\ nRxPending' = Cardinality(sRx')
    BY <2>1, CountedPending
  <2>6. QED
    BY <2>3, <2>4, <2>5 DEF CountersExact
<1>8. CASE Gc
  BY <1>8, GcNeutral DEF CountersExact, Gc
<1> HIDE DEF Stored
<1>9. CASE Call
  <2>1. ASSUME NEW n \in Node, PutRejected(n) \/ PutFailed(n) PROVE CountersExact'
    BY <1>2, <2>1 DEF PutRejected, PutFailed, valueVars
  <2>7. ASSUME NEW n \in Node, NEW s \in Spare, PutOrphaned(n, s) PROVE CountersExact'
    BY <1>2, <2>7 DEF PutOrphaned, valueVars
  <2>2. ASSUME NEW n \in Node, NEW match \in BOOLEAN, Get(n, match) \/ Remove(n, match)
        PROVE  CountersExact'
    BY <1>2, <1>7, <2>2 DEF Get, Remove, treeVars, valueVars
  <2>3. ASSUME NEW n \in Node, NEW flags \in SUBSET Flags, Commit(n, flags)
        PROVE  CountersExact'
    BY <1>2, <1>4, <2>3 DEF Commit, treeVars, valueVars
  <2>4. ASSUME NEW n \in Node, NEW flags \in SUBSET Flags, NEW private \in BOOLEAN,
               Touch(n, flags, private)
        PROVE  CountersExact'
    BY <1>2, <1>3, <2>4 DEF Touch, treeVars, valueVars
  <2>5. \/ \E n \in Node, v \in Param, flags \in SUBSET Flags :
              PutCreated(n, v, flags) \/ PutChanged(n, v, flags)
        \/ \E n \in Node : PutRejected(n) \/ PutFailed(n)
        \/ \E n \in Node, s \in Spare : PutOrphaned(n, s)
        \/ \E n \in Node, match \in BOOLEAN : Get(n, match) \/ Remove(n, match)
        \/ \E n \in Node, flags \in SUBSET Flags :
              Commit(n, flags) \/ \E private \in BOOLEAN : Touch(n, flags, private)
        \/ Gc
    BY <1>9 DEF Call
  <2>6. QED
    BY <1>5, <1>6, <1>8, <2>1, <2>2, <2>3, <2>4, <2>5, <2>7
<1>10. CASE LoopStart \/ LoopDone
  BY <1>2, <1>10 DEF LoopStart, LoopDone, RemoveBranch, CommitAll, TouchAll,
                     treeVars, valueVars
<1>11. ASSUME NEW n \in Tree, RemoveBranchStep(n) PROVE CountersExact'
  <2>1. param[n] # NULL => n \in Node
    BY DEF Core, TypeOK, Tree
  <2>2. QED
    BY <1>2, <1>7, <1>11, <2>1 DEF RemoveBranchStep, treeVars, valueVars
<1>12. ASSUME NEW n \in Tree, TouchAllStep(n) \/ CommitAllStep(n) PROVE CountersExact'
  <2>1. param[n] # NULL => n \in Node
    BY DEF Core, TypeOK, Tree
  <2>2. loop.flags \in SUBSET Flags
    BY DEF Core, TypeOK
  <2>3. UNCHANGED <<treeVars, valueVars>>
    BY <1>12 DEF TouchAllStep, CommitAllStep
  <2>4. UNCHANGED pendingVars \/ \E m \in Node, flags \in SUBSET Flags : SetPending(m, flags)
    BY <1>3, <1>4, <1>12, <2>1, <2>2 DEF TouchAllStep, CommitAllStep, Skipped
  <2>5. QED
    BY <1>2, <2>3, <2>4 DEF treeVars, valueVars
<1>13. CASE UNCHANGED vars
  BY <1>2, <1>13 DEF vars, treeVars, valueVars
<1>14. QED
  BY <1>9, <1>10, <1>11, <1>12, <1>13 DEF Next, LoopStep

(* nodes(), values(), tx_pending() and rx_pending() always tell how many   *)
(* nodes are referenced, hold a parameter, are linked for transmission and *)
(* for reception.                                                          *)
THEOREM CountersTrue == Spec => []CountersExact
<1>1. Init => CountersExact
  <2>1. ASSUME Init PROVE CountersExact
    <3>1. {n \in Node : param[n] # NULL} = {}
      BY <2>1 DEF Init, Tree
    <3>2. QED
      BY <2>1, <3>1, FS_EmptySet DEF Init, CountersExact
  <2>2. QED
    BY <2>1
<1>2. Core /\ CountersExact /\ [Next]_vars => CountersExact'
  BY CountersStep
<1>3. QED
  BY <1>1, <1>2, CoreInvariant, PTL DEF Spec

-----------------------------------------------------------------------------
(* The storage implements the map: each of its steps is a step of KVTMap   *)
(* or a stutter, given Core and, for the calls that loop, LoopInv.          *)

(* A path that leads to a parameter is found. *)
LEMMA StoredFound ==
  ASSUME Core, NEW n \in Node, param[n] # NULL, NEW y \in Upto(n)
  PROVE  Found(y)
<1>1. n \in sValid /\ n \in Tree /\ y \in Tree
  <2>1. n \in Tree
    BY DEF Tree
  <2>2. n \in sValid
    BY <2>1, Counts
  <2>3. y \in Tree
    BY <2>1, TreeAssumption DEF Upto
  <2> QED BY <2>1, <2>2, <2>3
<1>2. Path(y) \subseteq Path(n)
  BY <1>1, TreeAssumption DEF Path, Upto
<1>3. Path(n) \subseteq sValid
  BY <1>1 DEF Core, TreeSound
<1>4. ASSUME NEW z \in Path(y) PROVE z \in children[Parent[z]] /\ refs[z] > 0
  <2>1. z \in sValid /\ z \in Node /\ refs[z] > 0
    BY <1>2, <1>3 DEF Core, TreeSound
  <2>2. Parent[z] \in Tree
    BY <2>1, TreeAssumption
  <2>3. children[Parent[z]] = Allocated \cap Children(Parent[z])
    BY <2>2 DEF Core, TreeSound
  <2> QED BY <2>1, <2>3 DEF Allocated, Children
<1> QED BY <1>4 DEF Found

(* What remains of a branch lies below a task of the loop, and what of the *)
(* list was visited is marked.                                             *)
LoopInv ==
  /\ loop.op = "remove_branch" =>
       /\ \A t \in loop.todo : loop.base \in Upto(t)
       /\ \A m \in Node : param[m] # NULL /\ loop.base \in Upto(m) =>
            \E t \in loop.todo : t \in Upto(m)
  /\ loop.op = "touch_all" =>
       \A n \in Node : n \notin loop.todo /\ ~Skipped(n, loop.private) =>
         loop.flags \subseteq pending[n]

LEMMA BranchStep ==
  ASSUME Core, LoopInv, NEW n \in Tree, RemoveBranchStep(n)
  PROVE  LoopInv'
<1>1. /\ loop.op = "remove_branch" /\ n \in loop.todo
      /\ IF param[n] # NULL THEN TakeParam(n)
                            ELSE UNCHANGED <<treeVars, valueVars, pendingVars>>
  BY DEF RemoveBranchStep
<1>2. CASE GiveUp
  BY <1>2 DEF GiveUp, Idle, LoopInv
<1>3. CASE loop' = [loop EXCEPT !.todo = (@ \ {n}) \cup {c \in children[n] : refs[c] > 0}]
  <2>1. /\ loop'.op = "remove_branch" /\ loop'.base = loop.base
        /\ loop'.todo = (loop.todo \ {n}) \cup {c \in children[n] : refs[c] > 0}
    BY <1>1, <1>3 DEF Core, TypeOK
  <2>2. /\ \A m \in Tree : m # n => param'[m] = param[m]
        /\ param'[n] = NULL
    BY <1>1 DEF TakeParam, valueVars, Core, TypeOK
  <2>3. ASSUME NEW t \in loop'.todo PROVE loop'.base \in Upto(t)
    <3>1. CASE t \in loop.todo
      BY <1>1, <2>1, <3>1 DEF LoopInv
    <3>2. CASE t \in children[n]
      <4>1. t \in Node /\ Parent[t] = n
        BY <3>2 DEF Core, TreeSound, Children
      <4>2. Above[t] = {n} \cup Above[n]
        BY <4>1, TreeAssumption
      <4>3. loop.base \in Upto(n)
        BY <1>1 DEF LoopInv
      <4> QED BY <2>1, <4>2, <4>3 DEF Upto
    <3> QED BY <2>1, <3>1, <3>2
  <2>4. ASSUME NEW m \in Node, param'[m] # NULL, loop'.base \in Upto(m)
        PROVE  \E t \in loop'.todo : t \in Upto(m)
    <3>1. m \in Tree /\ m # n /\ param[m] # NULL
      BY <2>2, <2>4 DEF Tree
    <3>2. PICK t \in loop.todo : t \in Upto(m)
      BY <1>1, <2>1, <2>4, <3>1 DEF LoopInv
    <3>3. CASE t # n
      BY <2>1, <3>2, <3>3
    <3>4. CASE t = n
      <4>1. n \in Above[m]
        BY <3>1, <3>2, <3>4 DEF Upto
      <4>2. PICK c \in Upto(m) \cap Node : Parent[c] = n
        BY <3>1, <4>1, TreeAssumption
      <4>3. Found(m) /\ c \in Path(m)
        <5>1. m \in Upto(m)
          BY DEF Upto
        <5> QED BY <3>1, <4>2, <5>1, StoredFound, TreeAssumption DEF Path
      <4>4. c \in children[n] /\ refs[c] > 0
        BY <4>2, <4>3 DEF Found
      <4> QED BY <2>1, <4>2, <4>4
    <3> QED BY <3>3, <3>4
  <2> QED BY <2>1, <2>3, <2>4 DEF LoopInv
<1> QED BY <1>2, <1>3 DEF RemoveBranchStep

LEMMA LoopsStep ==
  ASSUME Core, LoopInv, [Next]_vars
  PROVE  LoopInv'
<1>1. CASE UNCHANGED vars
  BY <1>1 DEF vars, valueVars, pendingVars, LoopInv, Skipped
<1>2. CASE Call
  BY <1>2 DEF Call, LoopInv
<1>3. CASE LoopStart
  <2>1. ASSUME NEW n \in Tree, RemoveBranch(n) PROVE LoopInv'
    <3>1. CASE UNCHANGED loop
      BY <1>3, <3>1 DEF LoopStart, LoopInv
    <3>2. CASE loop' = [op |-> "remove_branch", base |-> n, flags |-> {},
                        private |-> FALSE, todo |-> {n}]
      BY <3>2 DEF LoopInv, Upto
    <3> QED BY <2>1, <3>1, <3>2 DEF RemoveBranch
  <2>2. ASSUME NEW flags \in SUBSET Flags, CommitAll(flags) PROVE LoopInv'
    BY <2>2 DEF CommitAll, Idle, LoopInv
  <2>3. ASSUME NEW flags \in SUBSET Flags, NEW private \in BOOLEAN, TouchAll(flags, private)
        PROVE  LoopInv'
    <3>1. /\ loop'.op = "touch_all" /\ loop'.todo = sValid /\ param' = param
      BY <2>3 DEF TouchAll, valueVars
    <3>2. \A n \in Node : param[n] # NULL => n \in sValid
      BY Counts DEF Tree
    <3> QED BY <3>1, <3>2 DEF LoopInv, Skipped
  <2> QED BY <1>3, <2>1, <2>2, <2>3 DEF LoopStart
<1>4. ASSUME NEW n \in Tree, RemoveBranchStep(n) PROVE LoopInv'
  BY <1>4, BranchStep
<1>5. ASSUME NEW n \in Tree, TouchAllStep(n) PROVE LoopInv'
  <2>1. loop.op = "touch_all" /\ n \in loop.todo /\ UNCHANGED valueVars
    BY <1>5 DEF TouchAllStep
  <2>2. CASE GiveUp
    BY <2>2 DEF GiveUp, Idle, LoopInv
  <2>3. CASE loop' = [loop EXCEPT !.todo = @ \ {n}]
    <3>1. /\ loop'.op = "touch_all" /\ loop'.todo = loop.todo \ {n}
          /\ loop'.flags = loop.flags /\ loop'.private = loop.private
      BY <2>1, <2>3 DEF Core, TypeOK
    <3>2. /\ \A m \in Tree : m # n => pending'[m] = pending[m]
          /\ ~Skipped(n, loop.private) => loop.flags \subseteq pending'[n]
      BY <1>5 DEF TouchAllStep, SetPending, pendingVars, Core, TypeOK
    <3> QED BY <2>1, <3>1, <3>2 DEF LoopInv, Skipped, valueVars, Tree
  <2> QED BY <1>5, <2>2, <2>3 DEF TouchAllStep
<1>6. ASSUME NEW n \in Tree, CommitAllStep(n) PROVE LoopInv'
  BY <1>6 DEF CommitAllStep, GiveUp, Idle, LoopInv
<1>7. CASE LoopDone
  BY <1>7 DEF LoopDone, Idle, LoopInv
<1> QED BY <1>1, <1>2, <1>3, <1>4, <1>5, <1>6, <1>7 DEF Next, LoopStep

LEMMA LoopsInvariance == Spec => []LoopInv
<1>1. Init => LoopInv
  BY DEF Init, Idle, LoopInv
<1>2. Core /\ LoopInv /\ [Next]_vars => LoopInv'
  BY LoopsStep
<1> QED BY <1>1, <1>2, CoreInvariant, PTL DEF Spec

(* From here on the two sides of the mapping are compared as functions on  *)
(* Node: what a step does to one parameter it does to one entry.           *)
LEMMA SameEntries ==
  ASSUME UNCHANGED valueVars, UNCHANGED pendingVars
  PROVE  /\ [m \in Node |-> param'[m]] = [m \in Node |-> param[m]]
         /\ [m \in Node |-> pending'[m]] = [m \in Node |-> pending[m]]
BY DEF valueVars, pendingVars

(* put(), get(), remove(), touch(), commit() and gc() as calls of the map. *)
LEMMA CallMaps ==
  ASSUME Core, Call
  PROVE  Map!MapCall \/ UNCHANGED Map!mapVars
<1>1. loop.op = "idle" /\ loop' = loop
  BY DEF Call
<1>2. /\ param \in [Tree -> Param \cup {NULL}] /\ pending \in [Tree -> SUBSET Flags]
      /\ \A m \in Node : m \in Tree
  BY DEF Core, TypeOK, Tree
<1>3. ASSUME NEW n \in Node PROVE param[n] # NULL => Found(n)
  BY StoredFound DEF Upto
<1>4. ASSUME NEW n \in Node, NEW v \in Param, NEW flags \in SUBSET Flags,
             PutCreated(n, v, flags) \/ PutChanged(n, v, flags)
      PROVE  Map!MapPut(n, v, flags)
  <2>1. /\ v \in Fresh
        /\ param' = [param EXCEPT ![n] = v]
        /\ pending' = [pending EXCEPT ![n] = pending[n] \cup flags]
        /\ Return(n, "OK", NULL)
    BY <1>4 DEF PutCreated, PutChanged, SetPending
  <2>2. \A m \in Node : param[m] # v
    BY <2>1 DEF Fresh
  <2> QED BY <1>1, <1>2, <2>1, <2>2 DEF Map!MapPut, Map!Return, Return
<1>5. ASSUME NEW n \in Node, PutRejected(n) PROVE Map!MapReject(n)
  BY <1>1, <1>5, SameEntries DEF PutRejected, Map!MapReject, Map!Return, Return
<1>6. ASSUME NEW n \in Node, PutFailed(n) PROVE \E s \in Map!Status : Map!MapFail(n, s)
  BY <1>1, <1>6, SameEntries
     DEF PutFailed, Map!MapFail, Map!Return, Return, Map!Status
<1>17. ASSUME NEW n \in Node, NEW s \in Spare, PutOrphaned(n, s)
       PROVE  Map!MapFail(n, "NO_MEM")
  BY <1>1, <1>17, SameEntries DEF PutOrphaned, Map!MapFail, Map!Return, Return
<1>7. ASSUME NEW n \in Node, NEW match \in BOOLEAN, Get(n, match)
      PROVE  Map!MapGet(n, match)
  BY <1>1, <1>3, <1>7, SameEntries DEF Get, Map!MapGet, Map!Return, Return
<1>8. ASSUME NEW n \in Node, NEW match \in BOOLEAN, Remove(n, match)
      PROVE  Map!MapRemove(n) \/ Map!MapGet(n, FALSE)
  <2>1. CASE Found(n) /\ param[n] # NULL /\ match
    <3>1. /\ param' = [param EXCEPT ![n] = NULL]
          /\ pending' = [pending EXCEPT ![n] = {}]
          /\ Return(n, "OK", param[n])
      BY <1>8, <2>1 DEF Remove, TakeParam, SetPending
    <3> QED BY <1>1, <1>2, <2>1, <3>1 DEF Map!MapRemove, Map!Drop, Map!Return, Return
  <2>2. CASE ~(Found(n) /\ param[n] # NULL /\ match)
    BY <1>1, <1>3, <1>8, <2>2, SameEntries DEF Remove, Map!MapGet, Map!Return, Return
  <2> QED BY <2>1, <2>2
<1>9. ASSUME NEW n \in Node, NEW flags \in SUBSET Flags, Commit(n, flags)
      PROVE  Map!MapUnmark(n, flags) \/ Map!MapGet(n, FALSE)
  <2>1. CASE Found(n) /\ param[n] # NULL
    <3>1. /\ pending' = [pending EXCEPT ![n] = pending[n] \ flags]
          /\ param' = param /\ Return(n, "OK", NULL)
      BY <1>9, <2>1 DEF Commit, SetPending, valueVars
    <3> QED BY <1>1, <1>2, <2>1, <3>1 DEF Map!MapUnmark, Map!Return, Return
  <2>2. CASE ~(Found(n) /\ param[n] # NULL)
    BY <1>1, <1>3, <1>9, <2>2, SameEntries DEF Commit, Map!MapGet, Map!Return, Return
  <2> QED BY <2>1, <2>2
<1>10. ASSUME NEW n \in Node, NEW flags \in SUBSET Flags, NEW private \in BOOLEAN,
              Touch(n, flags, private)
       PROVE  Map!MapMark(n, flags, private) \/ Map!MapGet(n, FALSE)
  <2>1. param' = param
    BY <1>10 DEF Touch, valueVars
  <2>2. CASE Found(n) /\ param[n] # NULL
    <3>1. Map!Touchable(n, private) <=> ~Skipped(n, private)
      BY <2>2 DEF Map!Touchable, Skipped
    <3>2. CASE ~Skipped(n, private)
      <4>1. /\ pending' = [pending EXCEPT ![n] = pending[n] \cup flags]
            /\ Return(n, "OK", NULL)
        BY <1>10, <2>2, <3>2 DEF Touch, SetPending
      <4> QED BY <1>1, <1>2, <2>1, <2>2, <3>1, <3>2, <4>1
              DEF Map!MapMark, Map!Return, Return
    <3>3. CASE Skipped(n, private)
      <4>1. pending' = pending /\ Return(n, "OK", NULL)
        BY <1>10, <2>2, <3>3 DEF Touch, pendingVars
      <4> QED BY <1>1, <1>2, <2>1, <2>2, <3>1, <3>3, <4>1
              DEF Map!MapMark, Map!Return, Return
    <3> QED BY <3>2, <3>3
  <2>3. CASE ~(Found(n) /\ param[n] # NULL)
    <3>1. param[n] = NULL
      BY <1>3, <2>3
    <3>2. pending' = pending /\ Return(n, "NOT_FOUND", NULL)
      BY <1>10, <2>3, <3>1 DEF Touch, Skipped, pendingVars
    <3> QED BY <1>1, <2>1, <3>1, <3>2 DEF Map!MapGet, Map!Return, Return
  <2> QED BY <2>2, <2>3
<1>11. CASE Gc
  BY <1>1, <1>11, GcNeutral DEF Gc, Map!mapVars
<1>12. \A n \in Node, match \in BOOLEAN : Map!MapGet(n, match) => Map!MapCall
  BY <1>1 DEF Map!MapCall
<1>13. CASE \E n \in Node, v \in Param, flags \in SUBSET Flags :
              PutCreated(n, v, flags) \/ PutChanged(n, v, flags)
  BY <1>1, <1>4, <1>13 DEF Map!MapCall, Map!Flags, Flags
<1>14. CASE \E n \in Node : PutRejected(n) \/ PutFailed(n)
  BY <1>1, <1>5, <1>6, <1>14 DEF Map!MapCall
<1>15. CASE \E n \in Node, match \in BOOLEAN : Get(n, match) \/ Remove(n, match)
  BY <1>1, <1>7, <1>8, <1>12, <1>15 DEF Map!MapCall
<1>16. CASE \E n \in Node, flags \in SUBSET Flags \ {{}} :
              Commit(n, flags) \/ \E private \in BOOLEAN : Touch(n, flags, private)
  <2>1. PICK n \in Node, flags \in SUBSET Flags :
              Commit(n, flags) \/ \E private \in BOOLEAN : Touch(n, flags, private)
    BY <1>16
  <2>2. CASE Commit(n, flags)
    BY <1>1, <1>9, <1>12, <2>2 DEF Map!MapCall, Map!Flags, Flags
  <2>3. ASSUME NEW private \in BOOLEAN, Touch(n, flags, private) PROVE Map!MapCall
    BY <1>1, <1>10, <1>12, <2>3 DEF Map!MapCall, Map!Flags, Flags
  <2> QED BY <2>1, <2>2, <2>3
<1>18. CASE \E n \in Node, s \in Spare : PutOrphaned(n, s)
  BY <1>1, <1>17, <1>18 DEF Map!MapCall, Map!Status
<1> QED BY <1>11, <1>13, <1>14, <1>15, <1>16, <1>18 DEF Call

(* The start of a loop, or of one that fails at once. *)
LEMMA StartMaps ==
  ASSUME Core, LoopStart
  PROVE  Map!MapCall \/ Map!MapBulkStart
<1>1. loop.op = "idle"
  BY DEF LoopStart
<1>2. ASSUME NEW n \in Tree, RemoveBranch(n)
      PROVE  Map!MapCall \/ Map!MapBulkStart
  <2>1. UNCHANGED valueVars /\ UNCHANGED pendingVars
    BY <1>2 DEF RemoveBranch
  <2>2. CASE /\ loop' = [op |-> "remove_branch", base |-> n, flags |-> {},
                         private |-> FALSE, todo |-> {n}]
             /\ ret' = NoReturn
    BY <1>1, <2>1, <2>2, SameEntries
       DEF Map!MapBulkStart, Map!Bulk, Map!Flags, Tree, NoReturn, Map!NoReturn
  <2>3. CASE UNCHANGED loop /\ Found(n) /\ Return(n, "NO_MEM", NULL)
    <3>1. Map!MapFail(n, "NO_MEM")
      BY <2>1, <2>3, SameEntries DEF Map!MapFail, Map!Return, Return
    <3> QED BY <1>1, <3>1 DEF Map!MapCall, Map!Status, Tree
  <2>4. CASE UNCHANGED loop /\ ~Found(n) /\ Return(n, "NOT_FOUND", NULL)
    <3>1. n \in Node
      BY <2>4, TreeAssumption DEF Found, Path, Upto, Tree
    <3>2. \A m \in Node : n \in Upto(m) => param[m] = NULL
      BY <2>4, StoredFound
    <3>3. Map!MapNoBranch(n)
      BY <2>1, <2>4, <3>1, <3>2, SameEntries DEF Map!MapNoBranch, Map!Return, Return, Upto
    <3> QED BY <1>1, <3>1, <3>3 DEF Map!MapCall
  <2> QED BY <1>2, <2>2, <2>3, <2>4 DEF RemoveBranch
<1>3. ASSUME NEW flags \in SUBSET Flags, CommitAll(flags) PROVE Map!MapBulkStart
  <2>1. UNCHANGED valueVars /\ UNCHANGED pendingVars /\ ret' = NoReturn
    BY <1>3 DEF CommitAll
  <2>2. loop' = [op |-> "commit_all", base |-> Root, flags |-> flags,
                 private |-> FALSE, todo |-> {}]
    BY <1>3 DEF CommitAll, Idle
  <2> QED BY <1>1, <2>1, <2>2, SameEntries
          DEF Map!MapBulkStart, Map!Bulk, Map!Flags, Flags, NoReturn, Map!NoReturn
<1>4. ASSUME NEW flags \in SUBSET Flags, NEW private \in BOOLEAN, TouchAll(flags, private)
      PROVE  Map!MapBulkStart
  BY <1>1, <1>4, SameEntries
     DEF TouchAll, Map!MapBulkStart, Map!Bulk, Map!Flags, Flags, NoReturn, Map!NoReturn
<1> QED BY <1>2, <1>3, <1>4 DEF LoopStart

(* One round of a loop: it works on one parameter or on none, and goes on  *)
(* or gives up.                                                            *)
LEMMA RoundMaps ==
  ASSUME Core, LoopInv, LoopStep
  PROVE  Map!MapBulkStep
<1>1. /\ param \in [Tree -> Param \cup {NULL}] /\ param[Root] = NULL
      /\ pending \in [Tree -> SUBSET Flags]
      /\ \A m \in Node : m \in Tree
      /\ \A m \in Tree : m \in Node \/ m = Root
  BY DEF Core, TypeOK, Tree
<1>2. GiveUp => Map!MapBulkFail
  BY DEF GiveUp, Idle, Map!MapBulkFail, Map!Idle, Map!Return, Return
<1>3. ASSUME NEW n \in Tree, RemoveBranchStep(n) PROVE Map!MapBulkStep
  <2>1. loop.op = "remove_branch" /\ n \in loop.todo /\ loop.base \in Upto(n)
    BY <1>3 DEF RemoveBranchStep, LoopInv
  <2>2. /\ loop'.op = loop.op /\ loop'.base = loop.base /\ loop'.flags = loop.flags
        /\ loop'.private = loop.private /\ UNCHANGED ret
        \/ GiveUp
    <3>1. CASE /\ loop' = [loop EXCEPT !.todo = (@ \ {n}) \cup {c \in children[n] : refs[c] > 0}]
               /\ UNCHANGED ret
      BY <3>1 DEF Core, TypeOK
    <3> QED BY <1>3, <3>1 DEF RemoveBranchStep
  <2>3. CASE param[n] # NULL
    <3>1. /\ param' = [param EXCEPT ![n] = NULL]
          /\ pending' = [pending EXCEPT ![n] = {}]
          /\ n \in Node
      BY <1>1, <1>3, <2>3 DEF RemoveBranchStep, TakeParam, SetPending
    <3>2. Map!Drop(n)
      BY <1>1, <3>1 DEF Map!Drop
    <3> QED BY <1>2, <2>1, <2>2, <3>1, <3>2 DEF Map!MapBulkStep, Upto
  <2>4. CASE param[n] = NULL
    BY <1>2, <1>3, <2>1, <2>2, <2>4, SameEntries DEF RemoveBranchStep, Map!MapBulkStep
  <2> QED BY <2>3, <2>4
<1>4. ASSUME NEW n \in Tree, TouchAllStep(n) PROVE Map!MapBulkStep
  <2>1. loop.op = "touch_all" /\ param' = param
    BY <1>4 DEF TouchAllStep, valueVars
  <2>2. /\ loop'.op = loop.op /\ loop'.base = loop.base /\ loop'.flags = loop.flags
        /\ loop'.private = loop.private /\ UNCHANGED ret
        \/ GiveUp
    <3>1. CASE loop' = [loop EXCEPT !.todo = @ \ {n}] /\ UNCHANGED ret
      BY <3>1 DEF Core, TypeOK
    <3> QED BY <1>4, <3>1 DEF TouchAllStep
  <2>3. CASE Skipped(n, loop.private)
    <3>1. pending' = pending
      BY <1>4, <2>3 DEF TouchAllStep, pendingVars
    <3> QED BY <1>2, <2>1, <2>2, <3>1 DEF Map!MapBulkStep
  <2>4. CASE ~Skipped(n, loop.private)
    <3>1. n \in Node /\ pending' = [pending EXCEPT ![n] = pending[n] \cup loop.flags]
      BY <1>1, <1>4, <2>4 DEF TouchAllStep, SetPending, Skipped
    <3>2. Map!Touchable(n, loop.private)
      BY <2>4, <3>1 DEF Map!Touchable, Skipped
    <3> QED BY <1>1, <1>2, <2>1, <2>2, <3>1, <3>2 DEF Map!MapBulkStep
  <2> QED BY <2>3, <2>4
<1>5. ASSUME NEW n \in Tree, CommitAllStep(n) PROVE Map!MapBulkStep
  <2>1. loop.op = "commit_all" /\ param' = param /\ n \in CommitList
    BY <1>5 DEF CommitAllStep, valueVars
  <2>2. UNCHANGED <<loop, ret>> \/ GiveUp
    BY <1>5 DEF CommitAllStep
  <2>3. CASE param[n] = NULL
    <3>1. pending' = pending
      BY <1>5, <2>3 DEF CommitAllStep, pendingVars
    <3> QED BY <1>2, <2>1, <2>2, <3>1 DEF Map!MapBulkStep
  <2>4. CASE param[n] # NULL
    <3> DEFINE f == IF "TX" \in loop.flags /\ sTx # {} THEN "TX" ELSE "RX"
    <3>1. n \in Node /\ pending' = [pending EXCEPT ![n] = pending[n] \ {f}]
      BY <1>1, <1>5, <2>4 DEF CommitAllStep, SetPending
    <3>2. f \in Map!Flags /\ f \in loop.flags
      BY <2>1 DEF CommitList, Map!Flags
    <3> HIDE DEF f
    <3> QED BY <1>1, <1>2, <2>1, <2>2, <3>1, <3>2 DEF Map!MapBulkStep
  <2> QED BY <2>3, <2>4
<1> QED BY <1>3, <1>4, <1>5 DEF LoopStep

(* The end of a loop: no task is left, so the work is complete. *)
LEMMA EndMaps ==
  ASSUME Core, LoopInv, LoopDone
  PROVE  Map!MapBulkEnd
<1>1. /\ loop.op # "idle" /\ loop' = Idle /\ Return(loop.base, "OK", NULL)
      /\ UNCHANGED valueVars /\ UNCHANGED pendingVars
      /\ loop.op = "commit_all" => CommitList = {}
      /\ loop.op # "commit_all" => loop.todo = {}
  BY DEF LoopDone
<1>2. ASSUME NEW n \in Node, loop.op = "remove_branch", loop.base \in Upto(n)
      PROVE  param[n] = NULL
  BY <1>1, <1>2 DEF LoopInv
<1>3. ASSUME NEW n \in Node, loop.op = "touch_all", Map!Touchable(n, loop.private)
      PROVE  loop.flags \subseteq pending[n]
  BY <1>1, <1>3 DEF LoopInv, Skipped, Map!Touchable
<1>4. ASSUME NEW n \in Node, loop.op = "commit_all"
      PROVE  pending[n] \cap loop.flags = {}
  BY <1>1, <1>4 DEF CommitList, Core, TypeOK, PendingHasParam, Flags
<1>5. Map!BulkComplete
  BY <1>2, <1>3, <1>4 DEF Map!BulkComplete, Map!Touchable, Upto
<1> QED BY <1>1, <1>5, SameEntries
        DEF Map!MapBulkEnd, Map!Idle, Idle, Map!Return, Return

(* Every call of the storage, and every round of a call that loops, is a   *)
(* step of the map or changes nothing it can show: get() finds what put()  *)
(* stored whatever was removed around it, remove_branch() says NOT_FOUND   *)
(* only of a branch without parameters, and the calls that visit many      *)
(* parameters say OK only when they have left out none.                    *)
THEOREM KeepsPromises == Spec => ImplementsMap
<1>1. Init => Map!MapInit
  BY DEF Init, Idle, Map!MapInit, Map!Idle, Tree, NoReturn, Map!NoReturn
<1>2. Core /\ LoopInv /\ [Next]_vars => [Map!MapNext]_(Map!mapVars)
  <2>1. CASE UNCHANGED vars
    BY <2>1 DEF vars, valueVars, pendingVars, Map!mapVars
  <2>2. CASE Core /\ LoopInv /\ Next
    BY <2>2, CallMaps, StartMaps, RoundMaps, EndMaps DEF Next, Map!MapNext
  <2> QED BY <2>1, <2>2
<1> QED BY <1>1, <1>2, CoreInvariant, LoopsInvariance, PTL DEF Spec, ImplementsMap, Map!MapSpec

=============================================================================
