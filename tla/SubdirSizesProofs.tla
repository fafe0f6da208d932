-------------------------- MODULE SubdirSizesProofs --------------------------
(***************************************************************************)
(* Theorems about SubdirSizes, for every tree, any number of files and     *)
(* subdirectories, and any number of changes in the course of a check.     *)
(***************************************************************************)
EXTENDS SubdirSizes, SequenceTheorems, TLAPS

Name == STRING
Node == Dir \union {Root}

-----------------------------------------------------------------------------
(* The tree.                                                               *)

LEMMA NodesAreSequences ==
  /\ \A d \in Node : d \in Seq(Name) /\ Len(d) \in Nat /\ (d # Root => Len(d) > 0)
  /\ Root \notin Dir /\ Len(Root) = 0
<1>1. Root \in Seq(Name) /\ Len(Root) = 0
  BY EmptySeq DEF Root
<1>2. \A d \in Dir : d \in Seq(Name) /\ d # Root
  BY TreeAssumption DEF Name
<1>3. \A d \in Dir : Len(d) \in Nat \ {0}
  BY <1>2, EmptySeq DEF Root
<1>4. \A d \in Node : d \in Seq(Name) /\ Len(d) \in Nat
  <2>1. Len(Root) \in Nat
    BY <1>1
  <2> QED BY <1>1, <1>2, <1>3, <2>1 DEF Node
<1>5. \A d \in Node : d # Root => Len(d) > 0
  BY <1>3 DEF Node
<1> QED BY <1>1, <1>2, <1>4, <1>5

\* The first names of a path.
LEMMA FirstNames ==
  ASSUME NEW d \in Node, NEW n \in 0..Len(d)
  PROVE  /\ SubSeq(d, 1, n) \in Seq(Name) /\ Len(SubSeq(d, 1, n)) = n
         /\ \A i \in 1..n : SubSeq(d, 1, n)[i] = d[i]
<1>1. d \in Seq(Name) /\ Len(d) \in Nat
  BY NodesAreSequences
<1>2. \A i \in 1..n : d[i] \in Name
  BY <1>1, ElementOfSeq
<1> QED BY <1>1, <1>2, SubSeqProperties

\* Inside d are the paths that begin with d.
LEMMA InsideBegins ==
  ASSUME NEW d \in Node, NEW e \in Node
  PROVE  Inside(d, e) <=> Len(e) < Len(d) /\ \A i \in 1..Len(e) : d[i] = e[i]
<1>1. e \in Seq(Name) /\ Len(e) \in Nat /\ Len(d) \in Nat
  BY NodesAreSequences
<1>2. CASE Len(e) < Len(d)
  <2>1. Len(e) \in 0..Len(d)
    BY <1>1, <1>2
  <2>2. /\ SubSeq(d, 1, Len(e)) \in Seq(Name) /\ Len(SubSeq(d, 1, Len(e))) = Len(e)
        /\ \A i \in 1..Len(e) : SubSeq(d, 1, Len(e))[i] = d[i]
    BY <2>1, FirstNames
  <2>3. ASSUME \A i \in 1..Len(e) : d[i] = e[i]
        PROVE  SubSeq(d, 1, Len(e)) = e
    BY <1>1, <2>2, <2>3, SeqEqual
  <2> QED BY <1>2, <2>2, <2>3 DEF Inside
<1>3. CASE ~(Len(e) < Len(d))
  BY <1>3 DEF Inside
<1> QED BY <1>2, <1>3

LEMMA InsideTransitive ==
  ASSUME NEW d \in Node, NEW e \in Node, NEW c \in Node, Inside(d, e), Inside(e, c)
  PROVE  Inside(d, c)
<1>1. Len(c) < Len(e) /\ Len(e) < Len(d) /\ Len(c) \in Nat /\ Len(e) \in Nat /\ Len(d) \in Nat
  BY InsideBegins, NodesAreSequences
<1>2. \A i \in 1..Len(c) : i \in 1..Len(e) /\ d[i] = e[i] /\ e[i] = c[i]
  BY <1>1, InsideBegins
<1> QED BY <1>1, <1>2, InsideBegins

LEMMA RootHasAll ==
  ASSUME NEW d \in Dir
  PROVE  Inside(d, Root)
<1>1. Len(Root) = 0 /\ Len(d) > 0 /\ d \in Node /\ Root \in Node
  BY NodesAreSequences DEF Node
<1> QED BY <1>1, InsideBegins

LEMMA ChildrenAreBelow ==
  ASSUME NEW e \in Node, NEW c \in Children(e)
  PROVE  c \in Dir /\ Inside(c, e) /\ ~Within(e, c) /\ Len(c) = Len(e) + 1
<1>1. c \in Dir /\ Inside(c, e) /\ Len(c) = Len(e) + 1
  BY DEF Children
<1>2. Len(e) \in Nat
  BY NodesAreSequences
<1> QED BY <1>1, <1>2 DEF Within, Inside

\* What is inside a directory is in one of its children, or is it;
LEMMA SomeChild ==
  ASSUME NEW e \in Node, NEW d \in Dir, Inside(d, e)
  PROVE  \E c \in Children(e) : Within(d, c)
<1> DEFINE c == SubSeq(d, 1, Len(e) + 1)
<1>1. /\ d \in Node /\ Len(d) \in Nat /\ Len(e) \in Nat /\ Len(e) + 1 \in 1..Len(d)
      /\ \A i \in 1..Len(e) : d[i] = e[i]
  BY InsideBegins, NodesAreSequences DEF Node
<1>2. c \in Dir
  BY <1>1, TreeAssumption
<1>3. Len(e) + 1 \in 0..Len(d)
  BY <1>1
<1>4. Len(c) = Len(e) + 1 /\ \A i \in 1..(Len(e) + 1) : c[i] = d[i]
  BY <1>3, <1>1, FirstNames
<1>5. c \in Node
  BY <1>2 DEF Node
<1> HIDE DEF c
<1>6. Inside(c, e)
  BY <1>1, <1>4, <1>5, InsideBegins
<1>7. c \in Children(e)
  BY <1>2, <1>4, <1>6 DEF Children
<1>8. CASE Len(d) = Len(c)
  <2>1. d = c
    BY <1>1, <1>4, <1>5, <1>8, NodesAreSequences, SeqEqual
  <2> QED BY <1>7, <2>1 DEF Within
<1>9. CASE Len(d) # Len(c)
  <2>1. Inside(d, c)
    BY <1>1, <1>4, <1>5, <1>9, InsideBegins
  <2> QED BY <1>7, <2>1 DEF Within
<1> QED BY <1>8, <1>9

\* and in no other.
LEMMA OneChild ==
  ASSUME NEW e \in Node, NEW d \in Dir, NEW b \in Children(e), NEW c \in Children(e),
         Within(d, b), Within(d, c)
  PROVE  b = c
<1>1. /\ b \in Node /\ c \in Node /\ d \in Node /\ Len(e) \in Nat
      /\ Len(b) = Len(e) + 1 /\ Len(c) = Len(e) + 1
  BY ChildrenAreBelow, NodesAreSequences DEF Node
<1>2. (\A i \in 1..(Len(e) + 1) : d[i] = b[i]) /\ (\A i \in 1..(Len(e) + 1) : d[i] = c[i])
  BY <1>1, InsideBegins DEF Within
<1> QED BY <1>1, <1>2, NodesAreSequences, SeqEqual

\* What is inside a child is inside its parent.
LEMMA ParentHasIt ==
  ASSUME NEW e \in Node, NEW d \in Dir, NEW c \in Children(e), Within(d, c)
  PROVE  Inside(d, e)
<1>1. c \in Node /\ d \in Node /\ Inside(c, e)
  BY ChildrenAreBelow DEF Node
<1> QED BY <1>1, InsideTransitive DEF Within

\* For a subdirectory of the root, what the loop counts is what its gauges are about.
LEMMA CoversIsCountsFor ==
  ASSUME NEW s \in Children(Root), NEW d \in Dir
  PROVE  Covers(s, d) <=> CountsFor(d, s)
<1>1. s \in Node /\ d \in Node /\ Root \in Node
  BY DEF Children, Node
<1>2. Len(s) = 1
  <2>1. Len(s) = Len(Root) + 1
    BY <1>1, ChildrenAreBelow
  <2>2. Len(Root) = 0
    BY NodesAreSequences
  <2> QED BY <2>1, <2>2
<1>3. 1..Len(s) = {1}
  BY <1>2
<1>4. Inside(d, s) <=> 1 < Len(d) /\ d[1] = s[1]
  BY <1>1, <1>2, <1>3, InsideBegins
<1>5. Len(d) \in Nat
  BY <1>1, NodesAreSequences
<1> QED BY <1>4, <1>5 DEF Covers, CountsFor

-----------------------------------------------------------------------------
(* The invariant: the file system.                                         *)

LEMMA ZeroIsCounts == Zero \in Counts /\ \A s \in Dir, f \in File : Zero[s][f] = 0
BY DEF Zero, Counts

LEMMA InitOK == Init => IInv
<1> SUFFICES ASSUME Init PROVE IInv
  OBVIOUS
<1>1. TypeOK
  <2>1. walk \in [doing : {"nothing", "list", "walk"}, subdirs : SUBSET Dir,
                  todo : SUBSET (Dir \union {Root}), root : Dir \union {Root},
                  files : SUBSET File, counted : Counts, sized : Counts]
    BY ZeroIsCounts DEF Init, NotWalking
  <2>2. sizes \in [subdirs : SUBSET Dir, counted : Counts, sized : Counts]
    BY ZeroIsCounts DEF Init
  <2>3. place \in [File -> Dir \union {Gone}]
    BY DEF Init
  <2> QED BY <2>1, <2>2, <2>3 DEF Init, TypeOK
<1>2. TreeOK
  BY DEF Init, TreeOK, Busy, NotWalking
<1>3. CountsOK
  BY ZeroIsCounts DEF Init, CountsOK, NotWalking
<1>4. StillOK /\ StillCountedOnce /\ CountedWasThere
  BY DEF Init, StillOK, StillCountedOnce, CountedWasThere, NotWalking
<1> QED BY <1>1, <1>2, <1>3, <1>4 DEF IInv

\* What happens to files that moved, or to directories, leaves the counts right.
LEMMA EnvironmentKeeps ==
  ASSUME IInv, TypeOK', UNCHANGED <<walk, sizes>>, still' \subseteq still, been \subseteq been',
         \A f \in still' : place'[f] = place[f]
  PROVE  CountsOK' /\ StillOK' /\ StillCountedOnce' /\ CountedWasThere'
<1>1. CountsOK'
  BY DEF IInv, CountsOK, CountsFor
<1>2. StillOK'
  BY DEF IInv, StillOK, Ahead, Behind, CountsFor
<1>3. StillCountedOnce'
  BY DEF IInv, StillCountedOnce, Busy, Covers
<1>4. CountedWasThere'
  BY DEF IInv, CountedWasThere, Busy, Covers
<1> QED BY <1>1, <1>2, <1>3, <1>4

LEMMA MoveOK ==
  ASSUME IInv, NEW f \in File, Move(f)
  PROVE  IInv'
<1>1. PICK d \in (dirs \union {Gone}) \ {place[f]} :
        place' = [place EXCEPT ![f] = d] /\ been' = been \union {<<f, d>>}
  BY DEF Move
<1>2. UNCHANGED <<dirs, walk, sizes>> /\ still' = still \ {f} /\ changes' = changes + 1
  BY DEF Move
<1>3. TypeOK'
  <2>1. d \in Dir \union {Gone}
    BY DEF IInv, TypeOK
  <2> QED BY <1>1, <1>2, <2>1 DEF IInv, TypeOK, Busy
<1>4. \A g \in File : place'[g] = IF g = f THEN d ELSE place[g]
  BY <1>1 DEF IInv, TypeOK
<1>5. TreeOK'
  BY <1>1, <1>2, <1>4 DEF IInv, TreeOK, Busy
<1>6. \A g \in still' : place'[g] = place[g]
  BY <1>2, <1>3, <1>4 DEF TypeOK
<1>7. still' \subseteq still /\ been \subseteq been'
  BY <1>1, <1>2
<1> QED BY <1>2, <1>3, <1>5, <1>6, <1>7, EnvironmentKeeps DEF IInv

LEMMA MakeDirOK ==
  ASSUME IInv, NEW d \in Dir, MakeDir(d)
  PROVE  IInv'
<1>1. UNCHANGED <<place, still, been, walk, sizes>> /\ changes' = changes + 1
  BY DEF MakeDir
<1>2. dirs' = dirs \union {d}
  BY DEF MakeDir
<1>3. TypeOK'
  BY <1>1, <1>2 DEF IInv, TypeOK, Busy
<1>4. ASSUME NEW e \in Dir, Inside(d, e)
      PROVE  e \in dirs
  <2> DEFINE parent == SubSeq(d, 1, Len(d) - 1)
  <2>1. d \in Node /\ e \in Node /\ Len(e) \in Nat /\ Len(d) \in Nat /\ Len(e) > 0
    BY NodesAreSequences DEF Node
  <2>2. Len(e) < Len(d) /\ \A i \in 1..Len(e) : d[i] = e[i]
    BY <1>4, <2>1, InsideBegins
  <2>3. Len(d) - 1 \in 1..Len(d) /\ Len(d) - 1 \in 0..Len(d) /\ Len(d) > 1
    BY <2>1, <2>2
  <2>4. parent \in dirs
    BY <2>3 DEF MakeDir
  <2>5. parent \in Node /\ parent \in Dir
    BY <2>4 DEF Node, IInv, TypeOK
  <2>6. Len(parent) = Len(d) - 1 /\ \A i \in 1..(Len(d) - 1) : parent[i] = d[i]
    BY <2>1, <2>3, FirstNames
  <2> HIDE DEF parent
  <2>7. CASE Len(e) = Len(parent)
    <3>1. e = parent
      BY <2>1, <2>2, <2>5, <2>6, <2>7, NodesAreSequences, SeqEqual
    <3> QED BY <2>4, <3>1
  <2>8. CASE Len(e) # Len(parent)
    <3>1. Inside(parent, e)
      BY <2>1, <2>2, <2>5, <2>6, <2>8, InsideBegins
    <3> QED BY <2>4, <3>1 DEF IInv, TreeOK
  <2> QED BY <2>7, <2>8
<1>5. TreeOK'
  BY <1>1, <1>2, <1>4 DEF IInv, TreeOK, Busy
<1> QED BY <1>1, <1>3, <1>5, EnvironmentKeeps DEF IInv

LEMMA RemoveDirOK ==
  ASSUME IInv, NEW d \in Dir, RemoveDir(d)
  PROVE  IInv'
<1>1. UNCHANGED <<place, still, been, walk, sizes>> /\ changes' = changes + 1
  BY DEF RemoveDir
<1>2. dirs' = dirs \ {d} /\ Children(d) \intersect dirs = {} /\ \A f \in File : place[f] # d
  BY DEF RemoveDir
<1>3. TypeOK'
  BY <1>1, <1>2 DEF IInv, TypeOK, Busy
<1>4. ASSUME NEW b \in dirs, Inside(b, d)
      PROVE  FALSE
  <2>1. b \in Dir /\ d \in Node
    BY DEF IInv, TypeOK, Node
  <2>2. PICK c \in Children(d) : Within(b, c)
    BY <1>4, <2>1, SomeChild
  <2>3. c \in dirs
    BY <2>1, <2>2, ChildrenAreBelow DEF Within, IInv, TreeOK
  <2> QED BY <1>2, <2>3
<1>5. TreeOK'
  <2>1. \A b \in dirs', e \in Dir : Inside(b, e) => e \in dirs'
    BY <1>2, <1>4 DEF IInv, TreeOK
  <2>2. \A f \in File : place'[f] \in dirs' \union {Gone}
    BY <1>1, <1>2 DEF IInv, TreeOK
  <2> QED BY <1>1, <2>1, <2>2 DEF IInv, TreeOK, Busy
<1> QED BY <1>1, <1>3, <1>5, EnvironmentKeeps DEF IInv

-----------------------------------------------------------------------------
(* The invariant: the check.                                               *)

Walks == [doing : {"nothing", "list", "walk"}, subdirs : SUBSET Dir, todo : SUBSET Node,
          root : Node, files : SUBSET File, counted : Counts, sized : Counts]

LEMMA WalkType == TypeOK => walk \in Walks
BY DEF TypeOK, Walks, Node

LEMMA AddOK ==
  ASSUME NEW counts \in Counts, NEW d, NEW fs
  PROVE  /\ Add(counts, d, fs) \in Counts
         /\ \A s \in Dir, f \in File :
              Add(counts, d, fs)[s][f] =
                IF s \in walk.subdirs /\ CountsFor(d, s) /\ f \in fs
                  THEN counts[s][f] + 1 ELSE counts[s][f]
<1>1. \A s \in Dir, f \in File : counts[s][f] \in Nat
  BY DEF Counts
<1>2. \A s \in Dir, f \in File :
        counts[s][f] + (IF s \in walk.subdirs /\ CountsFor(d, s) /\ f \in fs THEN 1 ELSE 0)
          = IF s \in walk.subdirs /\ CountsFor(d, s) /\ f \in fs
              THEN counts[s][f] + 1 ELSE counts[s][f]
  BY <1>1
<1>3. \A s \in Dir, f \in File :
        Add(counts, d, fs)[s][f] =
          counts[s][f] + (IF s \in walk.subdirs /\ CountsFor(d, s) /\ f \in fs THEN 1 ELSE 0)
  BY DEF Add
<1>4. Add(counts, d, fs) \in Counts
  <2>1. \A s \in Dir, f \in File :
          counts[s][f] + (IF s \in walk.subdirs /\ CountsFor(d, s) /\ f \in fs THEN 1 ELSE 0)
            \in Nat
    BY <1>1
  <2> QED BY <2>1 DEF Add, Counts
<1> QED BY <1>2, <1>3, <1>4

\* A step of the check that is not its last touches nothing but its locals.
LEMMA WalkKeeps ==
  ASSUME IInv, UNCHANGED <<treeVars, sizes>>, walk' \in Walks, walk.doing # "nothing",
         walk'.doing # "nothing", CountsOK', StillOK'
  PROVE  IInv'
<1>1. TypeOK'
  BY DEF treeVars, IInv, TypeOK, Walks, Node, Busy
<1>2. TreeOK'
  BY DEF treeVars, IInv, TreeOK, Busy
<1>3. StillCountedOnce' /\ CountedWasThere'
  BY DEF StillCountedOnce, CountedWasThere, Busy
<1> QED BY <1>1, <1>2, <1>3 DEF IInv

LEMMA StartOK ==
  ASSUME IInv, Start
  PROVE  IInv'
<1>1. UNCHANGED <<changes, dirs, place, sizes>> /\ still' = File
  BY DEF Start
<1>2. been' = {<<f, place[f]>> : f \in File}
  BY DEF Start
<1>3. walk' = [NotWalking EXCEPT !.doing = "list"]
  BY DEF Start, IInv, TypeOK
<1>4. /\ walk'.doing = "list" /\ walk'.subdirs = {} /\ walk'.counted = Zero
      /\ walk'.sized = Zero /\ walk'.files = {}
  BY <1>3 DEF NotWalking
<1>5. TypeOK'
  <2>1. walk' \in [doing : {"nothing", "list", "walk"}, subdirs : SUBSET Dir,
                   todo : SUBSET (Dir \union {Root}), root : Dir \union {Root},
                   files : SUBSET File, counted : Counts, sized : Counts]
    BY <1>3, ZeroIsCounts DEF NotWalking
  <2>2. been' \subseteq File \X (Dir \union {Gone})
    BY <1>2 DEF IInv, TypeOK
  <2> QED BY <1>1, <1>4, <2>1, <2>2 DEF IInv, TypeOK, Busy
<1>6. TreeOK'
  BY <1>1, <1>2 DEF IInv, TreeOK
<1>7. CountsOK'
  BY <1>3, <1>4, ZeroIsCounts DEF CountsOK, NotWalking
<1>8. StillOK' /\ StillCountedOnce' /\ CountedWasThere'
  BY <1>4 DEF StillOK, StillCountedOnce, CountedWasThere, Busy
<1> QED BY <1>5, <1>6, <1>7, <1>8 DEF IInv

LEMMA ListSubdirsOK ==
  ASSUME IInv, ListSubdirs
  PROVE  IInv'
<1>1. UNCHANGED <<treeVars, sizes>> /\ UNCHANGED <<changes, dirs, place, still, been>>
  BY DEF ListSubdirs, treeVars
<1>2. walk.doing = "list" /\ walk = [NotWalking EXCEPT !.doing = "list"]
  BY DEF ListSubdirs, IInv, CountsOK
<1>3. walk' = [walk EXCEPT !.doing = "walk", !.todo = {Root},
                 !.subdirs = {s \in Children(Root) \intersect dirs : TagsOf[s] # NoMatch}]
  BY DEF ListSubdirs
<1>4. /\ walk'.doing = "walk" /\ walk'.todo = {Root} /\ walk'.files = {}
      /\ walk'.subdirs = {s \in Children(Root) \intersect dirs : TagsOf[s] # NoMatch}
      /\ walk'.counted = Zero /\ walk'.sized = Zero
  BY <1>2, <1>3 DEF NotWalking
<1>5. walk' \in Walks
  <2>1. walk \in Walks
    BY WalkType DEF IInv
  <2>2. {s \in Children(Root) \intersect dirs : TagsOf[s] # NoMatch} \subseteq Dir
    BY DEF Children
  <2> QED BY <1>3, <2>1, <2>2 DEF Walks, Node
<1>6. CountsOK'
  BY <1>4, ZeroIsCounts DEF CountsOK
<1>7. StillOK'
  <2> SUFFICES ASSUME NEW f \in still, place[f] # Gone
               PROVE  /\ \A s \in Children(Root) :
                           CountsFor(place[f], s) /\ TagsOf[s] # NoMatch => s \in walk'.subdirs
                      /\ Ahead(f)'
    BY <1>1 DEF StillOK, CountsFor
  <2>1. f \in File /\ place[f] \in dirs /\ place[f] \in Dir
    BY DEF IInv, TypeOK, TreeOK
  <2>2. ASSUME NEW s \in Children(Root), CountsFor(place[f], s)
        PROVE  s \in dirs
    BY <2>1, <2>2 DEF CountsFor, Children, IInv, TreeOK
  <2>3. Within(place[f], Root)
    BY <2>1, RootHasAll DEF Within
  <2>4. Ahead(f)'
    BY <1>1, <1>4, <2>1, <2>3, ZeroIsCounts DEF Ahead
  <2> QED BY <1>4, <2>2, <2>4
<1> QED BY <1>1, <1>2, <1>4, <1>5, <1>6, <1>7, WalkKeeps

\* The directories that a visit adds are one for each file that is further below.
LEMMA VisitOK ==
  ASSUME IInv, NEW d \in Node, Visit(d)
  PROVE  IInv'
<1> DEFINE files == {f \in File : place[f] = d}
           todo == (walk.todo \ {d}) \union (Children(d) \intersect dirs)
<1>1. UNCHANGED <<treeVars, sizes>> /\ UNCHANGED <<changes, dirs, place, still, been>>
  BY DEF Visit, treeVars
<1>2. walk.doing = "walk" /\ walk.files = {} /\ d \in walk.todo
  BY DEF Visit, Deepest
<1>3. walk' = [walk EXCEPT !.root = d, !.files = files, !.todo = todo,
                           !.counted = Add(@, d, files)]
  BY DEF Visit
<1> HIDE DEF files, todo
<1>4. walk \in Walks
  BY WalkType DEF IInv
<1>5. /\ walk'.doing = "walk" /\ walk'.root = d /\ walk'.files = files /\ walk'.todo = todo
      /\ walk'.subdirs = walk.subdirs /\ walk'.sized = walk.sized
      /\ walk'.counted = Add(walk.counted, d, files)
  BY <1>2, <1>3, <1>4 DEF Walks
<1>6. walk.counted \in Counts /\ walk.sized \in Counts
  BY <1>4 DEF Walks
<1>7. \A s \in Dir, f \in File :
        walk'.counted[s][f] = IF s \in walk.subdirs /\ CountsFor(d, s) /\ f \in files
                                THEN walk.counted[s][f] + 1 ELSE walk.counted[s][f]
  BY <1>5, <1>6, AddOK
<1>8. walk' \in Walks
  <2>1. Add(walk.counted, d, files) \in Counts
    BY <1>6, AddOK
  <2>2. files \subseteq File /\ todo \subseteq Node
    BY <1>4 DEF files, todo, Children, Walks, Node
  <2> QED BY <1>3, <1>4, <2>1, <2>2 DEF Walks
<1>9. \A s \in Dir, f \in File : walk.counted[s][f] \in Nat /\ walk.sized[s][f] \in Nat
  BY <1>6 DEF Counts
<1>10. CountsOK'
  <2>1. ASSUME NEW s \in Dir, NEW f \in File
        PROVE  walk'.sized[s][f] + (IF s \in walk'.subdirs /\ CountsFor(walk'.root, s)
                                       /\ f \in walk'.files THEN 1 ELSE 0)
                 <= walk'.counted[s][f]
    <3>1. walk.sized[s][f] <= walk.counted[s][f]
      BY <1>2, <1>9 DEF IInv, CountsOK
    <3> QED BY <1>5, <1>7, <1>9, <3>1
  <2>2. ASSUME NEW s \in Dir, NEW f \in File, walk'.counted[s][f] > 0
        PROVE  \E e \in Dir : <<f, e>> \in been' /\ CountsFor(e, s)
    <3>1. CASE walk.counted[s][f] > 0
      BY <1>1, <3>1 DEF IInv, CountsOK
    <3>2. CASE CountsFor(d, s) /\ f \in files
      <4>1. place[f] = d /\ <<f, d>> \in been
        BY <1>2, <3>2 DEF files, IInv, TreeOK, Busy
      <4>2. d \in Dir
        BY <4>1, RestAssumption DEF Node, IInv, TypeOK
      <4> QED BY <1>1, <3>2, <4>1, <4>2
    <3> QED BY <1>7, <1>9, <2>2, <3>1, <3>2
  <2>3. walk'.subdirs \subseteq Children(Root)
    BY <1>5 DEF IInv, CountsOK
  <2> QED BY <1>5, <2>1, <2>2, <2>3 DEF CountsOK, CountsFor
<1>11. StillOK'
  <2> SUFFICES ASSUME NEW f \in still, place[f] # Gone
               PROVE  Ahead(f)' \/ Behind(f)'
    BY <1>1, <1>2, <1>5 DEF IInv, StillOK, CountsFor
  <2>1. f \in File /\ place[f] \in dirs /\ place[f] \in Dir /\ place[f] \in Node
    BY DEF IInv, TypeOK, TreeOK, Node
  <2>2. f \in files <=> place[f] = d
    BY <2>1 DEF files
  <2>3. \A s \in walk.subdirs : s \in Dir
    BY <1>4 DEF Walks
  <2>4. \A c \in Children(d) : Within(place[f], c) => Inside(place[f], d)
    BY <2>1, ParentHasIt
  <2>5. CASE Ahead(f)
    <3>1. PICK e \in walk.todo : /\ Within(place[f], e)
                                 /\ \A b \in walk.todo : Within(place[f], b) => b = e
      BY <2>5 DEF Ahead
    <3>2. \A s \in Dir : walk.counted[s][f] = 0 /\ walk.sized[s][f] = 0
      BY <2>5 DEF Ahead
    <3>3. CASE e # d
      <4>1. ~Within(place[f], d)
        BY <1>2, <3>1, <3>3
      <4>2. f \notin files
        BY <2>2, <4>1 DEF Within
      <4>3. e \in todo /\ \A b \in todo : Within(place[f], b) => b = e
        BY <2>4, <3>1, <3>3, <4>1 DEF todo, Within
      <4>4. \A s \in Dir : walk'.counted[s][f] = 0 /\ walk'.sized[s][f] = 0
        BY <1>5, <1>7, <2>1, <3>2, <4>2
      <4>5. Ahead(f)'
        BY <1>1, <1>5, <3>1, <4>2, <4>3, <4>4 DEF Ahead, Within, Inside
      <4> QED BY <4>5
    <3>4. CASE e = d /\ Inside(place[f], d)
      <4>1. PICK c \in Children(d) : Within(place[f], c)
        BY <2>1, <3>4, SomeChild
      <4>2. c \in dirs
        BY <2>1, <4>1, ChildrenAreBelow DEF Within, IInv, TreeOK
      <4>3. \A b \in Children(d) : Within(place[f], b) => b = c
        BY <2>1, <4>1, OneChild
      <4>4. c \in todo /\ \A b \in todo : Within(place[f], b) => b = c
        BY <3>1, <3>4, <4>1, <4>2, <4>3 DEF todo
      <4>5. Len(d) \in Nat
        BY NodesAreSequences
      <4>6. f \notin files
        BY <2>2, <3>4, <4>5 DEF Inside
      <4>7. \A s \in Dir : walk'.counted[s][f] = 0 /\ walk'.sized[s][f] = 0
        BY <1>5, <1>7, <2>1, <3>2, <4>6
      <4>8. Ahead(f)'
        BY <1>1, <1>5, <4>1, <4>4, <4>6, <4>7 DEF Ahead, Within, Inside
      <4> QED BY <4>8
    <3>5. CASE e = d /\ place[f] = d
      <4>1. \A b \in walk.todo \ {d} : ~Within(place[f], b)
        BY <3>1, <3>5
      <4>2. \A c \in Children(d) : ~Within(place[f], c)
        BY <3>5, ChildrenAreBelow
      <4>3. \A b \in todo : ~Within(place[f], b)
        BY <4>1, <4>2 DEF todo
      <4>4. f \in files
        BY <2>2, <3>5
      <4>5. \A s \in walk.subdirs : CountsFor(d, s) =>
              walk'.counted[s][f] = 1 /\ walk'.sized[s][f] = 0
        BY <1>5, <1>7, <2>1, <2>3, <3>2, <4>4
      <4>6. Behind(f)'
        BY <1>1, <1>5, <3>5, <4>3, <4>4, <4>5 DEF Behind, Within, Inside, CountsFor
      <4> QED BY <4>6
    <3> QED BY <3>1, <3>3, <3>4, <3>5 DEF Within
  <2>6. CASE Behind(f)
    <3>1. \A b \in walk.todo : ~Within(place[f], b)
      BY <2>6 DEF Behind
    <3>2. ~Within(place[f], d)
      BY <1>2, <3>1
    <3>3. \A b \in todo : ~Within(place[f], b)
      BY <2>4, <3>1, <3>2 DEF todo, Within
    <3>4. f \notin files
      BY <2>2, <3>2 DEF Within
    <3>5. \A s \in walk.subdirs : CountsFor(place[f], s) =>
            walk'.counted[s][f] = 1 /\ walk'.sized[s][f] = 1
      BY <1>2, <1>5, <1>7, <2>1, <2>3, <2>6, <3>4 DEF Behind
    <3>6. Behind(f)'
      BY <1>1, <1>5, <3>3, <3>4, <3>5 DEF Behind, Within, Inside, CountsFor
    <3> QED BY <3>6
  <2> QED BY <1>2, <2>5, <2>6 DEF IInv, StillOK
<1> QED BY <1>1, <1>2, <1>5, <1>8, <1>10, <1>11, WalkKeeps

\* A file is sized where it was counted, if it is still there.
LEMMA StatFileOK ==
  ASSUME IInv, NEW f \in File, StatFile(f)
  PROVE  IInv'
<1> DEFINE found == IF place[f] = walk.root THEN {f} ELSE {}
<1>1. UNCHANGED <<treeVars, sizes>> /\ UNCHANGED <<changes, dirs, place, still, been>>
  BY DEF StatFile, treeVars
<1>2. walk.doing = "walk" /\ f \in walk.files
  BY DEF StatFile
<1>3. walk' = [walk EXCEPT !.files = @ \ {f}, !.sized = Add(@, walk.root, found)]
  BY DEF StatFile
<1>4. found \subseteq {f} /\ (place[f] = walk.root => found = {f})
  OBVIOUS
<1> HIDE DEF found
<1>5. walk \in Walks
  BY WalkType DEF IInv
<1>6. /\ walk'.doing = "walk" /\ walk'.root = walk.root /\ walk'.files = walk.files \ {f}
      /\ walk'.todo = walk.todo /\ walk'.subdirs = walk.subdirs
      /\ walk'.counted = walk.counted /\ walk'.sized = Add(walk.sized, walk.root, found)
  BY <1>2, <1>3, <1>5 DEF Walks
<1>7. walk.counted \in Counts /\ walk.sized \in Counts
  BY <1>5 DEF Walks
<1>8. \A s \in Dir, g \in File :
        walk'.sized[s][g] = IF s \in walk.subdirs /\ CountsFor(walk.root, s) /\ g \in found
                              THEN walk.sized[s][g] + 1 ELSE walk.sized[s][g]
  BY <1>6, <1>7, AddOK
<1>9. walk' \in Walks
  <2>1. Add(walk.sized, walk.root, found) \in Counts
    BY <1>7, AddOK
  <2> QED BY <1>3, <1>5, <2>1 DEF Walks
<1>10. \A s \in Dir, g \in File : walk.counted[s][g] \in Nat /\ walk.sized[s][g] \in Nat
  BY <1>7 DEF Counts
<1>11. CountsOK'
  <2>1. ASSUME NEW s \in Dir, NEW g \in File
        PROVE  walk'.sized[s][g] + (IF s \in walk'.subdirs /\ CountsFor(walk'.root, s)
                                       /\ g \in walk'.files THEN 1 ELSE 0)
                 <= walk'.counted[s][g]
    <3>1. walk.sized[s][g] + (IF s \in walk.subdirs /\ CountsFor(walk.root, s)
                                 /\ g \in walk.files THEN 1 ELSE 0) <= walk.counted[s][g]
      BY DEF IInv, CountsOK
    <3>2. CASE g = f
      BY <1>2, <1>6, <1>8, <1>10, <3>1, <3>2
    <3>3. CASE g # f
      BY <1>4, <1>6, <1>8, <1>10, <3>1, <3>3
    <3> QED BY <3>2, <3>3
  <2>2. \A s \in Dir, g \in File :
          walk'.counted[s][g] > 0 => \E e \in Dir : <<g, e>> \in been' /\ CountsFor(e, s)
    BY <1>1, <1>6 DEF IInv, CountsOK
  <2>3. walk'.subdirs \subseteq Children(Root)
    BY <1>6 DEF IInv, CountsOK
  <2> QED BY <1>6, <2>1, <2>2, <2>3 DEF CountsOK, CountsFor
<1>12. StillOK'
  <2> SUFFICES ASSUME NEW g \in still, place[g] # Gone
               PROVE  Ahead(g)' \/ Behind(g)'
    BY <1>1, <1>2, <1>6 DEF IInv, StillOK, CountsFor
  <2>1. g \in File
    BY DEF IInv, TypeOK
  <2>2. \A s \in walk.subdirs : s \in Dir
    BY <1>5 DEF Walks
  <2>3. CASE Ahead(g)
    <3>1. g # f
      BY <1>2, <2>3 DEF Ahead
    <3>2. \A s \in Dir : walk'.counted[s][g] = 0 /\ walk'.sized[s][g] = 0
      BY <1>4, <1>6, <1>8, <2>1, <2>3, <3>1 DEF Ahead
    <3>3. Ahead(g)'
      BY <1>1, <1>6, <2>3, <3>2 DEF Ahead, Within, Inside
    <3> QED BY <3>3
  <2>4. CASE Behind(g)
    <3>1. ASSUME NEW s \in walk.subdirs, CountsFor(place[g], s)
          PROVE  walk'.counted[s][g] = 1 /\ walk'.sized[s][g] = IF g \in walk'.files THEN 0 ELSE 1
      <4>1. walk.counted[s][g] = 1 /\ walk.sized[s][g] = IF g \in walk.files THEN 0 ELSE 1
        BY <2>4, <3>1 DEF Behind
      <4>2. CASE g = f
        <5>1. walk.root = place[f] /\ found = {f}
          BY <1>2, <1>4, <2>4, <4>2 DEF Behind
        <5>2. CountsFor(walk.root, s) /\ g \in found /\ s \in Dir
          BY <2>2, <3>1, <4>2, <5>1
        <5>3. walk'.sized[s][g] = walk.sized[s][g] + 1
          BY <1>8, <2>1, <5>2
        <5>4. walk.sized[s][g] = 0
          BY <1>2, <4>1, <4>2
        <5> QED BY <1>6, <4>1, <4>2, <5>3, <5>4
      <4>3. CASE g # f
        BY <1>4, <1>6, <1>8, <2>1, <2>2, <4>1, <4>3
      <4> QED BY <4>2, <4>3
    <3>2. g \in walk'.files => walk'.root = place[g]
      BY <1>6, <2>4 DEF Behind
    <3>3. Behind(g)'
      BY <1>1, <1>6, <2>4, <3>1, <3>2 DEF Behind, Within, Inside, CountsFor
    <3> QED BY <3>3
  <2> QED BY <1>2, <2>3, <2>4 DEF IInv, StillOK
<1> QED BY <1>1, <1>2, <1>6, <1>9, <1>11, <1>12, WalkKeeps

\* At the end there is nothing ahead, so what stayed was counted and sized.
LEMMA FinishOK ==
  ASSUME IInv, Finish
  PROVE  IInv'
<1>1. UNCHANGED <<changes, dirs, place, still, been>> /\ walk' = NotWalking
  BY DEF Finish, treeVars
<1>2. walk.doing = "walk" /\ walk.files = {} /\ walk.todo = {}
  BY DEF Finish
<1>3. PICK sent \in SUBSET walk.subdirs :
        /\ \A s \in walk.subdirs : \E t \in sent : TagsOf[s] = TagsOf[t]
        /\ sizes' = [subdirs |-> sent, counted |-> walk.counted, sized |-> walk.sized]
  BY DEF Finish
<1>4. walk \in Walks
  BY WalkType DEF IInv
<1>5. /\ walk.subdirs \subseteq Dir /\ walk.subdirs \subseteq Children(Root)
      /\ walk.counted \in Counts /\ walk.sized \in Counts
  BY <1>4 DEF Walks, IInv, CountsOK
<1>6. sizes'.subdirs = sent /\ sizes'.counted = walk.counted /\ sizes'.sized = walk.sized
  BY <1>3
<1>7. TypeOK'
  <2>1. walk' \in [doing : {"nothing", "list", "walk"}, subdirs : SUBSET Dir,
                   todo : SUBSET (Dir \union {Root}), root : Dir \union {Root},
                   files : SUBSET File, counted : Counts, sized : Counts]
    BY <1>1, ZeroIsCounts DEF NotWalking
  <2>2. sizes' \in [subdirs : SUBSET Dir, counted : Counts, sized : Counts]
    BY <1>3, <1>5
  <2> QED BY <1>1, <2>1, <2>2 DEF IInv, TypeOK, Busy
<1>8. TreeOK'
  BY <1>1 DEF NotWalking, IInv, TreeOK, Busy
<1>9. CountsOK'
  BY <1>1, ZeroIsCounts DEF NotWalking, CountsOK
<1>10. StillOK'
  BY <1>1 DEF NotWalking, StillOK
<1>11. StillCountedOnce'
  <2> SUFFICES ASSUME NEW f \in still, NEW s \in Children(Root), place[f] # Gone,
                      Covers(s, place[f]), TagsOf[s] # NoMatch,
                      \A t \in Dir : TagsOf[t] = TagsOf[s] => t = s
               PROVE  s \in sent /\ walk.counted[s][f] = 1 /\ walk.sized[s][f] = 1
    BY <1>1, <1>6 DEF StillCountedOnce, Covers
  <2>1. f \in File /\ place[f] \in Dir
    BY DEF IInv, TypeOK
  <2>2. CountsFor(place[f], s)
    BY <2>1, CoversIsCountsFor
  <2>3. s \in walk.subdirs /\ Behind(f)
    BY <1>2, <2>2 DEF IInv, StillOK, Ahead
  <2>4. s \in sent
    BY <1>3, <1>5, <2>3
  <2> QED BY <1>2, <2>2, <2>3, <2>4 DEF Behind
<1>12. CountedWasThere'
  <2> SUFFICES ASSUME NEW s \in sent, NEW f \in File
               PROVE  /\ walk.sized[s][f] <= walk.counted[s][f]
                      /\ walk.counted[s][f] > 0 =>
                           \E d \in Dir : <<f, d>> \in been /\ Covers(s, d)
    BY <1>1, <1>6 DEF CountedWasThere, Covers
  <2>1. s \in Dir /\ s \in Children(Root)
    BY <1>5
  <2>2. walk.counted[s][f] \in Nat /\ walk.sized[s][f] \in Nat
    BY <1>5, <2>1 DEF Counts
  <2>3. walk.sized[s][f] <= walk.counted[s][f]
    BY <1>2, <2>1, <2>2 DEF IInv, CountsOK
  <2>4. ASSUME walk.counted[s][f] > 0
        PROVE  \E d \in Dir : <<f, d>> \in been /\ Covers(s, d)
    <3>1. PICK d \in Dir : <<f, d>> \in been /\ CountsFor(d, s)
      BY <2>1, <2>4 DEF IInv, CountsOK
    <3> QED BY <2>1, <3>1, CoversIsCountsFor
  <2> QED BY <2>3, <2>4
<1> QED BY <1>7, <1>8, <1>9, <1>10, <1>11, <1>12 DEF IInv

LEMMA NextOK == IInv /\ [Next]_vars => IInv'
<1> SUFFICES ASSUME IInv, [Next]_vars PROVE IInv'
  OBVIOUS
<1>1. CASE Environment
  BY <1>1, MoveOK, MakeDirOK, RemoveDirOK DEF Environment
<1>2. CASE Start
  BY <1>2, StartOK
<1>3. CASE ListSubdirs \/ Finish
  BY <1>3, ListSubdirsOK, FinishOK
<1>4. CASE \E d \in Dir \union {Root} : Visit(d)
  BY <1>4, VisitOK DEF Node
<1>5. CASE \E f \in File : StatFile(f)
  BY <1>5, StatFileOK
<1>6. CASE UNCHANGED vars
  <2>1. UNCHANGED <<changes, dirs, place, still, been, walk, sizes>>
    BY <1>6 DEF vars, treeVars
  <2>2. TypeOK' /\ TreeOK'
    BY <2>1 DEF IInv, TypeOK, TreeOK, Busy
  <2> QED BY <2>1, <2>2, EnvironmentKeeps DEF IInv
<1> QED BY <1>1, <1>2, <1>3, <1>4, <1>5, <1>6 DEF Next, Step

\* IInv holds in every reachable state.
THEOREM Invariance == Spec => []IInv
BY InitOK, NextOK, PTL DEF Spec

-----------------------------------------------------------------------------
(* The results.                                                            *)

\* The variables have their types.
THEOREM TypeCorrect == Spec => []TypeOK
<1>1. IInv => TypeOK
  BY DEF IInv
<1> QED BY <1>1, Invariance, PTL

\* In every tree, a file that nobody touches in the course of a check is counted and sized
\* exactly once for its subdirectory, whatever is made, moved and removed around it between
\* the two walks and during the second (subdir_sizes.py:61-104).
THEOREM StillCountedOnceHolds == Spec => []StillCountedOnce
<1>1. IInv => StillCountedOnce
  BY DEF IInv
<1> QED BY <1>1, Invariance, PTL

\* What is counted for a subdirectory was in there, and no bytes are sent of what was not
\* counted (subdir_sizes.py:76-104).
THEOREM CountedWasThereHolds == Spec => []CountedWasThere
<1>1. IInv => CountedWasThere
  BY DEF IInv
<1> QED BY <1>1, Invariance, PTL
=============================================================================
