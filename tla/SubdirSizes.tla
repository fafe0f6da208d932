----------------------------- MODULE SubdirSizes -----------------------------
(***************************************************************************)
(* checks.d/subdir_sizes.py.  A check walks a tree twice: the first walk   *)
(* stops at the root and collects the subdirectories, the second counts    *)
(* the files below each of them, a stat at a time.  Directories and files  *)
(* come, go and move all the while.  Files that do not match the pattern   *)
(* play no part and are left out.  A directory is its path from the root,  *)
(* a sequence of names.                                                    *)
(***************************************************************************)
EXTENDS Naturals, Sequences

CONSTANTS
  Dir,         \* the directories there may be below the root
  TagsOf,      \* the tags of a subdirectory, NoMatch if the regex does not match its name
  NoMatch,
  Recurse,     \* the option
  File,
  Gone,        \* the place of a file that is not there
  MaxChanges   \* bound on the changes of the environment

Root == <<>>
Inside(d, s) == Len(s) < Len(d) /\ SubSeq(d, 1, Len(s)) = s
Children(d) == {e \in Dir : Inside(e, d) /\ Len(e) = Len(d) + 1}

ASSUME TreeAssumption == /\ \A d \in Dir : d \in Seq(STRING) /\ d # Root
                         /\ \A d \in Dir : \A n \in 1..Len(d) : SubSeq(d, 1, n) \in Dir
ASSUME RestAssumption == Recurse \in BOOLEAN /\ Gone \notin Dir \union {Root} /\ MaxChanges \in Nat

VARIABLES
  changes,
  dirs,    \* the directories that exist
  place,   \* the directory of each file
  walk,    \* the locals of the check
  sizes,   \* what the last check sent: for which subdirectories, and how many times each
           \* file is in system.sub_dir.files and in system.sub_dir.bytes of each
  still,   \* the files that were in one place all the time of the check
  been     \* where each file was at some time of it

treeVars == <<changes, dirs, place, still, been>>
vars == <<treeVars, walk, sizes>>

Zero == [s \in Dir |-> [f \in File |-> 0]]
NotWalking == [doing |-> "nothing", subdirs |-> {}, todo |-> {}, root |-> Root, files |-> {},
               counted |-> Zero, sized |-> Zero]

Init ==
  /\ changes = 0
  /\ dirs = Dir
  /\ place \in [File -> Dir]
  /\ walk = NotWalking
  /\ sizes = [subdirs |-> {}, counted |-> Zero, sized |-> Zero]
  /\ still = {} /\ been = {}

-----------------------------------------------------------------------------
(* The file system.                                                        *)

Move(f) ==
  /\ changes < MaxChanges /\ changes' = changes + 1
  /\ \E d \in (dirs \union {Gone}) \ {place[f]} :
       /\ place' = [place EXCEPT ![f] = d]
       /\ been' = been \union {<<f, d>>}
  /\ still' = still \ {f}
  /\ UNCHANGED <<dirs, walk, sizes>>

MakeDir(d) ==
  /\ changes < MaxChanges /\ changes' = changes + 1
  /\ d \notin dirs /\ (Len(d) > 1 => SubSeq(d, 1, Len(d) - 1) \in dirs)
  /\ dirs' = dirs \union {d}
  /\ UNCHANGED <<place, still, been, walk, sizes>>

RemoveDir(d) ==
  /\ changes < MaxChanges /\ changes' = changes + 1
  /\ d \in dirs /\ Children(d) \intersect dirs = {} /\ (\A f \in File : place[f] # d)
  /\ dirs' = dirs \ {d}
  /\ UNCHANGED <<place, still, been, walk, sizes>>

-----------------------------------------------------------------------------
(* The check.                                                              *)

Busy == walk.doing # "nothing"

Start ==
  /\ ~Busy
  /\ walk' = [walk EXCEPT !.doing = "list"]
  /\ still' = File /\ been' = {<<f, place[f]>> : f \in File}
  /\ UNCHANGED <<changes, dirs, place, sizes>>

\* The first walk.
ListSubdirs ==
  /\ walk.doing = "list"
  /\ walk' = [walk EXCEPT !.doing = "walk", !.todo = {Root},
                          !.subdirs = {s \in Children(Root) \intersect dirs : TagsOf[s] # NoMatch}]
  /\ UNCHANGED <<treeVars, sizes>>

\* Variants: without the trailing part of the condition, and without its first part.
CountsForEvery(d, s) == d = s \/ Recurse
CountsForBelow(d, s) == Recurse /\ Inside(d, s)

\* Whether what is in directory d counts for subdirectory s.
CountsFor(d, s) == d = s \/ (Recurse /\ Inside(d, s))

Add(counts, d, fs) ==
  [s \in Dir |-> [f \in File |->
     counts[s][f] + IF s \in walk.subdirs /\ CountsFor(d, s) /\ f \in fs THEN 1 ELSE 0]]

\* walk goes down first: of the directories it has to visit, the deepest are next.
Deepest(d) == d \in walk.todo /\ \A e \in walk.todo : Len(e) <= Len(d)

\* The second walk: it lists a directory, which may be gone by now.
Visit(d) ==
  /\ walk.doing = "walk" /\ walk.files = {} /\ Deepest(d)
  /\ LET files == {f \in File : place[f] = d}
     IN walk' = [walk EXCEPT !.root = d, !.files = files,
                             !.todo = (@ \ {d}) \union (Children(d) \intersect dirs),
                             !.counted = Add(@, d, files)]
  /\ UNCHANGED <<treeVars, sizes>>

\* stat, or a warning when the file is gone.
StatFile(f) ==
  /\ walk.doing = "walk" /\ f \in walk.files
  /\ walk' = [walk EXCEPT !.files = @ \ {f},
                          !.sized = Add(@, walk.root, IF place[f] = walk.root THEN {f} ELSE {})]
  /\ UNCHANGED <<treeVars, sizes>>

\* A variant: what was counted stays for the next check.
FinishKeeps ==
  /\ walk.doing = "walk" /\ walk.files = {} /\ walk.todo = {}
  /\ sizes' = [subdirs |-> walk.subdirs, counted |-> walk.counted, sized |-> walk.sized]
  /\ walk' = [walk EXCEPT !.doing = "nothing"]
  /\ UNCHANGED treeVars

\* A gauge each; of several subdirectories with the same tags, the last one's stay.
Finish ==
  /\ walk.doing = "walk" /\ walk.files = {} /\ walk.todo = {}
  /\ \E sent \in SUBSET walk.subdirs :
       /\ \A s \in walk.subdirs : \E t \in sent : TagsOf[s] = TagsOf[t]
       /\ \A s, t \in sent : TagsOf[s] = TagsOf[t] => s = t
       /\ sizes' = [subdirs |-> sent, counted |-> walk.counted, sized |-> walk.sized]
  /\ walk' = NotWalking
  /\ UNCHANGED treeVars

Step == ListSubdirs \/ (\E d \in Dir \union {Root} : Visit(d)) \/ (\E f \in File : StatFile(f))
        \/ Finish
Environment == (\E f \in File : Move(f)) \/ (\E d \in Dir : MakeDir(d) \/ RemoveDir(d))

Next == Environment \/ Start \/ Step

Spec == Init /\ [][Next]_vars

-----------------------------------------------------------------------------
\* Types of the variables.
Counts == [Dir -> [File -> Nat]]
TypeOK ==
  /\ changes \in Nat
  /\ dirs \subseteq Dir /\ place \in [File -> Dir \union {Gone}]
  /\ walk \in [doing : {"nothing", "list", "walk"}, subdirs : SUBSET Dir,
               todo : SUBSET (Dir \union {Root}), root : Dir \union {Root}, files : SUBSET File,
               counted : Counts, sized : Counts]
  /\ ~Busy => walk = NotWalking
  /\ sizes \in [subdirs : SUBSET Dir, counted : Counts, sized : Counts]
  /\ still \subseteq File /\ been \subseteq File \X (Dir \union {Gone})

\* What a subdirectory's gauges are about: its own files, or everything below it.
Covers(s, d) == d = s \/ (Recurse /\ Len(d) > 1 /\ d[1] = s[1])

\* A file that nobody touches during a check is counted and sized exactly once, for the
\* subdirectory it is in, whatever happens to the rest of the tree between the two walks
\* and in the course of the second (subdir_sizes.py:61-104); unless another subdirectory
\* has the same tags.
StillCountedOnce ==
  ~Busy => \A f \in still, s \in Children(Root) :
             /\ place[f] # Gone /\ Covers(s, place[f]) /\ TagsOf[s] # NoMatch
             /\ \A t \in Dir : TagsOf[t] = TagsOf[s] => t = s
             => s \in sizes.subdirs /\ sizes.counted[s][f] = 1 /\ sizes.sized[s][f] = 1

\* A file is counted for a subdirectory only if it was in there at some time of the check,
\* and its bytes only if it was counted.
CountedWasThere ==
  ~Busy => \A s \in sizes.subdirs, f \in File :
             /\ sizes.sized[s][f] <= sizes.counted[s][f]
             /\ sizes.counted[s][f] > 0 => \E d \in Dir : <<f, d>> \in been /\ Covers(s, d)

\* Of the tree: what a directory or a file is in exists.
TreeOK ==
  /\ \A d \in dirs, e \in Dir : Inside(d, e) => e \in dirs
  /\ \A f \in File : place[f] \in dirs \union {Gone}
  /\ Busy => \A f \in File : <<f, place[f]>> \in been

\* Of the counts: a file was where it was counted, and it is sized after it was counted.
CountsOK ==
  /\ walk.doing = "list" => walk = [NotWalking EXCEPT !.doing = "list"]
  /\ walk.subdirs \subseteq Children(Root)
  /\ \A s \in Dir, f \in File :
       /\ walk.sized[s][f] + (IF s \in walk.subdirs /\ CountsFor(walk.root, s) /\ f \in walk.files
                               THEN 1 ELSE 0) <= walk.counted[s][f]
       /\ walk.counted[s][f] > 0 => \E d \in Dir : <<f, d>> \in been /\ CountsFor(d, s)

\* The second walk comes to the directory of a file on one way, or it has been there.
Within(d, e) == d = e \/ Inside(d, e)

Ahead(f) ==
  /\ f \notin walk.files
  /\ \E d \in walk.todo : /\ Within(place[f], d)
                          /\ \A e \in walk.todo : Within(place[f], e) => e = d
  /\ \A s \in Dir : walk.counted[s][f] = 0 /\ walk.sized[s][f] = 0

Behind(f) ==
  /\ \A e \in walk.todo : ~Within(place[f], e)
  /\ f \in walk.files => walk.root = place[f]
  /\ \A s \in walk.subdirs : CountsFor(place[f], s) =>
       walk.counted[s][f] = 1 /\ walk.sized[s][f] = IF f \in walk.files THEN 0 ELSE 1

StillOK ==
  walk.doing = "walk" => \A f \in still : place[f] # Gone =>
    /\ \A s \in Children(Root) : CountsFor(place[f], s) /\ TagsOf[s] # NoMatch => s \in walk.subdirs
    /\ Ahead(f) \/ Behind(f)

\* The inductive invariant.
IInv == TypeOK /\ TreeOK /\ CountsOK /\ StillOK /\ StillCountedOnce /\ CountedWasThere
=============================================================================
