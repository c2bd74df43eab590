------------------------------ MODULE Grouping ------------------------------
(***************************************************************************)
(* How the notes on the board are gathered into named groups               *)
(* (contracts/grouping.ts, workers/room/groups.ts).  Clusters are the      *)
(* connected parts of the graph "these two notes lie close together"; a    *)
(* group is a name somebody gave to a cluster.  After notes have moved,    *)
(* reorganizeGroups rewrites the groups so that each stays inside one      *)
(* cluster.                                                                *)
(*                                                                         *)
(* A list of notes is a sequence in listing order, `near` maps a note to   *)
(* the notes close to it, a group is [id, name, notes] with its notes in   *)
(* the order the code stores them.  `fresh` are unused identifiers: the    *)
(* code takes random ones.                                                 *)
(*                                                                         *)
(* Loops over a list are functions of the number of elements already seen, *)
(* so that MoveOperationsProofs can argue about them.                      *)
(***************************************************************************)
EXTENDS Naturals, Sequences, FiniteSets, SequencesExt

\* The notes of a group or a cluster, without their order.
NotesOf(seq) == ToSet(seq)

\* The elements of the list that are in the set, in their order.
Those(list, set) ==
    LET those[k \in 0..Len(list)] ==
            IF k = 0 THEN << >>
            ELSE IF list[k] \in set THEN Append(those[k - 1], list[k]) ELSE those[k - 1]
    IN those[Len(list)]

\* One turn of the depth-first walk: the note on top of the stack is taken, and
\* the notes near it that nobody has seen yet are put there.
Visit(list, near, walk) ==
    LET note == Last(walk.stack)
        next == Those(list, near[note] \ walk.visited)
    IN IF walk.stack = << >> THEN walk
       ELSE [stack   |-> Front(walk.stack) \o next,
             visited |-> walk.visited \cup NotesOf(next),
             cluster |-> Append(walk.cluster, note)]

\* The cluster of one note, in the order of the walk.
Cluster(list, near, first) ==
    LET walk[k \in 0..Len(list)] ==
            IF k = 0 THEN [stack |-> <<first>>, visited |-> {first}, cluster |-> << >>]
            ELSE Visit(list, near, walk[k - 1])
    IN walk[Len(list)].cluster

AddCluster(list, near, clusters, note) ==
    IF \E i \in DOMAIN clusters : note \in NotesOf(clusters[i]) THEN clusters
    ELSE Append(clusters, Cluster(list, near, note))

\* All clusters, single notes included, in the order of their first notes.
Clusters(list, near) ==
    LET clusters[k \in 0..Len(list)] ==
            IF k = 0 THEN << >> ELSE AddCluster(list, near, clusters[k - 1], list[k])
    IN clusters[Len(list)]

\* The position of the first group that names the note, 0 when none does.
PreviousGroup(groups, note) ==
    LET named == {g \in DOMAIN groups : note \in NotesOf(groups[g].notes)}
    IN IF named = {} THEN 0 ELSE CHOOSE g \in named : \A h \in named : g <= h

AddOrigin(groups, seen, note) ==
    LET g == PreviousGroup(groups, note)
    IN IF g = 0 \/ g \in ToSet(seen) THEN seen ELSE Append(seen, g)

\* The groups (by position) the notes of a cluster came from, in order of appearance.
PresentGroups(groups, cluster) ==
    LET seen[k \in 0..Len(cluster)] ==
            IF k = 0 THEN << >> ELSE AddOrigin(groups, seen[k - 1], cluster[k])
    IN seen[Len(cluster)]

\* How many notes of the cluster came from the group.
CameFrom(groups, cluster, g) ==
    Cardinality({n \in NotesOf(cluster) : PreviousGroup(groups, n) = g})

\* The group most notes of the cluster came from, the earliest at a tie.
Dominant(groups, cluster) ==
    LET present == PresentGroups(groups, cluster)
        best == SelectInSeq(present, LAMBDA g : \A h \in ToSet(present) :
                    CameFrom(groups, cluster, g) >= CameFrom(groups, cluster, h))
    IN present[best]

\* What is left of a group in a cluster: its own notes and, when it dominates
\* the cluster, the notes that belonged nowhere.
Kept(groups, cluster, g) ==
    Those(cluster, {n \in NotesOf(cluster) : \/ PreviousGroup(groups, n) = g
                                             \/ /\ PreviousGroup(groups, n) = 0
                                                /\ g = Dominant(groups, cluster)})

IdsOf(list) == {list[i].id : i \in DOMAIN list}

\* A new identifier, 0 when the supply is used up.
NewId(fresh, used) ==
    IF fresh \subseteq used THEN 0 ELSE CHOOSE i \in fresh \ used : \A k \in fresh \ used : i <= k

\* Of the parts a group was torn into the first keeps the identifier; a part of
\* fewer than two notes dissolves.
AddPart(groups, fresh, cluster, result, g) ==
    LET kept == Kept(groups, cluster, g)
        used == IdsOf(result)
    IN IF Len(kept) < 2 THEN result
       ELSE Append(result, [groups[g] EXCEPT !.notes = kept,
                                             !.id = IF @ \in used THEN NewId(fresh, used) ELSE @])

\* The parts of one cluster.
AddParts(groups, fresh, result, cluster) ==
    LET present == PresentGroups(groups, cluster)
        parts[k \in 0..Len(present)] ==
            IF k = 0 THEN result
            ELSE AddPart(groups, fresh, cluster, parts[k - 1], present[k])
    IN parts[Len(present)]

\* reorganizeGroups
Reorganized(clusters, groups, fresh) ==
    LET result[k \in 0..Len(clusters)] ==
            IF k = 0 THEN << >> ELSE AddParts(groups, fresh, result[k - 1], clusters[k])
    IN result[Len(clusters)]

\* calculateRenderGroups: the stored group a drawn frame stands for, 0 when the
\* frame is a nameless one.  Of several, the one with most notes here, then the
\* one with the smallest identifier.
Frame(groups, cluster) ==
    LET Here(g) == Cardinality(NotesOf(groups[g].notes) \cap NotesOf(cluster))
        active == {g \in DOMAIN groups : Here(g) >= 2}
        largest == {g \in active : \A h \in active : Here(g) >= Here(h)}
    IN IF active = {} THEN 0
       ELSE CHOOSE g \in largest : \A h \in largest : groups[g].id <= groups[h].id

\* The name a frame without a stored group is drawn with.
Unnamed == "unnamed"

AddFrame(groups, fresh, result, cluster) ==
    LET g == Frame(groups, cluster)
        used == IdsOf(result)
    IN IF Len(cluster) < 2 THEN result
       ELSE Append(result,
                [id    |-> IF g # 0 /\ groups[g].id \notin used THEN groups[g].id
                           ELSE NewId(fresh, used),
                 name  |-> IF g # 0 THEN groups[g].name ELSE Unnamed,
                 notes |-> cluster])

\* finalizeGrouping: every drawn frame of two notes or more becomes a group.
Finalized(clusters, groups, fresh) ==
    LET result[k \in 0..Len(clusters)] ==
            IF k = 0 THEN << >> ELSE AddFrame(groups, fresh, result[k - 1], clusters[k])
    IN result[Len(clusters)]

\* saveGroups: the stored table after the new groups are written over it.  Rows
\* keep their place, new ones come last.
Saved(stored, groups) ==
    LET stays == Those(stored, {g \in ToSet(stored) : g.id \in IdsOf(groups)})
        With(id) == CHOOSE g \in ToSet(groups) : g.id = id
    IN [i \in DOMAIN stays |-> With(stays[i].id)]
       \o Those(groups, {g \in ToSet(groups) : g.id \notin IdsOf(stored)})

\* The identifiers whose row a rewrite of the table inserts, changes or deletes:
\* what the history triggers count.
Touched(before, after) ==
    LET Rows(groups) == ToSet(groups)
    IN {g.id : g \in (Rows(before) \ Rows(after)) \cup (Rows(after) \ Rows(before))}
=============================================================================
