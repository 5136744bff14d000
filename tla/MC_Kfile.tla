------------------------------- MODULE MC_Kfile -------------------------------
(* Model-checking instance of Kfile. *)
EXTENDS Kfile

CONSTANTS a, b,                 \* names
          MaxTree               \* bound on nodes, mounts and open files

Short == {<<a>>, <<b>>, <<a, b>>}
MCPaths == Short \cup {<< >>}
MCMountPoints == {<< >>, <<b>>}
MCTargets == {{}, {<<b>>}}

Entries(P) == [name : P, size : {0, 1}]
Names == {a, b}
MCArchives == UNION {[1 .. k -> Entries({<<n>> : n \in Names} \cup (Names \X Names))] : k \in 0 .. 3}
              \cup [1 .. 2 -> Entries(Short \cup (Names \X Names \X Names))]

\* Nothing, one file, and an archive that lists a directory before what is in it.
MCInitrds == {<< >>} \cup {<<[name |-> p, size |-> 1]>> : p \in Short}
             \cup {<<[name |-> <<a>>, size |-> 0], [name |-> <<a, b, a>>, size |-> 1]>>}

Symmetry == Permutations(Files)

\* The nodes in the order in which a walk over the mounts, the open files and the
\* directories first meets them.
RECURSIVE Tree(_)
Tree(n) == IF n \notin Live THEN << >> ELSE <<n>> \o FlattenSeq([i \in DOMAIN node[n].child |-> Tree(node[n].child[i])])
Held(v) == IF v = NULL THEN << >> ELSE Tree(vnode[v].node_data)
Order == FlattenSeq([i \in DOMAIN list |-> Tree(vfs[list[i]].root_node)]
                    \o [i \in 1 .. Cardinality(Files) |-> LET f == SetToSeq(Files)[i]
                                                          IN IF file[f] = NULL THEN << >> ELSE Held(file[f].private)]
                    \o [i \in 1 .. Cardinality(Dirs) |-> LET d == SetToSeq(Dirs)[i]
                                                         IN IF dir[d] = NULL THEN << >> ELSE Held(dir[d].dir_vnode)])

\* The place of x in a list, 0 if it is freed.
Nth(X, x) == IF x = NULL THEN NULL ELSE SelectInSeq(X, LAMBDA y : y = x)
Gone(v) == vnode[v].node_data # NULL /\ vnode[v].node_data \notin Live

\* States that differ only in which free object was given out are one: nodes and
\* mounts are numbered by their order, and a vnode is its contents, since only
\* root vnodes have several holders and their references are counted.  Lost
\* references only keep a vnode from being freed that nothing reaches, and the
\* position in a file that was removed and the names read from a directory
\* influence nothing else; of a state after a fault only the fault counts.
ViewVnode(v, O) == [v EXCEPT !.node_data = Nth(O, @), !.root_vfs = Nth(list, @), !.vfs_here = Nth(list, @),
                             !.refcount = @ - v.lost, !.lost = 0]
ViewFile(f, O) == IF Gone(f.private) THEN <<vnode[f.private].root_vfs \in ToSet(list)>>
                  ELSE [f EXCEPT !.private = ViewVnode(vnode[@], O)]
ViewDir(d, O) == <<IF Gone(d.dir_vnode) THEN vnode[d.dir_vnode].root_vfs \in ToSet(list)
                   ELSE ViewVnode(vnode[d.dir_vnode], O), d.dir_buf = NULL>>
ViewBy(O) ==
    <<[i \in DOMAIN O |-> [node[O[i]] EXCEPT !.child = [k \in DOMAIN @ |-> Nth(O, @[k])]]],
      [i \in DOMAIN list |-> <<Nth(O, vfs[list[i]].root_node), ViewVnode(vnode[vfs[list[i]].root_vnode], O)>>],
      [f \in Files |-> IF file[f] = NULL THEN NULL ELSE ViewFile(file[f], O)],
      [d \in Dirs |-> IF dir[d] = NULL THEN NULL ELSE ViewDir(dir[d], O)],
      booted>>
StateView == IF fault # NULL THEN <<fault>> ELSE ViewBy(Order)

Opens == Cardinality({f \in Files : file[f] # NULL}) + Cardinality({d \in Dirs : dir[d] # NULL})
Mounts == IF Len(list) = 1 /\ vnode[vfs[list[1]].root_vnode].path = << >> THEN 0 ELSE 1

\* Either several open files of one node, on one file system mounted at "/"...
OneFile == /\ Cardinality(Live) <= 2 /\ Mounts = 0
           /\ vnode[vfs[list[1]].root_vnode].node_data # NULL
           /\ \A d \in Dirs : dir[d] = NULL
           /\ \A f \in Files : LET v == file[f].private IN
                 file[f] = NULL \/ Gone(v) \/ (vnode[v].path = <<a>> /\ vnode[v].vtype = "file")

\* ...or more nodes and mounts, and files that are not moved.
ManyNodes == /\ Cardinality(Live) + Mounts + Opens <= MaxTree
             /\ \A f \in Files : \/ file[f] = NULL \/ Gone(file[f].private)
                                 \/ file[f].offset = 0 /\ ~file[f].append

Small == Len(list) <= 2 /\ (OneFile \/ ManyNodes)

MCSpec == Init /\ [][Next /\ Small']_vars
=============================================================================
