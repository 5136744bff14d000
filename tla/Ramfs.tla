-------------------------------- MODULE Ramfs --------------------------------
(***************************************************************************)
(* The memory file system (fs/ramfs/ramfs.c) as operators on the state S   *)
(* of the file system: S.node is the heap of ramfs_node_ts, S.vnode that   *)
(* of vnode_ts, S.vfs that of vfs_ts (NULL where nothing is allocated).    *)
(*                                                                         *)
(* A path is the sequence of its names, "/" is << >>.  Of what a file      *)
(* holds only the size is kept, in units; modes and owners are left out.   *)
(* Errors keep their sign: ramfs returns positive ones.  S.fault says how  *)
(* a call went wrong: "uaf" if it used memory that was freed, "overrun" if *)
(* it copied from behind a file, "hang" if it waits for itself, "bound" if *)
(* the model has no more objects.  What a call does after that is not      *)
(* modelled.                                                               *)
(***************************************************************************)
EXTENDS Integers, Sequences, SequencesExt, FiniteSets, FiniteSetsExt

CONSTANTS MaxNodes, MaxVnodes, MaxMounts,   \* bounds: nodes, vnodes and mounts
          NULL

NodeIds == 1 .. MaxNodes
VnodeIds == 1 .. MaxVnodes
VfsIds == 1 .. MaxMounts

Fault(S, kind) == IF S.fault = NULL THEN [S EXCEPT !.fault = kind] ELSE S

\* What a call returns: the new state, an error or EOK, and a vnode.
Ok(S, v) == [s |-> S, ret |-> "EOK", out |-> v]
Fail(S, e) == [s |-> S, ret |-> e, out |-> NULL]
Done(r) == r.ret # "EOK" \/ r.s.fault # NULL
\* Op goes on from a call that succeeded.
Then(r, Op(_, _)) == IF Done(r) THEN r ELSE Op(r.s, r.out)

-----------------------------------------------------------------------------
vnode_ref(S, v) == [S EXCEPT !.vnode[v].refcount = @ + 1]

vnode_unref(S, v) ==
    [S EXCEPT !.vnode[v] = IF @.refcount = 1 THEN NULL ELSE [@ EXCEPT !.refcount = @ - 1]]

\* lost: ghost, references that the code takes and nobody gives back.
vnode_create(S, vfs, path, type, n) ==
    LET free == {v \in VnodeIds : S.vnode[v] = NULL}
        vnode == [path |-> path, vtype |-> type, root_vfs |-> vfs, node_data |-> n,
                  vfs_here |-> NULL, refcount |-> 1, lost |-> 0]
    IN IF free = {} THEN Ok(Fault(S, "bound"), 1)
       ELSE Ok([S EXCEPT !.vnode[Min(free)] = vnode], Min(free))

-----------------------------------------------------------------------------
ramfs_create_node(type, name) ==
    [type |-> type, name |-> name, child |-> << >>, size |-> 0, target |-> {}]

\* The child of node n with this name, NULL if there is none.
ChildNamed(S, n, name) ==
    LET i == SelectInSeq(S.node[n].child, LAMBDA c : S.node[c].name = name)
    IN IF i = 0 THEN NULL ELSE S.node[n].child[i]

RECURSIVE ramfs_find_node(_, _, _)
ramfs_find_node(S, n, path) ==
    IF n = NULL \/ path = << >> THEN n
    ELSE ramfs_find_node(S, ChildNamed(S, n, Head(path)), Tail(path))

\* (Mutant: the mount point is not taken off the path.)
WholePath(S, v) == S.vnode[v].path

\* The path of a vnode within its file system.
RelPath(S, v) ==
    LET at == S.vnode[S.vfs[S.vnode[v].root_vfs].root_vnode].path
    IN SubSeq(S.vnode[v].path, Len(at) + 1, Len(S.vnode[v].path))

\* The node of a vnode; a vnode that was closed has none, and its path is
\* looked for again.
NodeOf(S, v) ==
    IF S.vnode[v].node_data # NULL THEN S.vnode[v].node_data
    ELSE ramfs_find_node(S, S.vfs[S.vnode[v].root_vfs].root_node, RelPath(S, v))

\* Every operation on a directory reads the vfs_t, and then the node n of the
\* vnode; Op goes on in a directory.
IsDir(S, n) == n # NULL /\ S.node[n].type = "dir"
Stale(S, v, n) == S.vfs[S.vnode[v].root_vfs] = NULL \/ (n # NULL /\ S.node[n] = NULL)
InNode(S, v, n, Op(_)) ==
    IF Stale(S, v, n) THEN Fail(Fault(S, "uaf"), "uaf")
    ELSE IF IsDir(S, n) THEN Op(n) ELSE Fail(S, "ENOTDIR")
InDir(S, v, Op(_)) == InNode(S, v, NodeOf(S, v), Op)

\* A new node is not one that a vnode still points to.
FreeNodes(S) == {n \in NodeIds : /\ S.node[n] = NULL
                                 /\ \A v \in VnodeIds : S.vnode[v] # NULL => S.vnode[v].node_data # n}

\* ramfs_append_child, with the new node.
AddChild(S, n, node) ==
    LET new == Min(FreeNodes(S))
    IN IF FreeNodes(S) = {} THEN Fault(S, "bound")
       ELSE [S EXCEPT !.node = [@ EXCEPT ![new] = node, ![n].child = Append(@, new)]]

\* The child leaves the list of the siblings, and its memory is freed.
Unlink(S, n, c) ==
    [S EXCEPT !.node = [@ EXCEPT ![c] = NULL, ![n].child = SelectSeq(@, LAMBDA k : k # c)]]

\* ramfs_lookup makes a new vnode for the child c.
Reach(S, v, name, c) ==
    IF c = NULL THEN Fail(S, "ENOENT")
    ELSE vnode_create(S, S.vnode[v].root_vfs, Append(S.vnode[v].path, name), S.node[c].type, c)
ramfs_lookup(S, v, name) ==
    IF ~Stale(S, v, NULL) /\ NodeOf(S, v) = NULL THEN Fail(S, "ENOENT")
    ELSE InDir(S, v, LAMBDA n : Reach(S, v, name, ChildNamed(S, n, name)))

\* (Mutant: a name that the directory has is taken again.)
MakeTwice(S, n, node) == Ok(AddChild(S, n, node), NULL)

\* What ramfs_mkdir, ramfs_create and ramfs_symlink have in common.
Make(S, n, node) == IF ChildNamed(S, n, node.name) # NULL THEN Fail(S, "EEXIST")
                    ELSE Ok(AddChild(S, n, node), NULL)

ramfs_mkdir(S, v, name) == InDir(S, v, LAMBDA n : Make(S, n, ramfs_create_node("dir", name)))

\* A relative target is the empty set: it is resolved nowhere.
ramfs_symlink(S, v, name, target) ==
    InDir(S, v, LAMBDA n :
          Make(S, n, [ramfs_create_node("link", name) EXCEPT !.target = target, !.size = 1]))

\* ramfs_create also makes a vnode for the file.
ramfs_create(S, v, name) ==
    InDir(S, v, LAMBDA n : Then(Make(S, n, ramfs_create_node("file", name)),
                                LAMBDA T, w : Reach(T, v, name, ChildNamed(T, n, name))))

\* rmdir wants an empty directory, remove anything else.
RmdirChild(S, n, c) ==
    IF c = NULL THEN Fail(S, "ENOENT")
    ELSE IF ~IsDir(S, c) THEN Fail(S, "ENOTDIR")
    ELSE IF S.node[c].child # << >> THEN Fail(S, "ENOTEMPTY")
    ELSE Ok(Unlink(S, n, c), NULL)
ramfs_rmdir(S, v, name) == InDir(S, v, LAMBDA n : RmdirChild(S, n, ChildNamed(S, n, name)))

RemoveChild(S, n, c) ==
    IF c = NULL THEN Fail(S, "ENOENT")
    ELSE IF IsDir(S, c) THEN Fail(S, "EISDIR")
    ELSE Ok(Unlink(S, n, c), NULL)
ramfs_remove(S, v, name) == InDir(S, v, LAMBDA n : RemoveChild(S, n, ChildNamed(S, n, name)))

\* ramfs_readdir: the names in node n; no directory of the model has 256.
ramfs_readdir(S, n) == [i \in DOMAIN S.node[n].child |-> S.node[S.node[n].child[i]].name]

\* ramfs_open: the size goes to the kfile_t, and the vnode gets its node back.
\* The path of a vnode that was closed is "/" of its file system: the node
\* is always found.
ramfs_open(S, v) == [S EXCEPT !.vnode[v].node_data = NodeOf(S, v)]
OpenSize(S, n) == IF IsDir(S, n) THEN 0 ELSE S.node[n].size

ramfs_close(S, v) == [S EXCEPT !.vnode[v].node_data = NULL]

\* (Mutant: the copy may go on behind the end of the file.)
ReadUnclipped(size, bytes, offset) == IF bytes <= size /\ offset >= size THEN NULL ELSE Min({bytes, size})

\* ramfs_read: how many units are copied, NULL for -EINVAL.  The position is
\* compared with the size only if no more was asked for than the file has;
\* a negative count is a huge one.
ramfs_read(size, bytes, offset) ==
    LET want == Min({bytes, size})
    IN IF bytes <= size /\ offset >= size THEN NULL
       ELSE IF want + offset > size THEN size - offset ELSE want

\* ramfs_write: the file grows; what is written over a link is no path.
ramfs_write(S, n, bytes, offset) ==
    [S EXCEPT !.node[n] = [@ EXCEPT !.size = Max({@, bytes + offset}),
                                    !.target = IF bytes > 0 /\ offset < S.node[n].size THEN {} ELSE @]]
=============================================================================
