--------------------------------- MODULE Vfs ---------------------------------
(***************************************************************************)
(* Mounts and path lookup (fs/vfs/vfs.c), as operators on the state S of   *)
(* the file system (see Ramfs); S.list is vfs_list_head and what follows,  *)
(* S.next the static variable of strtok (util/memory.c).                   *)
(***************************************************************************)
EXTENDS Ramfs

MountPath(S, m) == S.vnode[S.vfs[m].root_vnode].path

\* vfs_resolve_mount: the mount with the longest path, the first of equal ones;
\* "/" is always found if there is a mount.
vfs_resolve_mount(S, path) ==
    LET fits == {i \in DOMAIN S.list : IsPrefix(MountPath(S, S.list[i]), path)}
        len(i) == Len(MountPath(S, S.list[i]))
        best == {i \in fits : \A j \in fits : len(j) < len(i) \/ (len(j) = len(i) /\ i <= j)}
    IN IF fits # {} THEN S.list[CHOOSE i \in best : TRUE]
       ELSE IF path = << >> /\ S.list # << >> THEN Head(S.list)
       ELSE NULL

\* Where a lookup begins: at the root of the mount, or of what is mounted there.
Start(S, m) == LET root == S.vfs[m].root_vnode
                   here == S.vnode[root].vfs_here
               IN IF here = NULL THEN root ELSE S.vfs[here].root_vnode

\* (Mutant: an error path keeps its reference.)
HoldOn(S, v, e) == Fail(S, e)

\* An error after which v is given back.
GiveUp(S, v, e) == Fail(vnode_unref(S, v), e)

\* strtok keeps the rest of the path it cuts up in a static variable, S.next;
\* << >> if nothing is left.  The first call of a walk sets it, so that its
\* value between two walks does not matter.
strtok(S) == [S EXCEPT !.next = Tail(@)]

\* vfs_lookup_internal.  A link is looked up without following links in its
\* own path, so that the depth stays below MAX_SYMLINK_DEPTH; the vnode it
\* leads to is referenced once too often.  That lookup cuts up the target with
\* the same strtok: when it is done nothing is left for the walk around it,
\* which ends at the target, unless the target is a mount itself and strtok
\* was not called.  The vnodes that ramfs_lookup makes have no vfs_here.  Found
\* goes on with what ramfs_lookup found, Followed with where that leads.
RECURSIVE Walk(_, _, _), Found(_, _, _), Followed(_, _, _)
RECURSIVE WalkFrom(_, _, _, _), vfs_lookup_internal(_, _, _)
vfs_follow_symlink(S, v) ==
    LET n == S.vnode[v].node_data
    IN IF S.vnode[v].vtype # "link" THEN Ok(S, v)
       ELSE IF S.node[n].target = {} THEN Fail(S, "-ENOENT")
       ELSE vfs_lookup_internal(S, CHOOSE p \in S.node[n].target : TRUE, FALSE)

Instead(S, v, w) ==
    IF v = w THEN S ELSE [vnode_ref(vnode_unref(S, v), w) EXCEPT !.vnode[w].lost = @ + 1]
Followed(t, next, current) ==
    IF t.ret # "EOK" THEN GiveUp(vnode_unref(t.s, next), current, t.ret)
    ELSE IF t.s.fault # NULL THEN t
    ELSE Walk(vnode_unref(Instead(t.s, next, t.out), current), t.out, TRUE)
Found(r, current, follow) ==
    IF r.ret # "EOK" THEN GiveUp(r.s, current, r.ret)
    ELSE IF r.s.fault # NULL THEN r
    ELSE IF follow THEN Followed(vfs_follow_symlink(r.s, r.out), r.out, current)
    ELSE Walk(vnode_unref(r.s, current), r.out, FALSE)
Walk(S, current, follow) ==
    IF S.next = << >> THEN Ok(S, current)
    ELSE IF S.vnode[current].vtype # "dir" THEN GiveUp(S, current, "-ENOTDIR")
    ELSE Found(ramfs_lookup(strtok(S), current, Head(S.next)), current, follow)

\* The path behind that of mount m.
Remaining(S, m, path) == SubSeq(path, Len(MountPath(S, m)) + 1, Len(path))

WalkFrom(S, m, path, follow) ==
    IF m = NULL THEN Fail(S, "-ENOENT")
    ELSE IF Remaining(S, m, path) = << >> THEN Ok(vnode_ref(S, Start(S, m)), Start(S, m))
    ELSE Walk([vnode_ref(S, Start(S, m)) EXCEPT !.next = Remaining(S, m, path)], Start(S, m), follow)
vfs_lookup_internal(S, path, follow) == WalkFrom(S, vfs_resolve_mount(S, path), path, follow)
vfs_lookup(S, path) == vfs_lookup_internal(S, path, TRUE)

\* The vnode of the directory; the name in it is Last(path).
vfs_lookup_parent(S, path) == vfs_lookup(S, Front(path))

\* An operation of the parent, and vnode_unref.
InParent(S, path, Op(_, _)) ==
    Then(vfs_lookup_parent(S, path), LAMBDA T, v : [Op(T, v) EXCEPT !.s = vnode_unref(@, v)])

vfs_mkdir(S, path) == InParent(S, path, LAMBDA T, v : ramfs_mkdir(T, v, Last(path)))
vfs_rmdir(S, path) == InParent(S, path, LAMBDA T, v : ramfs_rmdir(T, v, Last(path)))
vfs_remove(S, path) == InParent(S, path, LAMBDA T, v : ramfs_remove(T, v, Last(path)))
vfs_symlink(S, target, path) ==
    InParent(S, path, LAMBDA T, v : ramfs_symlink(T, v, Last(path), target))

\* vfs_create gives the vnode of the new file back at once.
vfs_create(S, path) ==
    Then(InParent(S, path, LAMBDA T, v : ramfs_create(T, v, Last(path))),
         LAMBDA T, v : Ok(vnode_unref(T, v), NULL))

\* vfs_open, up to the kfile_t.  No caller sets V_CREATE.
vfs_open(S, path) ==
    Then(vfs_lookup(S, path), LAMBDA T, v : Ok(ramfs_open(T, v), v))

\* vfs_close: ramfs_close refuses a vnode without node, which is unreferenced
\* all the same.
vfs_close(S, v) == vnode_unref(ramfs_close(S, v), v)

\* vfs_stat and vfs_setstat: attributes are left out.
vfs_stat(S, path) ==
    Then(vfs_lookup(S, path), LAMBDA T, v : Ok(vnode_unref(T, v), NULL))

\* vfs_readlink logs the type of a vnode that is no link after giving it back.
vfs_readlink(S, path) ==
    Then(vfs_lookup_internal(S, path, FALSE), LAMBDA T, v :
         IF T.vnode[v].vtype = "link" THEN Ok(vnode_unref(T, v), NULL)
         ELSE GiveUp(IF T.vnode[v].refcount = 1 THEN Fault(T, "uaf") ELSE T, v, "-EINVAL"))

-----------------------------------------------------------------------------
\* A vfs_t that a vnode still points to is not given out again.
FreeVfs(S) == {m \in VfsIds : /\ S.vfs[m] = NULL
                              /\ \A v \in VnodeIds : S.vnode[v] # NULL => S.vnode[v].root_vfs # m}

CanMount(S, device) == /\ FreeVfs(S) # {}
                       /\ \E v \in VnodeIds : S.vnode[v] = NULL
                       /\ device = NULL => FreeNodes(S) # {}

\* driver->mount: a vfs_t with a root vnode, on the file system whose root
\* node is device, or on a new one.
ramfs_fstype_mount(S, device, path) ==
    LET m == Min(FreeVfs(S))
        n == IF device = NULL THEN Min(FreeNodes(S)) ELSE device
        U == IF device = NULL THEN [S EXCEPT !.node[n] = ramfs_create_node("dir", NULL)] ELSE S
    IN Then(vnode_create(U, m, path, "dir", n), LAMBDA T, v :
            Ok([T EXCEPT !.vfs[m] = [root_vnode |-> v, root_node |-> n]], m))

\* Gives a mount back that failed; the nodes of a new file system stay behind.
Undo(S, m) == [vnode_unref(S, S.vfs[m].root_vnode) EXCEPT !.vfs[m] = NULL]

vfs_append(S, m) == [S EXCEPT !.list = Append(@, m)]

\* vfs_mount: the mount point has to be a directory, unless the mount is the
\* first or is "/".  Of a mount point that is no mount itself the vnode is
\* freed, vfs_here with it.
MountOn(p, first, m) ==
    IF p.s.fault # NULL THEN p
    ELSE IF p.ret # "EOK" THEN IF first THEN Ok(vfs_append(p.s, m), m) ELSE Fail(Undo(p.s, m), NULL)
    ELSE IF p.s.vnode[p.out].vtype # "dir" THEN Fail(Undo(vnode_unref(p.s, p.out), m), NULL)
    ELSE Ok(vfs_append(vnode_unref([p.s EXCEPT !.vnode[p.out].vfs_here = m], p.out), m), m)

vfs_mount(S, device, path) ==
    Then(ramfs_fstype_mount(S, device, path), LAMBDA T, m :
         IF path = << >> THEN Ok(vfs_append(T, m), m)
         ELSE MountOn(vfs_lookup(T, path), S.list = << >>, m))

\* vfs_unmount looks the mount point up while it holds vfs_list_lock, which
\* vfs_resolve_mount waits for; only "/" can be unmounted.
vfs_unmount(S, path) ==
    LET at == {i \in DOMAIN S.list : MountPath(S, S.list[i]) = path}
        m == S.list[Min(at)]
    IN IF at = {} THEN Fail(S, "-ENOENT")
       ELSE IF path # << >> THEN Fail(Fault(S, "hang"), NULL)
       ELSE Ok([vnode_unref(S, S.vfs[m].root_vnode) EXCEPT !.vfs[m] = NULL,
                                                           !.list = RemoveAt(@, Min(at))], NULL)
=============================================================================
