-------------------------------- MODULE Kfile --------------------------------
(***************************************************************************)
(* Files as the kernel uses them: open files (fs/vfs/kfile.c), directories *)
(* opened as descriptors (the last part of sched/fd.c), the calls of vfs.c *)
(* that take a path, and the unpacking of the initial RAM disk             *)
(* (fs/initrd/cpio.c, as kmain does it).  All of it runs before the        *)
(* scheduler starts, so that every call is one step; what interleaves is   *)
(* the use of several open files.                                          *)
(***************************************************************************)
EXTENDS Vfs

CONSTANTS Files, Dirs,          \* kfile_ts and open directories
          Paths,                \* the paths the callers use, "/" among them
          Targets,              \* what links contain: {path}, or {} if it is no absolute path
          MountPoints,          \* the paths at which file systems are mounted
          ReadSizes, WriteSizes, Offsets,
          MaxSize,              \* bound on sizes and positions
          Archives, Initrds     \* initial RAM disks; the ones whose unpacking is followed

VARIABLES node, vnode, vfs, list, fault,    \* see Ramfs and Vfs
          file, dir,                        \* open files and directories
          booted                            \* the initial RAM disk is unpacked

vars == <<node, vnode, vfs, list, fault, file, dir, booted>>

Now == [node |-> node, vnode |-> vnode, vfs |-> vfs, list |-> list, fault |-> fault,
        next |-> << >>]

-----------------------------------------------------------------------------
Holders(v, F, D, S) == Cardinality({f \in Files : F[f] # NULL /\ F[f].private = v})
                       + Cardinality({d \in Dirs : D[d] # NULL /\ D[d].dir_vnode = v})
                       + Cardinality({m \in VfsIds : S.vfs[m] # NULL /\ S.vfs[m].root_vnode = v})

RECURSIVE Below(_, _)
Below(S, N) == LET M == N \cup UNION {ToSet(S.node[n].child) : n \in N}
               IN IF M = N THEN N ELSE Below(S, M)

\* Forgets what nothing points to: vnodes whose references were all lost, and
\* the nodes of file systems that are gone.  The code keeps their memory.
Collect(S, F, D) ==
    LET held == {v \in VnodeIds : S.vnode[v] # NULL /\ Holders(v, F, D, S) > 0}
        leaked == {v \in VnodeIds : S.vnode[v] # NULL /\ S.vnode[v].refcount = S.vnode[v].lost} \ held
        kept == ({S.vnode[v].node_data : v \in held}
                 \cup {S.vfs[m].root_node : m \in {i \in VfsIds : S.vfs[i] # NULL}}) \cap
                {n \in NodeIds : S.node[n] # NULL}
        N == Below(S, kept)
    IN [S EXCEPT !.vnode = [v \in VnodeIds |-> IF v \in leaked THEN NULL ELSE @[v]],
                 !.node = [n \in NodeIds |-> IF n \in N THEN @[n] ELSE NULL]]

Set(S) == /\ node' = S.node /\ vnode' = S.vnode /\ vfs' = S.vfs
          /\ list' = S.list /\ fault' = S.fault

\* A step to state S; a call that changes nothing is none.  After a fault
\* nothing else is known of the state.
Become(S, F, D) ==
    /\ S.fault # "bound"
    /\ [S EXCEPT !.next = << >>] # Now \/ F # file \/ D # dir
    /\ IF S.fault = NULL THEN Set(Collect(S, F, D)) /\ file' = F /\ dir' = D
       ELSE Set([Now EXCEPT !.fault = S.fault]) /\ UNCHANGED <<file, dir>>
    /\ UNCHANGED booted

-----------------------------------------------------------------------------
\* Units that kwrite writes: at the size that the kfile_t remembers if the
\* file is for appending.  vfs_write returns ramfs's errors as a count, so
\* that a vnode without node is written to "successfully".
kwrite(S, f, bytes) ==
    LET n == S.vnode[f.private].node_data
        offset == IF f.append THEN f.size ELSE f.offset
    IN IF n = NULL THEN S
       ELSE IF S.node[n] = NULL THEN Fault(S, "uaf")
       ELSE ramfs_write(S, n, bytes, offset)

Advance(f, bytes) == [f EXCEPT !.size = Max({@, f.offset + bytes}), !.offset = @ + bytes]

\* sought: ghost, the file was once positioned behind its end.
kfile(S, v) ==
    [private |-> v, size |-> OpenSize(S, NodeOf(S, v)), offset |-> 0, append |-> FALSE, sought |-> FALSE]

\* A vnode that cpio.c looks up and does not give back.
Lose(S, v) == Collect([S EXCEPT !.vnode[v].lost = @ + 1], [f \in Files |-> NULL], [d \in Dirs |-> NULL])

\* One component of a name in the archive: prefix p, the last one if it is the
\* name of the file.
KeepFound(l) == IF l.ret = "EOK" THEN Then(l, LAMBDA S, v : Ok(Lose(S, v), NULL))
                ELSE Fail(l.s, "ENOENT")
WriteOut(S, p, size) ==
    Then(vfs_open(S, p), LAMBDA T, v : Ok(vfs_close(kwrite(T, kfile(T, v), size), v), NULL)).s
Created(c, p, size) ==
    IF c.ret = "EOK" THEN Then(c, LAMBDA S, v : KeepFound(vfs_lookup(WriteOut(S, p, size), p)))
    ELSE Ok(c.s, NULL)
Place(here, p, last, size) ==
    IF here.ret = "EOK" \/ here.s.fault # NULL THEN KeepFound(here)
    ELSE IF last THEN Created(vfs_create(here.s, p), p, size)
    ELSE KeepFound(vfs_lookup(vfs_mkdir(here.s, p).s, p))
ExtractPart(r, p, last, size) ==
    Then(r, LAMBDA S, v : Place(vfs_lookup(S, p), p, last, size))

\* (Mutant: the names of the archive are taken as a whole.)
ExtractFlat(r, e) == ExtractPart(r, e.name, TRUE, e.size)

ExtractEntry(r, e) ==
    FoldLeft(LAMBDA q, k : ExtractPart(q, SubSeq(e.name, 1, k), k = Len(e.name), e.size),
             r, [k \in DOMAIN e.name |-> k])

\* cpio_archive_extract to "/".  The entries' types are not looked at.
cpio_archive_extract(S, archive) == FoldLeft(ExtractEntry, Ok(S, NULL), archive)

-----------------------------------------------------------------------------
\* kopen: vfs_create says EEXIST of a file that is there, kopen waits for
\* -EEXIST; O_CREAT opens new files only.
kopen(S, path, creat) ==
    Then(IF creat THEN vfs_create(S, path) ELSE Ok(S, NULL), LAMBDA T, v : vfs_open(T, path))

\* fd_open looks first whether a directory is opened as a file.
Probe(S, path) ==
    Then(vfs_lookup(S, path), LAMBDA T, v :
         [Ok(vnode_unref(T, v), NULL) EXCEPT !.ret = IF T.vnode[v].vtype = "dir" THEN "EISDIR" ELSE "EOK"])

Probed(p, path, creat) ==
    IF p.ret = "EISDIR" \/ p.s.fault # NULL THEN p ELSE kopen(p.s, path, creat)
fd_open_file(S, path, creat) ==
    Probed(Probe(S, path), path, creat)

fd_open_dir(S, path) ==
    Then(vfs_lookup(S, path), LAMBDA T, v :
         IF T.vnode[v].vtype = "dir" THEN Ok(T, v) ELSE Fail(vnode_unref(T, v), "ENOTDIR"))

\* At boot: ramfs_init, then vfs_mount of a new file system at "/".
Mounted == vfs_mount([node |-> [n \in NodeIds |-> NULL], vnode |-> [v \in VnodeIds |-> NULL],
                      vfs |-> [m \in VfsIds |-> NULL], list |-> << >>, fault |-> NULL,
                      next |-> << >>],
                     NULL, << >>).s

Holds(S) == /\ node = S.node /\ vnode = S.vnode /\ vfs = S.vfs
            /\ list = S.list /\ fault = S.fault
Init == /\ Holds(Mounted)
        /\ file = [f \in Files |-> NULL]
        /\ dir = [d \in Dirs |-> NULL]
        /\ booted = FALSE

\* extract_initrd; the kernel halts if it fails.
Extracted(r) == /\ r.s.fault = NULL
                /\ Set([r.s EXCEPT !.fault = IF r.ret = "EOK" THEN NULL ELSE "halt"])
Extract(archive) == /\ ~booted /\ fault = NULL
                    /\ Extracted(cpio_archive_extract(Now, archive))
                    /\ booted' = TRUE
                    /\ UNCHANGED <<file, dir>>

Mkdir(p) == Become(vfs_mkdir(Now, p).s, file, dir)
Rmdir(p) == Become(vfs_rmdir(Now, p).s, file, dir)
RemoveFile(p) == Become(vfs_remove(Now, p).s, file, dir)
Symlink(target, p) == Become(vfs_symlink(Now, target, p).s, file, dir)
Stat(p) == Become(vfs_stat(Now, p).s, file, dir)
Readlink(p) == Become(vfs_readlink(Now, p).s, file, dir)
Mount(device, p) == CanMount(Now, device) /\ Become(vfs_mount(Now, device, p).s, file, dir)
Unmount(p) == Become(vfs_unmount(Now, p).s, file, dir)

Opened(r, f) ==
    Become(r.s, IF Done(r) THEN file ELSE [file EXCEPT ![f] = kfile(r.s, r.out)], dir)

\* Opening with O_APPEND is opening and then SetAppend.
Open(f, p, creat) ==
    /\ file[f] = NULL
    /\ Opened(kopen(Now, p, creat), f) \/ Opened(fd_open_file(Now, p, creat), f)

OpenedDir(r, d) ==
    Become(r.s, file, IF Done(r) THEN dir ELSE
                      [dir EXCEPT ![d] = [dir_vnode |-> r.out, dir_buf |-> NULL, dir_index |-> 0]])
OpenDir(d, p) == dir[d] = NULL /\ OpenedDir(fd_open_dir(Now, p), d)

\* kread, and what it returns: the position moves by what was copied.
Read(f, bytes) ==
    LET n == vnode[file[f].private].node_data
        count == ramfs_read(node[n].size, bytes, file[f].offset)
    IN /\ file[f] # NULL
       /\ n # NULL
       /\ IF node[n] = NULL THEN Become(Fault(Now, "uaf"), file, dir)
          ELSE IF count = NULL THEN Become(Now, file, dir)
          ELSE IF count < 0 THEN Become(Fault(Now, "overrun"), file, dir)
          ELSE Become(Now, [file EXCEPT ![f].offset = @ + count], dir)

\* What is left out: writing to and positioning in a directory, which kopen
\* opens like a file.
Regular(f) == file[f] # NULL /\ vnode[file[f].private].vtype # "dir"

Write(f, bytes) ==
    /\ Regular(f)
    /\ Max({file[f].offset, file[f].size}) + bytes <= MaxSize
    /\ Become(kwrite(Now, file[f], bytes), [file EXCEPT ![f] = Advance(@, bytes)], dir)

\* kseek checks nothing; a position before the beginning is left out.
Seek(f, offset) ==
    LET n == vnode[file[f].private].node_data
    IN /\ Regular(f)
       /\ offset \in 0 .. MaxSize
       /\ Become(Now, [file EXCEPT ![f].offset = offset,
                                  ![f].sought = @ \/ n = NULL \/ node[n] = NULL \/ offset > node[n].size], dir)
SeekSet(f, offset) == Seek(f, offset)
SeekCur(f, offset) == Regular(f) /\ Seek(f, file[f].offset + offset)
SeekEnd(f, offset) == Regular(f) /\ Seek(f, file[f].size + offset)

\* kfcntl can set O_APPEND, not clear it.
SetAppend(f) == Regular(f) /\ ~file[f].append /\ Become(Now, [file EXCEPT ![f].append = TRUE], dir)

Close(f) ==
    /\ file[f] # NULL
    /\ Become(vfs_close(Now, file[f].private), [file EXCEPT ![f] = NULL], dir)

\* fd_readdir lists the directory at the first call and hands the list out.
HandOut(d, names) ==
    Become(Now, file, [dir EXCEPT ![d].dir_buf = names, ![d].dir_index = Min({@ + 1, Len(names)})])
FirstRead(d, v, n) == IF Stale(Now, v, n) THEN Become(Fault(Now, "uaf"), file, dir)
                      ELSE HandOut(d, ramfs_readdir(Now, n))
ReadDir(d) ==
    /\ dir[d] # NULL
    /\ IF dir[d].dir_buf = NULL THEN FirstRead(d, dir[d].dir_vnode, NodeOf(Now, dir[d].dir_vnode))
       ELSE HandOut(d, dir[d].dir_buf)

CloseDir(d) ==
    /\ dir[d] # NULL
    /\ Become(vnode_unref(Now, dir[d].dir_vnode), file, [dir EXCEPT ![d] = NULL])

OnPath == \E p \in Paths :
    \/ Stat(p)
    \/ Readlink(p)
    \/ Unmount(p)
    \/ /\ p \in MountPoints
       /\ \E device \in {NULL} \cup {vfs[m].root_node : m \in ToSet(list)} : Mount(device, p)
    \/ /\ p # << >>
       /\ Mkdir(p) \/ Rmdir(p) \/ RemoveFile(p) \/ \E t \in Targets : Symlink(t, p)

OnFile == \E f \in Files :
    \/ \E p \in Paths, creat \in BOOLEAN : (creat => p # << >>) /\ Open(f, p, creat)
    \/ \E bytes \in ReadSizes : Read(f, bytes)
    \/ \E bytes \in WriteSizes : Write(f, bytes)
    \/ \E o \in Offsets : SeekSet(f, o) \/ SeekCur(f, o) \/ SeekEnd(f, o)
    \/ SetAppend(f)
    \/ Close(f)

OnDir == \E d \in Dirs : ReadDir(d) \/ CloseDir(d) \/ \E p \in Paths : OpenDir(d, p)

Next == (\E a \in Initrds : Extract(a)) \/ (booted /\ fault = NULL /\ (OnPath \/ OnFile \/ OnDir))

Spec == Init /\ [][Next]_vars

-----------------------------------------------------------------------------
Live == {n \in NodeIds : node[n] # NULL}

\* The lists that mkdir, create, symlink, rmdir and remove keep form trees:
\* no two children of a directory have the same name, a node is in one
\* directory and once, only directories have children, and no removed node is
\* still linked (ramfs_node_t.child and .sibling).
NodesFormTrees ==
    \A n \in Live :
        LET kids == node[n].child
        IN /\ kids # << >> => node[n].type = "dir"
           /\ ToSet(kids) \subseteq Live
           /\ \A i, j \in DOMAIN kids : node[kids[i]].name = node[kids[j]].name => i = j
           /\ \A m \in Live \ {n} : ToSet(node[m].child) \cap ToSet(kids) = {}

\* A vnode has one reference for each open file, open directory and mount
\* that holds it, and the ones that lookups through links lose: whatever path
\* a call takes, errors included, it gives back what it took, and nothing
\* that is held is freed (vnode_ref and vnode_unref in vfs.c, fd.c, kfile.c).
VnodeRefsExact ==
    \A v \in VnodeIds :
        IF vnode[v] = NULL THEN Holders(v, file, dir, Now) = 0
        ELSE vnode[v].refcount = Holders(v, file, dir, Now) + vnode[v].lost

\* What ramfs falls back on when the node of a vnode was cleared by a close is
\* right: the path of a vnode leads, in the vnode's own file system, to the
\* node it was made for, wherever that is mounted and through whatever links
\* it was reached, unless that node was removed.
RightPath(S, v, n, m) == (m # NULL /\ n # NULL /\ S.node[n] # NULL)
                         => ramfs_find_node(S, m.root_node, RelPath(S, v)) = n
PathRight(S, v) == RightPath(S, v, S.vnode[v].node_data, S.vfs[S.vnode[v].root_vfs])

\* The node that a path names, from the lists of children alone, and whether
\* it has a link in front of its last name.
RootOf(S, m) == S.vfs[S.vnode[Start(S, m)].root_vfs].root_node
NodeAt(S, m, path) == IF m = NULL THEN NULL ELSE ramfs_find_node(S, RootOf(S, m), Remaining(S, m, path))
Named(S, path) == NodeAt(S, vfs_resolve_mount(S, path), path)
IsLink(S, n) == n # NULL /\ S.node[n].type = "link"
Through(S, path) == \E k \in 0 .. Len(path) - 1 : IsLink(S, Named(S, SubSeq(path, 1, k)))
Meant(S, n) == IF IsLink(S, n)
               THEN IF S.node[n].target = {} THEN NULL ELSE Named(S, CHOOSE q \in S.node[n].target : TRUE)
               ELSE n

\* vfs_lookup finds a node exactly if the path names one, and that one: a last
\* name that is a link stands for what the link names.  Nothing is said of
\* paths that go on behind a link: vfs_lookup forgets what is left of them
\* and ends at the target (see Walk).
LookupRight(n, r) == IF n = NULL THEN r.ret # "EOK"
                     ELSE r.ret = "EOK" /\ NodeOf(r.s, r.out) = n /\ PathRight(r.s, r.out)
Looked(S, p, r) == r.s.fault = NULL => LookupRight(Meant(S, Named(S, p)), r)
PathsResolve == fault = NULL => /\ \A v \in VnodeIds : vnode[v] # NULL => PathRight(Now, v)
                                /\ \A p \in Paths : ~Through(Now, p) => Looked(Now, p, vfs_lookup(Now, p))

\* A file that is not for appending and was never positioned behind its end
\* stays within it, whatever other open files do to it: ramfs_read cannot
\* compute a negative count.
FileInBounds ==
    \A f \in Files : (file[f] # NULL /\ ~file[f].append /\ ~file[f].sought) =>
        LET n == vnode[file[f].private].node_data
        IN (n # NULL /\ n \in Live /\ node[n].type # "dir") =>
           file[f].offset <= node[n].size /\ file[f].size <= node[n].size

\* Unpacking an archive in which no name is a directory of another gives every
\* name a file with the contents of its first entry and nothing else;
\* cpio_archive_extract then does not stop half way.
Unambiguous(names) == \A p, q \in names : ~IsStrictPrefix(p, q)
FaithfulTo(a, names, r, root) ==
    LET at == [p \in names |-> ramfs_find_node(r.s, root, p)]
        first(p) == a[SelectInSeq(a, LAMBDA e : e.name = p)]
    IN /\ r.ret = "EOK"
       /\ \A p \in names : /\ at[p] # NULL
                           /\ r.s.node[at[p]].type = "file"
                           /\ r.s.node[at[p]].size = first(p).size
       /\ \A n \in Below(r.s, {root}) : r.s.node[n].type = "file" => \E p \in names : n = at[p]
ExtractFaithful ==
    ~booted => \A a \in Archives :
        LET names == {a[i].name : i \in DOMAIN a}
        IN Unambiguous(names)
           => FaithfulTo(a, names, cpio_archive_extract(Now, a), vfs[Head(list)].root_node)
=============================================================================
