-------------------------------- MODULE Mounts --------------------------------
(***************************************************************************)
(* The tree of vnodes and mounts and the paths through it (vfs.c, with the *)
(* directories of tmpfs.c and the fixed ones of ramfs.c and devfs.c).      *)
(* Every system call is one step, with interrupts off; processes meet in   *)
(* the tree, and each has a working directory of its own in it.            *)
(***************************************************************************)
EXTENDS Integers, FiniteSets, SequencesExt

CONSTANTS
  Users,       \* the threads that make system calls
  PathNames,   \* bound: the names users give
  Known,       \* bound: names of vfs_init that users pass, "dev" or "ramfs"
  PathLength,  \* bound: components of a path
  MaxNodes,    \* bound: vnodes there is memory for
  MaxMounts,   \* bound: mounts there is memory for
  MaxEntries,  \* TMPFS_MAX_ENTRIES
  Filesystems, \* what users mount
  Over         \* where: on an "empty" directory, a "full" one, a mounted "root"

MountsAssumption ==
  /\ PathNames \subseteq STRING \ {".", ".."} /\ Known \subseteq {"dev", "ramfs"}
  /\ PathLength \in Nat /\ MaxNodes \in Nat /\ MaxMounts \in Nat
  /\ MaxEntries \in Nat
  /\ Filesystems \subseteq {"tmpfs", "ramfs", "devfs"}
  /\ Over \subseteq {"empty", "full", "root"}

VARIABLES
  vn,   \* the vnodes, in the order they were allocated
  mt,   \* the mounts: root vnode and mountpoint (0: none)
  cwd   \* of every thread
mountVars == <<vn, mt, cwd>>

(* A vnode: its filesystem and type, parent, the mount it belongs to, the    *)
(* mount that covers it (0: none), and the entries of a directory.           *)
Vnode(fs, type, parent, mount, mounted, entries) ==
  [fs |-> fs, type |-> type, parent |-> parent, mount |-> mount,
   mounted |-> mounted, entries |-> entries]
NoEntries == [n \in {} |-> 0]

(* vfs_init: tmpfs is the root, with ramfs on /ramfs and devfs on /dev.      *)
Root == 1
DevRoot == 5
Uart == 6
Fb == 7
Devices == [uart |-> Uart, fb |-> Fb]
MountsInit ==
  /\ vn = << Vnode("tmpfs", "dir", 1, 1, 0, [ramfs |-> 2, dev |-> 4]),
             Vnode("tmpfs", "dir", 1, 1, 2, NoEntries),
             Vnode("ramfs", "dir", 3, 2, 0, NoEntries),
             Vnode("tmpfs", "dir", 1, 1, 3, NoEntries),
             Vnode("devfs", "dir", 5, 3, 0, Devices),
             Vnode("devfs", "file", 5, 3, 0, NoEntries),
             Vnode("devfs", "file", 5, 3, 0, NoEntries) >>
  /\ mt = << [root |-> 1, point |-> 0], [root |-> 3, point |-> 2],
             [root |-> 5, point |-> 4] >>
  /\ cwd = [t \in Users |-> Root]

-----------------------------------------------------------------------------
(* follow_mount.  A chain has at most every mount in it; if it is longer the *)
(* loop of the code does not end, and the value is 0.                        *)
Follow(v) ==
  LET from[s \in (0 .. Len(mt)) \X DOMAIN vn] ==
        LET mount == vn[s[2]].mounted
        IN  IF mount = 0 THEN s[2]
            ELSE IF s[1] = 0 THEN 0
            ELSE from[<<s[1] - 1, mt[mount].root>>]
  IN  from[<<Len(mt), v>>]

(* parent_of: from the root of a mount to the parent of the mountpoint.      *)
(* Faulty variant: mounts are not crossed.                                   *)
ParentInside(v) == vn[v].parent
ParentOf(v) ==
  LET m == mt[vn[v].mount]
  IN  IF v # m.root THEN vn[v].parent
      ELSE IF m.point = 0 THEN v
      ELSE vn[m.point].parent

(* One component of a path from a place, and all of them: the loop of        *)
(* resolve_path, which enters what is mounted on the vnode it finds.         *)
(* Faulty variant: it does not.                                              *)
EnterBare(v) == v
Enter(v) == Follow(v)
At(v) == [at |-> v, err |-> "ok"]
Lookup(dir, name) == vn[dir].entries[name]
Step(place, name) ==
  LET v == place.at
  IN  IF place.err # "ok" \/ name = "." THEN place
      ELSE IF name = ".." THEN At(ParentOf(v))
      ELSE IF vn[v].type # "dir" THEN [place EXCEPT !.err = "ENOTDIR"]
      ELSE IF name \notin DOMAIN vn[v].entries THEN [place EXCEPT !.err = "ENOENT"]
      ELSE At(Enter(Lookup(v, name)))
Walk(v, names) ==
  LET to[n \in 0 .. Len(names)] ==
        IF n = 0 THEN At(Follow(v)) ELSE Step(to[n - 1], names[n])
  IN  to[Len(names)]

(* A path is absolute or starts at the working directory.                    *)
Components == PathNames \cup Known \cup {".."}
Paths == [absolute : BOOLEAN, names : BoundedSeq(Components, PathLength)]
Start(t, path) == IF path.absolute THEN Root ELSE cwd[t]
Resolve(t, path) == Walk(Start(t, path), path.names)

(* resolve_parent_path: the directory the last component is to be made in.   *)
ResolveParent(t, path) ==
  IF path.names = <<>> THEN [at |-> 0, err |-> "EINVAL"]
  ELSE LET dir == Walk(Start(t, path), Front(path.names))
       IN  IF dir.err = "ok" /\ Last(path.names) \in {".", ".."}
           THEN [dir EXCEPT !.err = "EEXIST"] ELSE dir

-----------------------------------------------------------------------------
(* tmpfs_add_child; ramfs and devfs are read-only.                           *)
AddChild(dir, name, type) ==
  /\ vn[dir].fs = "tmpfs" /\ vn[dir].type = "dir"
  /\ name \notin DOMAIN vn[dir].entries
  /\ Cardinality(DOMAIN vn[dir].entries) < MaxEntries /\ Len(vn) < MaxNodes
  /\ vn' = Append([vn EXCEPT ![dir].entries =
                     [n \in DOMAIN @ \cup {name} |->
                        IF n = name THEN Len(vn) + 1 ELSE @[n]]],
                  Vnode("tmpfs", type, dir, vn[dir].mount, 0, NoEntries))
  /\ UNCHANGED <<mt, cwd>>

(* vfs_open with O_CREAT, and vfs_mkdir, of a path that leads to nothing.    *)
Make(t, path, type) ==
  LET dir == ResolveParent(t, path)
  IN  /\ Resolve(t, path).err = "ENOENT" /\ dir.err = "ok"
      /\ AddChild(dir.at, Last(path.names), type)
OpenCreate(t, path) == Make(t, path, "file")
Mkdir(t, path) == Make(t, path, "dir")

(* Where the bounds of a run let users mount.                                *)
Situation(v) ==
  IF v = mt[vn[v].mount].root THEN "root"
  ELSE IF vn[v].entries = NoEntries THEN "empty" ELSE "full"

(* setup_mount: tmpfs and ramfs make a root, devfs has its three vnodes once *)
(* and initialises them again.                                               *)
Mounted(fs, m) ==
  IF fs = "devfs"
  THEN [vn EXCEPT ![DevRoot] = Vnode("devfs", "dir", DevRoot, m, 0, Devices),
                  ![Uart] = Vnode("devfs", "file", DevRoot, m, 0, NoEntries),
                  ![Fb] = Vnode("devfs", "file", DevRoot, m, 0, NoEntries)]
  ELSE Append(vn, Vnode(fs, "dir", Len(vn) + 1, m, 0, NoEntries))

(* vfs_mount.                                                                *)
Mount(t, path, fs) ==
  LET point == Resolve(t, path)
      m == Len(mt) + 1
      root == IF fs = "devfs" THEN DevRoot ELSE Len(vn) + 1
  IN  /\ point.err = "ok" /\ vn[point.at].type = "dir"
      /\ vn[point.at].mounted = 0
      /\ Situation(point.at) \in Over
      /\ Len(mt) < MaxMounts /\ (fs = "devfs" \/ Len(vn) < MaxNodes)
      /\ vn' = [Mounted(fs, m) EXCEPT ![point.at].mounted = m]
      /\ mt' = Append(mt, [root |-> root, point |-> point.at])
      /\ UNCHANGED cwd

Chdir(t, path) ==
  LET place == Resolve(t, path)
  IN  /\ place.err = "ok" /\ vn[place.at].type = "dir"
      /\ cwd' = [cwd EXCEPT ![t] = place.at]
      /\ UNCHANGED <<vn, mt>>

(* vfs_thread_clone: a new thread has its parent's working directory.        *)
Clone(t, child) ==
  /\ cwd' = [cwd EXCEPT ![child] = cwd[t]]
  /\ UNCHANGED <<vn, mt>>

MountsNext ==
  \E t \in Users :
    \/ \E path \in Paths :
         \/ OpenCreate(t, path) \/ Mkdir(t, path) \/ Chdir(t, path)
         \/ \E fs \in Filesystems : Mount(t, path, fs)
    \/ \E child \in Users \ {t} : Clone(t, child)

MountsSpec == MountsInit /\ [][MountsNext]_mountVars

-----------------------------------------------------------------------------
(* Every entry leads to a vnode whose parent is that directory and which     *)
(* belongs to the same mount; every mount that covers a directory has it as  *)
(* its mountpoint; working directories are directories.                      *)
TreeOK ==
  /\ \A v \in DOMAIN vn : \A name \in DOMAIN vn[v].entries :
       LET child == vn[v].entries[name]
       IN  /\ child \in DOMAIN vn /\ vn[child].parent = v
           /\ vn[child].mount = vn[v].mount
  /\ \A v \in DOMAIN vn :
       vn[v].mounted # 0 => vn[v].type = "dir" /\ mt[vn[v].mounted].point = v
  /\ \A t \in DOMAIN cwd : vn[cwd[t]].type = "dir"

(* Where the paths of all threads lead.                                      *)
Places ==
  {place.at : place \in {p \in {Resolve(t, path) : t \in DOMAIN cwd, path \in Paths} :
                           p.err = "ok"}}

(* A name and then ".." lead back to where the path was, also when the name  *)
(* is that of a mountpoint ("should correctly cross the mount boundary back  *)
(* into the parent filesystem's directory hierarchy").                       *)
RoundTrip ==
  \A v \in Places : \A name \in PathNames \cup Known :
    LET there == Step(At(v), name)
    IN  there.err = "ok" => Step(there, "..") = At(v)

(* Walking a path in two parts, with a chdir in between, leads to the same   *)
(* place as walking it at once (resolve_path starts every relative path with *)
(* follow_mount, but does not come back to one by "..").                     *)
Composes ==
  \A v \in Places : \A name \in Components :
    Walk(v, <<name>>) = Step(At(v), name)

(* Paths behave as in one tree, also across mounts.                          *)
PathsAsOneTree == RoundTrip /\ Composes
=============================================================================
