------------------------------ MODULE Backends ------------------------------
(***************************************************************************)
(* The file backends of crates/arf-backend: a CompositeBackend that routes *)
(* by the longest prefix to children of the kinds StateBackend (a DashMap) *)
(* and FilesystemBackend / LocalShellBackend (a directory), used by        *)
(* several clients at once.                                                *)
(*                                                                         *)
(* A path is the sequence of its components, a content the sequence of its *)
(* words.  Calls are atomic, apart from edit() of a directory-backed child *)
(* (it reads, then writes) and execute(), which runs beside the rest.      *)
(***************************************************************************)
EXTENDS Integers, Sequences, FiniteSets, SequencesExt

CONSTANTS
  Clients,
  Raws,       \* raw paths callers pass, as component sequences
  Words,      \* what contents are made of
  Contents,   \* contents that are written
  Batches,    \* batches that are uploaded
  RouteList,  \* the routes in the order they are added: <<prefix, child>>
  Env,        \* values of ARF_BACKEND: "", "state", "filesystem", others
  ShellChild, \* the child that is a LocalShellBackend
  MaxOps,     \* bound: calls of all clients together
  Nothing

VARIABLES
  kind,    \* of each child: "state" or "fs"
  routes,  \* the routes of the composite, longest prefix first
  tree,    \* of each child: its files (path -> content) and, for fs, its
           \* directories
  edit,    \* the edit() a client is in the middle of, or Nothing
  shell,   \* the command of each client: "none", "running", "done", "orphan"
  ops,     \* calls so far
  did      \* the call that just ended

vars == <<kind, routes, tree, edit, shell, ops, did>>

Children == {"default"} \cup {RouteList[i][2] : i \in DOMAIN RouteList}

-----------------------------------------------------------------------------
(* Paths *)

(* BackendPath::new: ".." is refused, "." and empty components dropped.    *)
PathNew(raw) ==
  LET kept[k \in 0 .. Len(raw)] ==
        IF k = 0 THEN <<>>
        ELSE IF raw[k] \in {"", "."} THEN kept[k - 1] ELSE Append(kept[k - 1], raw[k])
  IN IF raw = <<>> \/ Contains(raw, "..") THEN Nothing ELSE kept[Len(raw)]

IsAncestorOf(p, q) == IsPrefix(p, q)

StripPrefix(q, p) == SubSeq(q, Len(p) + 1, Len(q))

Parents(p) == {SubSeq(p, 1, n) : n \in 0 .. Len(p) - 1}

-----------------------------------------------------------------------------
(* CompositeBackend *)

(* Seeded fault: the routes stay in the order they were added.             *)
FaultyWithRoute(rs, r) == Append(rs, r)

(* with_route: pushed, then sorted by length, longest first; the sort is   *)
(* stable.  Components are taken to have one length.                       *)
WithRoute(rs, r) ==
  LET longer == Cardinality({i \in DOMAIN rs : Len(rs[i][1]) >= Len(r[1])})
  IN InsertAt(rs, longer + 1, r)

(* The routes after n calls of with_route.                                 *)
Routed ==
  LET routed[n \in 0 .. Len(RouteList)] ==
        IF n = 0 THEN <<>> ELSE WithRoute(routed[n - 1], RouteList[n])
  IN routed

Resolve(p) ==
  LET hits == {i \in DOMAIN routes : IsAncestorOf(routes[i][1], p)}
      r == routes[CHOOSE i \in hits : \A j \in hits : i <= j]
      suffix == StripPrefix(p, r[1])
  IN IF hits = {} THEN [child |-> "default", path |-> p]
     ELSE [child |-> r[2], path |-> IF suffix = <<>> THEN r[1] ELSE suffix]

Rebuild(prefix, p) == prefix \o p

-----------------------------------------------------------------------------
(* The children.  A state child is a map; an fs child is a directory: it   *)
(* needs its root to resolve a path, and only it has directories and files *)
(* that are no utf-8 text (Binary).                                        *)

Binary == <<"binary">>

FsUsable(t) == <<>> \in t.dirs

(* read(): the whole file; Nothing stands for an error.                    *)
StateRead(t, p) == IF p \in DOMAIN t.files THEN t.files[p] ELSE Nothing

FsRead(t, p) ==
  IF FsUsable(t) /\ p \in DOMAIN t.files /\ t.files[p] # Binary THEN t.files[p] ELSE Nothing

(* ls(): everything below p (state), the direct entries of p (fs).         *)
StateLs(t, p) == {q \in DOMAIN t.files : IsPrefix(p, q) /\ q # p}

FsLs(t, p) ==
  IF FsUsable(t) /\ p \in t.dirs
  THEN {q \in DOMAIN t.files \cup t.dirs : q # <<>> /\ Front(q) = p} ELSE Nothing

(* glob("**") from the child's own root.  The walk of an fs child whose    *)
(* root is gone is an error; directories are shown as well.                *)
StateGlob(t) == DOMAIN t.files

FsGlob(t) == IF FsUsable(t) THEN DOMAIN t.files \cup t.dirs ELSE Nothing

(* grep(w) of a whole child.  A state child looks at every content; an fs  *)
(* child gives up on the first file that is not utf-8, and finds nothing   *)
(* when its root is gone.                                                  *)
StateGrep(t, w) == {q \in DOMAIN t.files : Contains(t.files[q], w)}

FsGrep(t, w) ==
  IF ~FsUsable(t) THEN {}
  ELSE IF \E q \in DOMAIN t.files : t.files[q] = Binary THEN Nothing
  ELSE {q \in DOMAIN t.files : Contains(t.files[q], w)}

(* write(): a state child takes everything.  fs: create_dir_all of the     *)
(* parent fails on a file in the way, the write itself on a directory.     *)
StateWrite(t, p, c) ==
  [t EXCEPT !.files = [q \in DOMAIN @ \cup {p} |-> IF q = p THEN c ELSE @[q]]]

FsWrites(t, p) == FsUsable(t) /\ p \notin t.dirs /\ Parents(p) \cap DOMAIN t.files = {}

FsWrite(t, p, c) ==
  [files |-> [q \in DOMAIN t.files \cup {p} |-> IF q = p THEN c ELSE t.files[q]],
   dirs  |-> t.dirs \cup Parents(p)]

(* edit(): replacen/replace, after the test that the old string is unique  *)
(* or that all are meant; Nothing when edit() refuses.                     *)
Occurrences(c, w) == Cardinality({i \in DOMAIN c : c[i] = w})

Edited(c, old, new, all) ==
  IF c = Nothing \/ Occurrences(c, old) = 0 \/ (~all /\ Occurrences(c, old) > 1) THEN Nothing
  ELSE [i \in DOMAIN c |-> IF c[i] = old THEN new ELSE c[i]]

(* delete(): state removes p and what starts with p + "/" (for the root    *)
(* that is "//", so nothing); fs the subtree with its directories.         *)
StateDoomed(t, p) == IF p = <<>> THEN {} ELSE {q \in DOMAIN t.files : IsPrefix(p, q)}

FsDoomed(t, p) ==
  IF FsUsable(t) THEN {q \in DOMAIN t.files \cup t.dirs : IsPrefix(p, q)} ELSE {}

(* One file of upload_files: a state child refuses what is not utf-8.      *)
StateUploads(c) == c # Binary

FsUploads(t, p) == FsWrites(t, p)

-----------------------------------------------------------------------------
(* Dispatch: each call of the composite goes to one child, except glob and *)
(* grep without a base, which ask them all.                                *)

ReadAt(p) ==
  LET r == Resolve(p)
  IN IF kind[r.child] = "fs" THEN FsRead(tree[r.child], r.path) ELSE StateRead(tree[r.child], r.path)

(* What ls(p) shows; the entries are not re-prefixed.                      *)
LsAt(p) ==
  LET r == Resolve(p)
  IN IF kind[r.child] = "fs" THEN FsLs(tree[r.child], r.path) ELSE StateLs(tree[r.child], r.path)

CanWrite(t, ch, p) == kind[ch] = "fs" => FsWrites(t[ch], p)

Put(t, ch, p, c) ==
  [t EXCEPT ![ch] = IF kind[ch] = "fs" THEN FsWrite(@, p, c) ELSE StateWrite(@, p, c)]

Doomed(ch, p) == IF kind[ch] = "fs" THEN FsDoomed(tree[ch], p) ELSE StateDoomed(tree[ch], p)

Uploads(t, ch, p, c) == IF kind[ch] = "fs" THEN FsUploads(t[ch], p) ELSE StateUploads(c)

Asked == <<<<<<>>, "default">>>> \o routes

(* One child that fails makes the whole call fail.                         *)
Merged(answer) ==
  IF \E i \in DOMAIN Asked : answer[Asked[i][2]] = Nothing THEN Nothing
  ELSE UNION {{Rebuild(Asked[i][1], q) : q \in answer[Asked[i][2]]} : i \in DOMAIN Asked}

GlobAll == Merged([ch \in Children |-> IF kind[ch] = "fs" THEN FsGlob(tree[ch]) ELSE StateGlob(tree[ch])])

GrepAll(w) == Merged([ch \in Children |-> IF kind[ch] = "fs" THEN FsGrep(tree[ch], w)
                                          ELSE StateGrep(tree[ch], w)])

-----------------------------------------------------------------------------
(* BackendFactory::from_env; an unknown type is an error at construction.  *)
FromEnv(v) == IF v \in {"", "state"} THEN "state" ELSE IF v = "filesystem" THEN "fs" ELSE Nothing

Init ==
  /\ \E v \in Env : /\ FromEnv(v) # Nothing
                    /\ kind = [ch \in Children |-> IF ch = "default" THEN FromEnv(v)
                                                   ELSE IF ch = ShellChild THEN "fs" ELSE "state"]
  /\ routes = Routed[Len(RouteList)]
  /\ tree = [ch \in Children |-> [files |-> <<>>, dirs |-> IF kind[ch] = "fs" THEN {<<>>} ELSE {}]]
  /\ edit = [c \in Clients |-> Nothing] /\ shell = [c \in Clients |-> "none"]
  /\ ops = 0 /\ did = [op |-> "none"]

Begin(c) == edit[c] = Nothing /\ shell[c] # "running" /\ ops < MaxOps /\ ops' = ops + 1

Write(c, raw, w) ==
  /\ Begin(c) /\ PathNew(raw) # Nothing
  /\ LET p == PathNew(raw)
         r == Resolve(p)
     IN \/ /\ CanWrite(tree, r.child, r.path) /\ tree' = Put(tree, r.child, r.path, w)
           /\ did' = [op |-> "write", path |-> p, content |-> w]
        \/ /\ ~CanWrite(tree, r.child, r.path)
           /\ did' = [op |-> "error"] /\ UNCHANGED tree
  /\ UNCHANGED <<kind, routes, edit, shell>>

(* fs: also the empty directories go; a missing path is an Io error, and   *)
(* so is everything once the root itself was deleted.                      *)
Delete(c, raw) ==
  /\ Begin(c) /\ PathNew(raw) # Nothing
  /\ LET p == PathNew(raw)
         r == Resolve(p)
     IN \/ /\ Doomed(r.child, r.path) # {}
           /\ tree' = [tree EXCEPT ![r.child] =
                [files |-> [q \in DOMAIN @.files \ Doomed(r.child, r.path) |-> @.files[q]],
                 dirs |-> @.dirs \ Doomed(r.child, r.path)]]
           /\ did' = [op |-> "delete", path |-> p, child |-> r.child]
        \/ /\ Doomed(r.child, r.path) = {}
           /\ did' = [op |-> "error"] /\ UNCHANGED tree
  /\ UNCHANGED <<kind, routes, edit, shell>>

(* edit() of a state child, under the map's entry lock; of an fs child,    *)
(* the part up to the write.                                               *)
Edit(c, raw, old, new, all) ==
  /\ Begin(c) /\ PathNew(raw) # Nothing /\ old # new
  /\ LET r == Resolve(PathNew(raw))
         e == Edited(ReadAt(PathNew(raw)), old, new, all)
     IN \/ /\ e = Nothing
           /\ did' = [op |-> "error"] /\ UNCHANGED <<tree, edit>>
        \/ /\ e # Nothing /\ kind[r.child] = "state"
           /\ tree' = Put(tree, r.child, r.path, e)
           /\ did' = [op |-> "write", path |-> PathNew(raw), content |-> e] /\ UNCHANGED edit
        \/ /\ e # Nothing /\ kind[r.child] = "fs"
           /\ edit' = [edit EXCEPT ![c] = [at |-> PathNew(raw), content |-> e]]
           /\ did' = [op |-> "none"] /\ UNCHANGED tree
  /\ UNCHANGED <<kind, routes, shell>>

(* fs::write of the edited content: no parent is made, so it fails when    *)
(* the directory has gone.                                                 *)
EditWrite(c) ==
  /\ edit[c] # Nothing /\ edit' = [edit EXCEPT ![c] = Nothing]
  /\ LET r == Resolve(edit[c].at)
     IN \/ /\ CanWrite(tree, r.child, r.path) /\ Parents(r.path) \subseteq tree[r.child].dirs
           /\ tree' = Put(tree, r.child, r.path, edit[c].content)
           /\ did' = [op |-> "write", path |-> edit[c].at, content |-> edit[c].content]
        \/ /\ ~(CanWrite(tree, r.child, r.path) /\ Parents(r.path) \subseteq tree[r.child].dirs)
           /\ did' = [op |-> "error"] /\ UNCHANGED tree
  /\ UNCHANGED <<kind, routes, shell, ops>>

(* upload_files of the composite: the files go into buckets, one per child *)
(* in the order of first use; the results come back bucket by bucket.  A   *)
(* file is [path, content].                                                *)
Bucket(batch, b) ==
  LET files[i \in 0 .. Len(batch)] ==
        IF i = 0 THEN <<>>
        ELSE IF Resolve(batch[i].path).child = b THEN Append(files[i - 1], i) ELSE files[i - 1]
  IN files

Bucketed(batch) ==
  LET child(i) == Resolve(batch[i].path).child
      buckets[k \in 0 .. Len(batch)] ==
        IF k = 0 THEN <<>>
        ELSE IF \E i \in 1 .. k - 1 : child(i) = child(k) THEN buckets[k - 1]
        ELSE buckets[k - 1] \o Bucket(batch, child(k))[Len(batch)]
  IN buckets

UploadOne(acc, i, f) ==
  LET r == Resolve(f.path)
      ok == Uploads(acc.tree, r.child, r.path, f.content)
  IN [tree |-> IF ok THEN Put(acc.tree, r.child, r.path, f.content) ELSE acc.tree,
      results |-> Append(acc.results, [file |-> i, ok |-> ok])]

Uploaded(batch, order) ==
  LET after[n \in 0 .. Len(order)] ==
        IF n = 0 THEN [tree |-> tree, results |-> <<>>]
        ELSE UploadOne(after[n - 1], order[n], batch[order[n]])
  IN after

Upload(c, batch) ==
  /\ Begin(c)
  /\ LET order == Bucketed(batch)[Len(batch)]
         done == Uploaded(batch, order)[Len(order)]
     IN tree' = done.tree /\ did' = [op |-> "upload", results |-> done.results]
  /\ UNCHANGED <<kind, routes, edit, shell>>

-----------------------------------------------------------------------------
(* LocalShellBackend::execute.  On a timeout the future of cmd.output() is *)
(* dropped, and nothing kills the child process.                           *)
Execute(c) ==
  /\ Begin(c) /\ shell[c] # "orphan"
  /\ shell' = [shell EXCEPT ![c] = "running"] /\ did' = [op |-> "none"]
  /\ UNCHANGED <<kind, routes, tree, edit>>

ExecuteEnds(c) ==
  /\ shell[c] \in {"running", "orphan"}
  /\ shell' = [shell EXCEPT ![c] = "done"] /\ did' = [op |-> "none"]
  /\ UNCHANGED <<kind, routes, tree, edit, ops>>

ExecuteTimesOut(c) ==
  /\ shell[c] = "running"
  /\ shell' = [shell EXCEPT ![c] = "orphan"] /\ did' = [op |-> "timeout"]
  /\ UNCHANGED <<kind, routes, tree, edit, ops>>

Next ==
  \E c \in Clients :
    \/ \E raw \in Raws : \/ \E w \in Contents : Write(c, raw, w)
                         \/ Delete(c, raw)
                         \/ \E old, new \in Words, all \in BOOLEAN : Edit(c, raw, old, new, all)
    \/ \E batch \in Batches : Upload(c, batch)
    \/ EditWrite(c) \/ Execute(c) \/ ExecuteEnds(c) \/ ExecuteTimesOut(c)

Spec == Init /\ [][Next]_vars

-----------------------------------------------------------------------------
Mounts == {RouteList[i][1] : i \in DOMAIN RouteList}

(* The child a path belongs to, by the declaration: the longest prefix.    *)
Owner(p) ==
  LET hits == {i \in DOMAIN RouteList : IsPrefix(RouteList[i][1], p)}
  IN IF hits = {} THEN "default"
     ELSE RouteList[CHOOSE i \in hits : \A j \in hits : Len(RouteList[j][1]) <= Len(RouteList[i][1])][2]

(* The files of all children, each under its absolute path.                *)
View ==
  UNION {{<<Rebuild(Asked[i][1], q), tree[Asked[i][2]].files[q]>> : q \in DOMAIN tree[Asked[i][2]].files}
         : i \in DOMAIN Asked}

Under(p) == {e \in View : IsPrefix(p, e[1]) /\ Owner(e[1]) = Owner(p)}

(* Every file is kept by the child with the longest prefix of its path.    *)
KeptByOwner ==
  /\ \A q \in DOMAIN tree["default"].files : Owner(q) = "default"
  /\ \A i \in DOMAIN routes : \A q \in DOMAIN tree[routes[i][2]].files :
       Owner(Rebuild(routes[i][1], q)) = routes[i][2]

Paths == Seq(STRING)
Table == Seq(Paths \X Children)

(* The routes for which CompositeIsFlat is proved.  Every prefix and every *)
(* child is in one route, the default child in none, and no prefix lies on *)
(* the way from another one to that one twice over: resolve() of a mount   *)
(* point itself puts a file there.  Prefixes, raw paths and the paths of   *)
(* uploads are sequences of names.                                         *)
BackAssumption ==
  /\ RouteList \in Table
  /\ \A i \in DOMAIN RouteList : RouteList[i][2] # "default"
  /\ \A i, j \in DOMAIN RouteList :
       i # j => RouteList[i][1] # RouteList[j][1] /\ RouteList[i][2] # RouteList[j][2]
  /\ \A i, j \in DOMAIN RouteList :
       IsPrefix(RouteList[j][1], RouteList[i][1] \o RouteList[i][1]) =>
         Len(RouteList[j][1]) <= Len(RouteList[i][1])
  /\ Raws \subseteq Paths
  /\ \A batch \in Batches : Len(batch) \in Nat /\ \A i \in 1 .. Len(batch) : batch[i].path \in Paths

(* The composite behaves as one flat map of absolute paths, whatever the   *)
(* order in which its routes were added: every file stays in the child     *)
(* that owns its path, a write() or edit() of p that succeeds changes what *)
(* glob() shows at p and nowhere else, and a delete() removes exactly p's  *)
(* subtree in the child that owns p.  (Not so at a mount point itself,     *)
(* whose path resolve() hands to the child unchanged.)                     *)
CompositeIsFlat ==
  [][ /\ KeptByOwner'
      /\ did'.op = "write" /\ did'.path \notin Mounts =>
           View' = {e \in View : e[1] # did'.path} \cup {<<did'.path, did'.content>>}
      /\ did'.op = "delete" /\ did'.path \notin Mounts =>
           View' = View \ Under(did'.path) ]_vars

(* What the searches of the composite show can be read where they show it: *)
(* glob() misses no file, read() of a path that grep(w) returns gives a    *)
(* text with w in it, and grep(w) misses no such text, whatever was        *)
(* written, deleted and uploaded in between (rebuild_composite_path undoes *)
(* resolve).  A search that fails as a whole promises nothing.             *)
SearchReadsBack ==
  /\ GlobAll # Nothing => \A e \in View : e[1] \in GlobAll
  /\ \A w \in Words : GrepAll(w) # Nothing =>
       GrepAll(w) = {e[1] : e \in {v \in View : ReadAt(v[1]) = v[2] /\ Contains(v[2], w)}}

(* FileInfo.path is documented as an absolute path: what ls() shows below  *)
(* a path starts with that path.                                           *)
LsIsAbsolute ==
  \A raw \in Raws : LET p == PathNew(raw)
                    IN p # Nothing /\ LsAt(p) # Nothing => \A q \in LsAt(p) : IsPrefix(p, q)

(* BackendProtocol::upload_files promises one result per input, in the     *)
(* order of the inputs.                                                    *)
UploadInOrder ==
  did.op = "upload" => \A k \in DOMAIN did.results : did.results[k].file = k

(* SandboxBackendProtocol::execute promises that timeout_ms is the most a  *)
(* command runs before it is killed.                                       *)
KilledAtTimeout == \A c \in Clients : shell[c] # "orphan"

=============================================================================
