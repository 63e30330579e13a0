------------------------------ MODULE ImageStore ------------------------------
(***************************************************************************)
(* Images on disk: the registry client's OCI layouts (nova-api/registry),  *)
(* the conversion of a layout into an initramfs with its L1 blob store and *)
(* L2 rootfs cache (nova-runtime/image), the image service and the image   *)
(* half of create_sandbox, which appends /init and the command to the      *)
(* initramfs it was given.                                                 *)
(*                                                                         *)
(* Requests run concurrently.  The registry client holds no lock; the      *)
(* conversion, the injection and the insert into the image cache run under *)
(* the puller's mutex.  Every store keeps an index in memory and one on    *)
(* disk, and the daemon may crash between any two steps.  A digest names   *)
(* its content: SHA-256 has no collisions here.                            *)
(***************************************************************************)
EXTENDS Integers, Sequences, FiniteSets, Functions

CONSTANTS
    Refs,         \* image references
    LocalRefs,    \* those with an OCI layout in the fixtures directory
    BlankRefs,    \* those ImageReference::parse refuses
    DirOf,        \* sanitize_image_ref: the layout directory of a reference,
                  \* which several references may share
    Layers,       \* layer digests
    Entries,      \* what a layer's tar holds: [Layers -> Seq([kind, path])]
    Manifests,    \* manifest digests
    LayersOf,     \* OciManifest.layers: [Manifests -> Seq(Layers)]
    Tagged,       \* the manifest a reference denotes at first
    Retagged,     \* and the one it denotes after its tag has moved
    Requests,     \* bound: the requests, started in the order of their numbers
    Workloads,    \* what the requests are and what else may happen
    Chunks        \* chunks a layer is streamed in

ASSUME ImageAssumption ==
    /\ LocalRefs \subseteq Refs
    /\ BlankRefs \subseteq Refs \ LocalRefs
    /\ \A ref \in LocalRefs, k \in Refs : DirOf[k] = DirOf[ref] => k = ref
    /\ Cardinality(Requests) \in Nat
    /\ Requests = 1 .. Cardinality(Requests)
    /\ Chunks \in Nat \ {0}
    /\ \A w \in Workloads : \A r \in DOMAIN w.ops :
          /\ w.ops[r].ref \in Refs
          /\ w.ops[r].op = "pull" => w.ops[r].ref \notin LocalRefs
    /\ LayersOf \in [Manifests -> Seq(Layers)]
    /\ Tagged \in [Refs -> Manifests]
    /\ Retagged \in [Refs -> Manifests]

VARIABLES
    registry,     \* external: the manifest each reference denotes
    oci,          \* the OCI layout directories
    inode,        \* chunks present in the layer file each request created
    blobs,        \* L1: index in memory, index on disk, files
    rootfs,       \* L2: index in memory, index on disk, files
    images,       \* image cache: index in memory, index on disk
    dirs,         \* which of image_dir, its blobs/ and its rootfs/ exist
    cpio,         \* the initramfs files in image_dir
    tmpdir,       \* image_dir/_rootfs_tmp: <<>> or <<files>>
    puller,       \* the holder of the image_puller mutex; 0: free
    req,          \* the requests
    workload,     \* bound: what this behaviour consists of
    did           \* bound: crashes, tag moves and removals so far

stores == <<blobs, rootfs, images, dirs>>
files == <<cpio, tmpdir>>
vars == <<registry, oci, inode, stores, files, puller, req, workload, did>>

Absent == <<>>
None == <<>>

-----------------------------------------------------------------------------
(* Layer extraction, extract.rs.  A rootfs is a set of <<path, layer>>. *)

Under(path, dir) == Len(dir) < Len(path) /\ SubSeq(path, 1, Len(dir)) = dir
Of(layer, kind) ==
    {e.path : e \in {e \in Range(Entries[layer]) : e.kind = kind}}

\* The loop over the tar's entries: a file replaces the one at its path.
Unpack(fs, layer) ==
    {f \in fs : f[1] \notin Of(layer, "file")}
        \union {<<p, layer>> : p \in Of(layer, "file")}

\* Opaque directories are emptied once the whole layer is unpacked.
ClearOpaque(fs, layer) ==
    {f \in fs : \A d \in Of(layer, "opaque") : ~Under(f[1], d)}

\* Then the targets of the whiteouts are deleted, directories with all in them.
DeleteWhiteouts(fs, layer) ==
    {f \in fs : \A p \in Of(layer, "whiteout") : f[1] # p /\ ~Under(f[1], p)}

ExtractLayer(fs, layer) ==
    DeleteWhiteouts(ClearOpaque(Unpack(fs, layer), layer), layer)

\* The rootfs of a manifest, stated per file and not as a loop: a layer's file
\* is there unless a later layer has that file, or the layer itself or a later
\* one deletes it or empties a directory above it.
RootfsOf(m) ==
    LET ls == LayersOf[m]
        Hides(l, p) == \/ \E d \in Of(l, "opaque") : Under(p, d)
                       \/ \E w \in Of(l, "whiteout") : p = w \/ Under(p, w)
    IN  {f \in (UNION {Of(k, "file") : k \in Layers}) \X Layers :
            \E i \in DOMAIN ls :
                /\ ls[i] = f[2]
                /\ f[1] \in Of(f[2], "file")
                /\ \A j \in i .. Len(ls) : ~Hides(ls[j], f[1])
                /\ \A j \in i + 1 .. Len(ls) : f[1] \notin Of(ls[j], "file")}

-----------------------------------------------------------------------------
(* Files and requests. *)

\* The map f with v under the key k.
Put(f, k, v) == [x \in DOMAIN f \union {k} |-> IF x = k THEN v ELSE f[x]]

Whole(ino) == inode[ino] = 1 .. Chunks

EmptyLayout == [dir |-> FALSE, index |-> None, manifestJson |-> None,
                config |-> {}, tmp |-> <<>>, layer |-> <<>>]

\* The layouts under the fixtures directory are complete and nobody writes them;
\* their layer files are inode 0.
FixtureLayout(ref) ==
    [dir |-> TRUE, index |-> <<Tagged[ref]>>, manifestJson |-> <<ref, Tagged[ref]>>,
     config |-> {Tagged[ref]}, tmp |-> <<>>,
     layer |-> [l \in Range(LayersOf[Tagged[ref]]) |-> 0]]

FixtureDirs == {DirOf[ref] : ref \in LocalRefs}

\* The key of the L2 cache: the digest of manifest.json, which names the
\* reference, or of index.json where there is no manifest.json.
ManifestDigest(ref) ==
    LET layout == oci[DirOf[ref]]
    IN  IF layout.manifestJson # None THEN layout.manifestJson ELSE layout.index

\* dir_to_cpio.  An initramfs is the rootfs and the overlays appended to it,
\* <<request, what>>.
DirToCpio(fs) == [base |-> fs, inj |-> <<>>]

NewPath(fs) == [kind |-> "new", of |-> fs]          \* <content digest>.cpio
CachedPath(key) == [kind |-> "cached", of |-> key]  \* cached_<digest>.cpio

Idle == [pc |-> "idle", op |-> "none", ref |-> "none", m |-> None, i |-> 0,
         tmp |-> None, at |-> 0, good |-> TRUE, key |-> None, path |-> None,
         layers |-> <<>>, ok |-> FALSE]

Goto(r, pc) == req' = [req EXCEPT ![r].pc = pc]

\* Set several fields of request r: its record becomes f.
Set(r, f) == req' = [req EXCEPT ![r] = f]

\* A local layout is converted right away; others are pulled first.
FirstPc(ref, op) ==
    CASE ref \in LocalRefs /\ op = "create" -> "lock"
      [] ref \in BlankRefs -> IF op = "create" THEN "stub" ELSE "done"
      [] OTHER -> "auth"

-----------------------------------------------------------------------------
(* Requests arrive. *)

Arrives(r, op) ==
    /\ r \in DOMAIN workload.ops
    /\ workload.ops[r].op = op
    /\ req[r].pc = "idle"
    /\ r > 1 => req[r - 1].pc # "idle"

\* create_sandbox, from the point where the image is looked for.
CreateSandbox(r) ==
    /\ Arrives(r, "create")
    /\ LET ref == workload.ops[r].ref IN
          Set(r, [req[r] EXCEPT !.pc = FirstPc(ref, "create"), !.op = "create", !.ref = ref])
    /\ UNCHANGED <<registry, oci, inode, stores, files, puller, workload, did>>

Exists(path) == path \in DOMAIN cpio

\* ImageCache::get, and the file is still there.
ImageCached(ref) == ref \in DOMAIN images.mem /\ Exists(images.mem[ref].path)

\* pull_image: the cache is looked up and its lock released before the pull.
PullImage(r) ==
    /\ Arrives(r, "pull")
    /\ LET ref == workload.ops[r].ref
       IN  IF ImageCached(ref)
           THEN Set(r, [req[r] EXCEPT !.pc = "done", !.op = "pull", !.ref = ref,
                        !.path = images.mem[ref].path, !.ok = TRUE])
           ELSE Set(r, [req[r] EXCEPT !.pc = FirstPc(ref, "pull"), !.op = "pull", !.ref = ref])
    /\ UNCHANGED <<registry, oci, inode, stores, files, puller, workload, did>>

-----------------------------------------------------------------------------
(* RegistryClient::pull. *)

\* The pull failed: create_sandbox falls back to the stub image, which is
\* written but not used; pull_image answers with the error.
Failed(r) == Set(r, [req[r] EXCEPT !.pc = IF req[r].op = "create" THEN "stub" ELSE "done",
                     !.ok = FALSE])

\* The directory is created, and the registry asked for a token.
Authenticate(r) ==
    /\ req[r].pc = "auth"
    /\ oci' = [oci EXCEPT ![DirOf[req[r].ref]].dir = TRUE]
    /\ dirs' = dirs \union {"images"}
    /\ Failed(r) \/ Goto(r, "manifest")
    /\ UNCHANGED <<registry, inode, blobs, rootfs, images, files, puller, workload, did>>

\* The manifest, that of linux/amd64 if it is a list, and its blob.
FetchManifest(r) ==
    /\ req[r].pc = "manifest"
    /\ \/ Failed(r) /\ UNCHANGED <<oci, dirs>>
       \/ /\ oci' = [oci EXCEPT ![DirOf[req[r].ref]].dir = TRUE]
          /\ dirs' = dirs \union {"images"}
          /\ Set(r, [req[r] EXCEPT !.pc = "config", !.m = <<registry[req[r].ref]>>])
    /\ UNCHANGED <<registry, inode, blobs, rootfs, images, files, puller, workload, did>>

\* verify_and_write: the directory must exist.
VerifyAndWrite(d, m) ==
    oci[d].dir /\ oci' = [oci EXCEPT ![d].config = @ \union {m}]

\* fetch_blob and verify_and_write, unless the file is there.
FetchConfig(r) ==
    LET ref == req[r].ref  m == req[r].m[1]
    IN  /\ req[r].pc = "config"
        /\ \/ /\ m \notin oci[DirOf[ref]].config
              /\ Failed(r)
              /\ UNCHANGED oci
           \/ /\ \/ m \in oci[DirOf[ref]].config /\ UNCHANGED oci
                 \/ m \notin oci[DirOf[ref]].config /\ VerifyAndWrite(DirOf[ref], m)
              /\ Set(r, [req[r] EXCEPT !.pc = "layer", !.i = 1])
        /\ UNCHANGED <<registry, inode, stores, files, puller, workload, did>>

\* The loop over the layers: one whose file exists is skipped.
NextLayer(r) ==
    LET ref == req[r].ref  ls == LayersOf[req[r].m[1]]  l == ls[req[r].i]
    IN  /\ req[r].pc = "layer"
        /\ IF req[r].i > Len(ls) THEN Goto(r, "index")
           ELSE IF l \in DOMAIN oci[DirOf[ref]].layer THEN Set(r, [req[r] EXCEPT !.i = req[r].i + 1])
           ELSE \/ Failed(r)
                \/ Goto(r, "open")
        /\ UNCHANGED <<registry, oci, inode, stores, files, puller, workload, did>>


\* File::create on <digest>.tmp: truncates the file of a pull that is under way.
\* The body the registry sends may not match the digest (good = FALSE).
OpenTmp(r) ==
    LET ref == req[r].ref  l == LayersOf[req[r].m[1]][req[r].i]
        ino == IF l \in DOMAIN oci[DirOf[ref]].tmp THEN oci[DirOf[ref]].tmp[l] ELSE r
    IN  /\ req[r].pc = "open"
        /\ IF oci[DirOf[ref]].dir
           THEN /\ oci' = [oci EXCEPT ![DirOf[ref]].tmp = Put(@, l, ino)]
                /\ inode' = [inode EXCEPT ![ino] = {}]
                /\ \E good \in {TRUE, ~workload.corrupt} :
                      Set(r, [req[r] EXCEPT !.pc = "stream", !.tmp = <<ino>>, !.at = 0, !.good = good])
           ELSE Failed(r) /\ UNCHANGED <<oci, inode>>
        /\ UNCHANGED <<registry, stores, files, puller, workload, did>>

\* One chunk arrives, written at the request's own offset; or the stream fails
\* and the .tmp stays.
StreamChunk(r) ==
    /\ req[r].pc = "stream"
    /\ req[r].at < Chunks
    /\ \/ /\ inode' = [inode EXCEPT ![req[r].tmp[1]] =
                          IF req[r].good THEN @ \union {req[r].at + 1}
                                         ELSE @ \ {req[r].at + 1}]
          /\ Set(r, [req[r] EXCEPT !.at = req[r].at + 1])
       \/ Failed(r) /\ UNCHANGED inode
    /\ UNCHANGED <<registry, oci, stores, files, puller, workload, did>>

\* The digest of what was received decides; then the .tmp, whatever file now has
\* that name, is removed or renamed.  A rename finds no file if another request
\* has renamed it.
FinishStream(r) ==
    LET ref == req[r].ref  l == LayersOf[req[r].m[1]][req[r].i]
        tmp == oci[DirOf[ref]].tmp
        rest == Restrict(tmp, DOMAIN tmp \ {l})
    IN  /\ req[r].pc = "stream"
        /\ req[r].at = Chunks
        /\ \/ /\ ~req[r].good
              /\ oci' = [oci EXCEPT ![DirOf[ref]].tmp = rest]
              /\ Failed(r)
           \/ /\ req[r].good
              /\ l \notin DOMAIN tmp
              /\ Failed(r)
              /\ UNCHANGED oci
           \/ /\ req[r].good
              /\ l \in DOMAIN tmp
              /\ oci' = [oci EXCEPT ![DirOf[ref]] =
                            [@ EXCEPT !.tmp = rest, !.layer = Put(@, l, tmp[l])]]
              /\ Set(r, [req[r] EXCEPT !.pc = "layer", !.i = req[r].i + 1])
        /\ UNCHANGED <<registry, inode, stores, files, puller, workload, did>>

\* index.json and then manifest.json, each by a plain write.
WriteIndex(r) ==
    /\ req[r].pc = "index"
    /\ IF oci[DirOf[req[r].ref]].dir
       THEN /\ oci' = [oci EXCEPT ![DirOf[req[r].ref]].index = req[r].m]
            /\ Goto(r, "manifest.json")
       ELSE Failed(r) /\ UNCHANGED oci
    /\ UNCHANGED <<registry, inode, stores, files, puller, workload, did>>

WriteManifestJson(r) ==
    /\ req[r].pc = "manifest.json"
    /\ IF oci[DirOf[req[r].ref]].dir
       THEN /\ oci' = [oci EXCEPT ![DirOf[req[r].ref]].manifestJson = <<req[r].ref, req[r].m[1]>>]
            /\ Goto(r, "lock")
       ELSE Failed(r) /\ UNCHANGED oci
    /\ UNCHANGED <<registry, inode, stores, files, puller, workload, did>>

-----------------------------------------------------------------------------
(* ImagePuller::pull_oci_layout, under the puller's mutex. *)

\* The conversion failed: the mutex is released; create_sandbox goes on without
\* an initramfs (and writes the stub image if the layout was a local one).
ConversionFailed(r) ==
    /\ puller' = 0
    /\ Set(r, [req[r] EXCEPT !.pc = IF req[r].op = "create" /\ req[r].ref \in LocalRefs
                      THEN "stub" ELSE "done", !.ok = FALSE])

\* OciImageLayout::open finds index.json, the manifest it names, and reads and
\* verifies the manifest's and the config's blobs.
ReadAndVerifyBlob(layout, m) == m \in layout.config
Opens(layout) == layout.index # None /\ ReadAndVerifyBlob(layout, layout.index[1])

\* Under the lock: the layout is opened and the manifest's digest computed.
OpenLayout(r) ==
    LET ref == req[r].ref
    IN  /\ req[r].pc = "lock"
        /\ puller = 0
        /\ IF ~Opens(oci[DirOf[ref]])
           THEN ConversionFailed(r)
           ELSE /\ puller' = r
                /\ Set(r, [req[r] EXCEPT !.pc = "l2", !.key = ManifestDigest(ref),
                           !.layers = LayersOf[oci[DirOf[ref]].index[1]]])
        /\ UNCHANGED <<registry, oci, inode, stores, files, workload, did>>

RootfsContains(key) == key \in rootfs.mem /\ key \in DOMAIN rootfs.file
CloneFile(key, path) == cpio' = Put(cpio, path, rootfs.file[key])
FlushRootfs == rootfs' = [rootfs EXCEPT !.disk = rootfs.mem]

\* mutant: a clone that is there from an earlier sandbox is used again
CloneRootfsKeeps(r) ==
    LET path == CachedPath(req[r].key)
    IN  /\ req[r].pc = "l2"
        /\ RootfsContains(req[r].key)
        /\ cpio' = IF path \in DOMAIN cpio THEN cpio
                                        ELSE Put(cpio, path, rootfs.file[req[r].key])
        /\ Set(r, [req[r] EXCEPT !.pc = "inject", !.path = path])
        /\ FlushRootfs
        /\ UNCHANGED <<registry, oci, inode, blobs, images, dirs, tmpdir, puller, workload, did>>

\* A hit: clone_rootfs removes cached_<digest>.cpio if it is there, copies the
\* cached file and flushes the index.
CloneRootfs(r) ==
    LET path == CachedPath(req[r].key)
    IN  /\ req[r].pc = "l2"
        /\ RootfsContains(req[r].key)
        /\ CloneFile(req[r].key, path)
        /\ Set(r, [req[r] EXCEPT !.pc = "inject", !.path = path])
        /\ FlushRootfs
        /\ UNCHANGED <<registry, oci, inode, blobs, images, dirs, tmpdir, puller, workload, did>>

\* mutant: what a crashed conversion left in the directory is not removed
StartExtractKeeps(r) ==
    /\ req[r].pc = "l2"
    /\ ~RootfsContains(req[r].key)
    /\ tmpdir' = IF tmpdir = Absent THEN <<{}>> ELSE tmpdir
    /\ dirs' = dirs \union {"images"}
    /\ Set(r, [req[r] EXCEPT !.pc = "extract", !.i = 1])
    /\ UNCHANGED <<registry, oci, inode, blobs, rootfs, images, cpio, puller, workload, did>>

\* A miss: _rootfs_tmp is removed if it is there, and created.
StartExtract(r) ==
    /\ req[r].pc = "l2"
    /\ ~RootfsContains(req[r].key)
    /\ tmpdir' = <<{}>>
    /\ dirs' = dirs \union {"images"}
    /\ Set(r, [req[r] EXCEPT !.pc = "extract", !.i = 1])
    /\ UNCHANGED <<registry, oci, inode, blobs, rootfs, images, cpio, puller, workload, did>>

\* mutant: a layer that cannot be read is skipped
ExtractSkips(r) ==
    LET ls == req[r].layers  l == ls[req[r].i]  have == oci[DirOf[req[r].ref]].layer
    IN  /\ req[r].pc = "extract"
        /\ tmpdir # Absent
        /\ IF req[r].i > Len(ls)
           THEN Set(r, [req[r] EXCEPT !.pc = "l1", !.i = 1]) /\ UNCHANGED tmpdir
           ELSE /\ tmpdir' = IF l \in DOMAIN have /\ Whole(have[l])
                             THEN <<ExtractLayer(tmpdir[1], l)>> ELSE tmpdir
                /\ Set(r, [req[r] EXCEPT !.i = req[r].i + 1])
        /\ UNCHANGED <<registry, oci, inode, stores, cpio, puller, workload, did>>

\* One layer: its file must open, and decompress and unpack to the end.
Extract(r) ==
    LET ls == req[r].layers  l == ls[req[r].i]  have == oci[DirOf[req[r].ref]].layer
    IN  /\ req[r].pc = "extract"
        /\ IF req[r].i > Len(ls)
           THEN Set(r, [req[r] EXCEPT !.pc = "l1", !.i = 1]) /\ UNCHANGED <<tmpdir, puller>>
           ELSE IF l \in DOMAIN have /\ Whole(have[l]) /\ tmpdir # Absent
           THEN /\ tmpdir' = <<ExtractLayer(tmpdir[1], l)>>
                /\ Set(r, [req[r] EXCEPT !.i = req[r].i + 1])
                /\ UNCHANGED puller
           ELSE ConversionFailed(r) /\ UNCHANGED tmpdir
        /\ UNCHANGED <<registry, oci, inode, stores, cpio, workload, did>>

BlobsContain(l) == l \in blobs.mem /\ l \in DOMAIN blobs.file

\* mutant: the digest is not computed (as in insert_file)
InsertBlobUnverified(r) ==
    LET ls == req[r].layers  l == ls[req[r].i]  have == oci[DirOf[req[r].ref]].layer
    IN  /\ req[r].pc = "l1"
        /\ IF req[r].i > Len(ls)
           THEN Goto(r, "cpio") /\ UNCHANGED blobs
           ELSE IF BlobsContain(l) \/ l \notin DOMAIN have
           THEN Set(r, [req[r] EXCEPT !.i = req[r].i + 1]) /\ UNCHANGED blobs
           ELSE /\ blobs' = [blobs EXCEPT !.file = Put(@, l, inode[have[l]]),
                                          !.mem = @ \union {l}]
                /\ Goto(r, "l1flush")
        /\ UNCHANGED <<registry, oci, inode, rootfs, images, dirs, files, puller, workload, did>>

\* Each layer not yet in L1: read again, verified, written to a temporary file
\* and renamed.  A layer that cannot be stored is only logged.
InsertBlob(r) ==
    LET ls == req[r].layers  l == ls[req[r].i]  have == oci[DirOf[req[r].ref]].layer
    IN  /\ req[r].pc = "l1"
        /\ IF req[r].i > Len(ls)
           THEN Goto(r, "cpio") /\ UNCHANGED blobs
           ELSE IF \/ BlobsContain(l)
                   \/ l \notin DOMAIN have
                   \/ ~Whole(have[l])
                   \/ "blobs" \notin dirs
           THEN Set(r, [req[r] EXCEPT !.i = req[r].i + 1]) /\ UNCHANGED blobs
           ELSE /\ blobs' = [blobs EXCEPT !.file = Put(@, l, inode[have[l]]),
                                          !.mem = @ \union {l}]
                /\ Goto(r, "l1flush")
        /\ UNCHANGED <<registry, oci, inode, rootfs, images, dirs, files, puller, workload, did>>

FlushBlobs(r) ==
    /\ req[r].pc = "l1flush"
    /\ blobs' = IF "blobs" \in dirs THEN [blobs EXCEPT !.disk = blobs.mem] ELSE blobs
    /\ Set(r, [req[r] EXCEPT !.pc = "l1", !.i = req[r].i + 1])
    /\ UNCHANGED <<registry, oci, inode, rootfs, images, dirs, files, puller, workload, did>>

\* dir_to_cpio, the removal of _rootfs_tmp and the write of <content digest>.cpio.
WriteCpio(r) ==
    /\ req[r].pc = "cpio"
    /\ IF tmpdir # Absent /\ "images" \in dirs
       THEN LET path == NewPath(tmpdir[1])
            IN  /\ cpio' = Put(cpio, path, DirToCpio(tmpdir[1]))
                /\ Set(r, [req[r] EXCEPT !.pc = "l2copy", !.path = path])
                /\ UNCHANGED puller
       ELSE ConversionFailed(r) /\ UNCHANGED cpio
    /\ tmpdir' = Absent
    /\ UNCHANGED <<registry, oci, inode, stores, workload, did>>

\* RootfsCache::insert: fs::copy in two steps, the file being short in between;
\* an error is logged and the rootfs just not cached.
CopyRootfs(r) ==
    /\ req[r].pc = "l2copy"
    /\ IF "rootfs" \in dirs /\ Exists(req[r].path)
       THEN /\ rootfs' = [rootfs EXCEPT !.file = Put(@, req[r].key, DirToCpio({}))]
            /\ Goto(r, "l2copied")
       ELSE Goto(r, "inject") /\ UNCHANGED rootfs
    /\ UNCHANGED <<registry, oci, inode, blobs, images, dirs, files, puller, workload, did>>


\* The copy is complete, and the index has the entry, in memory and on disk.
InsertRootfs(r) ==
    /\ req[r].pc = "l2copied"
    /\ rootfs' = IF "rootfs" \in dirs
                 THEN [file |-> Put(rootfs.file, req[r].key, cpio[req[r].path]),
                       mem |-> rootfs.mem \union {req[r].key},
                       disk |-> rootfs.mem \union {req[r].key}]
                 ELSE rootfs
    /\ Goto(r, "inject")
    /\ UNCHANGED <<registry, oci, inode, blobs, images, dirs, files, puller, workload, did>>

-----------------------------------------------------------------------------
(* The end of the requests. *)

\* inject_file: an entry (an overlay) at the end of the archive.
WriteCpioEntry(entries, overlay) == Append(entries, overlay)
InjectFile(file, overlay) == [file EXCEPT !.inj = WriteCpioEntry(@, overlay)]

\* inject_init_into_cpio appends /init and, if there is a command, /entry.sh to
\* the file in place; inject_guest_ebpf then appends the agent.
InjectInit(file, r) == InjectFile(file, <<r, workload.ops[r].cmd>>)
InjectGuestEbpf(file, r) ==
    IF workload.agent THEN InjectFile(file, <<r, "agent">>) ELSE file

\* The conversion's file, injected; one that is gone is only logged.
Inject(r) ==
    /\ req[r].pc = "inject"
    /\ req[r].op = "create"
    /\ cpio' = IF Exists(req[r].path)
               THEN [cpio EXCEPT ![req[r].path] = InjectGuestEbpf(InjectInit(@, r), r)]
               ELSE cpio
    /\ puller' = 0
    /\ Set(r, [req[r] EXCEPT !.pc = "done", !.ok = TRUE])
    /\ UNCHANGED <<registry, oci, inode, stores, tmpdir, workload, did>>

\* ImageCache::save_index; a failing one is ignored.
SaveIndex(index) == IF "images" \in dirs THEN index ELSE images.disk

\* pull_image: ImageCache::insert with the registry's digest, under the puller's
\* mutex.
CacheImage(r) ==
    LET info == [path |-> req[r].path, digest |-> req[r].m[1]]
        mem == Put(images.mem, req[r].ref, info)
    IN  /\ req[r].pc = "inject"
        /\ req[r].op = "pull"
        /\ images' = [mem |-> mem, disk |-> SaveIndex(mem)]
        /\ puller' = 0
        /\ Set(r, [req[r] EXCEPT !.pc = "done", !.ok = TRUE])
        /\ UNCHANGED <<registry, oci, inode, blobs, rootfs, dirs, files, workload, did>>

\* ImagePuller::pull: a placeholder in a directory of its own, never read.
StubImage(r) ==
    /\ req[r].pc = "stub"
    /\ puller = 0
    /\ dirs' = dirs \union {"images"}
    /\ Goto(r, "done")
    /\ UNCHANGED <<registry, oci, inode, blobs, rootfs, images, files, puller, workload, did>>

\* remove_image of a cached image: with its file there, the whole directory the
\* file is in, image_dir, goes: layouts, L1, L2 and every initramfs.
RemoveImage(ref) ==
    /\ did.removes < workload.removes
    /\ did' = [did EXCEPT !.removes = @ + 1]
    /\ ref \in DOMAIN images.mem
    /\ LET rest == Restrict(images.mem, DOMAIN images.mem \ {ref})
       IN  IF Exists(images.mem[ref].path)
           THEN /\ oci' = [d \in DOMAIN oci |-> IF d \in FixtureDirs THEN oci[d] ELSE EmptyLayout]
                /\ blobs' = [mem |-> blobs.mem, disk |-> {}, file |-> <<>>]
                /\ rootfs' = [mem |-> rootfs.mem, disk |-> {}, file |-> <<>>]
                /\ images' = [mem |-> rest, disk |-> <<>>]
                /\ dirs' = {}
                /\ cpio' = <<>>
                /\ tmpdir' = Absent
           ELSE /\ images' = [mem |-> rest, disk |-> SaveIndex(rest)]
                /\ UNCHANGED <<oci, blobs, rootfs, dirs, files>>
    /\ UNCHANGED <<registry, inode, puller, req, workload>>

-----------------------------------------------------------------------------
(* The environment: the tag moves; the daemon dies and is started again,     *)
(* opening its stores from their index files.                                *)

MoveTag(ref) ==
    /\ did.moves < workload.moves
    /\ did' = [did EXCEPT !.moves = @ + 1]
    /\ registry[ref] # Retagged[ref]
    /\ registry' = [registry EXCEPT ![ref] = Retagged[ref]]
    /\ UNCHANGED <<oci, inode, stores, files, puller, req, workload>>

AllDirs == {"images", "blobs", "rootfs"}

OpenBlobStore == blobs' = [blobs EXCEPT !.mem = blobs.disk]
OpenRootfsCache == rootfs' = [rootfs EXCEPT !.mem = rootfs.disk]
LoadIndex == images.disk
OpenImageCache == images' = [images EXCEPT !.mem = LoadIndex]

Restart ==
    /\ did.crashes < workload.crashes
    /\ did' = [did EXCEPT !.crashes = @ + 1]
    /\ OpenBlobStore /\ OpenRootfsCache /\ OpenImageCache
    /\ dirs' = AllDirs
    /\ puller' = 0
    /\ req' = [r \in Requests |-> IF req[r].pc = "idle" THEN Idle
                                  ELSE [Idle EXCEPT !.pc = "crashed"]]
    /\ UNCHANGED <<registry, oci, inode, files, workload>>

Init ==
    /\ registry = Tagged
    /\ oci = [d \in {DirOf[ref] : ref \in Refs} |->
                IF d \in FixtureDirs THEN FixtureLayout(CHOOSE ref \in LocalRefs : DirOf[ref] = d)
                                     ELSE EmptyLayout]
    /\ inode = [i \in Requests \union {0} |-> IF i = 0 THEN 1 .. Chunks ELSE {}]
    /\ blobs = [mem |-> {}, disk |-> {}, file |-> <<>>]
    /\ rootfs = [mem |-> {}, disk |-> {}, file |-> <<>>]
    /\ images = [mem |-> <<>>, disk |-> <<>>]
    /\ dirs = AllDirs
    /\ cpio = <<>>
    /\ tmpdir = Absent
    /\ puller = 0
    /\ req = [r \in Requests |-> Idle]
    /\ workload \in Workloads
    /\ did = [crashes |-> 0, moves |-> 0, removes |-> 0]

Step(r) ==
    \/ CreateSandbox(r) \/ PullImage(r)
    \/ Authenticate(r) \/ FetchManifest(r) \/ FetchConfig(r) \/ NextLayer(r) \/ OpenTmp(r)
    \/ StreamChunk(r) \/ FinishStream(r) \/ WriteIndex(r) \/ WriteManifestJson(r)
    \/ OpenLayout(r) \/ CloneRootfs(r) \/ StartExtract(r) \/ Extract(r)
    \/ InsertBlob(r) \/ FlushBlobs(r) \/ WriteCpio(r) \/ CopyRootfs(r) \/ InsertRootfs(r)
    \/ Inject(r) \/ CacheImage(r) \/ StubImage(r)

Next ==
    \/ \E r \in Requests : Step(r)
    \/ \E ref \in Refs : RemoveImage(ref) \/ MoveTag(ref)
    \/ Restart

Spec == Init /\ [][Next]_vars

-----------------------------------------------------------------------------
(* Properties. *)

\* The manifests the layout directory of a reference can have held so far.
Denoted(ref) ==
    LET same == {k \in Refs : DirOf[k] = DirOf[ref]}
    IN  {Tagged[k] : k \in same} \union {registry[k] : k \in same}

\* L1 serves only what its key names: a blob that `contains' reports is the whole
\* layer, though it is copied from a layout that other pulls are writing and the
\* daemon may have crashed between the file and the index (BlobStore::insert).
BlobsVerified ==
    \A l \in blobs.mem \intersect DOMAIN blobs.file : blobs.file[l] = 1 .. Chunks

\* L2 serves only finished rootfs: what `contains' reports is the flattened
\* layers of a manifest the reference has denoted, complete, with nothing left
\* over from another conversion and no sandbox's overlays, after crashes too
\* (RootfsCache::insert, clone_file, extract_layers).
RootfsPristine ==
    \A key \in rootfs.mem \intersect DOMAIN rootfs.file :
        /\ rootfs.file[key].inj = <<>>
        /\ Len(key) = 2 => rootfs.file[key].base \in {RootfsOf(m) : m \in Denoted(key[1])}

\* An initramfs holds the overlays of one sandbox: a file that is shared by the
\* sandboxes of an image starts again from the cached rootfs for each of them
\* (clone_file, inject_init_into_cpio).
OneOverlay ==
    \A p \in DOMAIN cpio : \A x, y \in Range(cpio[p].inj) : x[1] = y[1]

\* create_sandbox has an initramfs to show for r.
HandsOut(r) ==
    req[r].pc # "done" /\ req'[r].pc = "done" /\ req'[r].ok /\ req'[r].op = "create"

\* That file is the rootfs of a manifest its reference denoted, followed by its
\* own /init, command and agent.
IsOwnImage(r) ==
    LET p == req'[r].path
    IN  p \in DOMAIN cpio' =>
           /\ cpio'[p].base \in {RootfsOf(m) : m \in Denoted(req[r].ref)}
           /\ cpio'[p].inj = << <<r, workload.ops[r].cmd>> >>
                  \o (IF workload.agent THEN << <<r, "agent">> >> ELSE <<>>)

\* A sandbox is created with its own image: when create_sandbox has an initramfs
\* to show, the file is the rootfs of a manifest its reference denoted, followed
\* by its own /init and command (server.rs, pull_oci_layout).
HandsOutOwnImage == [][\A r \in Requests : HandsOut(r) => IsOwnImage(r)]_vars
=============================================================================
