---------------------------- MODULE ImageStoreInv ----------------------------
(***************************************************************************)
(* The inductive invariant behind the properties of ImageStore: why the    *)
(* stores stay right across races, removals and crashes.                   *)
(***************************************************************************)
EXTENDS ImageStore

Dirs == {DirOf[ref] : ref \in Refs}

\* The manifests that the references of layout directory d have denoted, reg
\* being the registry.
DenotedIn(reg, d) ==
    {Tagged[k] : k \in {k \in Refs : DirOf[k] = d}}
        \union {reg[k] : k \in {k \in Refs : DirOf[k] = d}}

\* The first n layers of ls, flattened: RootfsOf with the loop stopped early.
Hides(l, p) == \/ \E d \in Of(l, "opaque") : Under(p, d)
               \/ \E w \in Of(l, "whiteout") : p = w \/ Under(p, w)
LeavesFile(ls, n, i, f) ==
    /\ ls[i] = f[2]
    /\ f[1] \in Of(f[2], "file")
    /\ \A j \in i .. n : ~Hides(ls[j], f[1])
    /\ \A j \in i + 1 .. n : f[1] \notin Of(ls[j], "file")
Flattened(ls, n) ==
    {f \in (UNION {Of(k, "file") : k \in Layers}) \X Layers :
        \E i \in 1 .. n : LeavesFile(ls, n, i, f)}

-----------------------------------------------------------------------------
(* The shapes of the records. *)

IsLayout(x) ==
    x \in [dir : {x.dir}, index : {x.index}, manifestJson : {x.manifestJson},
           config : {x.config}, tmp : {x.tmp}, layer : {x.layer}]
IsRequest(x) ==
    x \in [pc : {x.pc}, op : {x.op}, ref : {x.ref}, m : {x.m}, i : {x.i}, tmp : {x.tmp},
           at : {x.at}, good : {x.good}, key : {x.key}, path : {x.path},
           layers : {x.layers}, ok : {x.ok}]
IsStore(x) == x \in [mem : {x.mem}, disk : {x.disk}, file : {x.file}]
IsArchive(x) == x \in [base : {x.base}, inj : {x.inj}]

LayoutShapes ==
    /\ oci = [d \in Dirs |-> oci[d]]
    /\ \A d \in Dirs : IsLayout(oci[d])

StoreShapes ==
    /\ IsStore(blobs)
    /\ IsStore(rootfs)
    /\ cpio = [p \in DOMAIN cpio |-> cpio[p]]
    /\ \A p \in DOMAIN cpio : IsArchive(cpio[p])
    /\ \A k \in DOMAIN rootfs.file : IsArchive(rootfs.file[k])

Shapes ==
    /\ workload \in Workloads
    /\ registry \in [Refs -> Manifests]
    /\ req = [r \in Requests |-> req[r]]
    /\ \A r \in Requests : IsRequest(req[r])
    /\ LayoutShapes
    /\ StoreShapes

\* A tag moves at most once.
TagsMoveOnce == \A ref \in Refs : registry[ref] \in {Tagged[ref], Retagged[ref]}

-----------------------------------------------------------------------------
(* The layouts, and the requests that write them. *)

Pulled == {"config", "layer", "open", "stream", "index", "manifest.json"}
Converting == {"l2", "extract", "l1", "l1flush", "cpio", "l2copy", "l2copied", "inject"}

\* What a layout names was denoted by a reference of its directory.
LayoutsNameTags ==
    \A d \in Dirs :
        /\ oci[d].index # None => \E m \in DenotedIn(registry, d) : oci[d].index = <<m>>
        /\ oci[d].manifestJson # None =>
               \E k \in Refs : \E m \in Manifests :
                   DirOf[k] = d /\ oci[d].manifestJson = <<k, m>>

RequestsNameTags ==
    \A r \in Requests :
        /\ req[r].pc \notin {"idle", "crashed"} => req[r].ref \in Refs
        /\ req[r].pc \in Pulled => \E m \in DenotedIn(registry, DirOf[req[r].ref]) : req[r].m = <<m>>
        /\ req[r].ok => req[r].pc = "done"

-----------------------------------------------------------------------------
(* L1 and L2. *)

BlobFilesWhole == \A l \in DOMAIN blobs.file : blobs.file[l] = 1 .. Chunks

\* fs is what the key of an L2 entry stands for.
Serves(reg, key, fs) ==
    \/ \E m \in Manifests : key = <<m>> /\ fs = RootfsOf(m)
    \/ \E k \in Refs : \E m \in Manifests : \E x \in DenotedIn(reg, DirOf[k]) :
           key = <<k, m>> /\ fs = RootfsOf(x)

\* The index on disk lags behind the one in memory, and while the directory is
\* there every entry has its file; where it is gone, so are index and files.
IndexHasFiles ==
    /\ rootfs.disk \subseteq rootfs.mem
    /\ "rootfs" \in dirs => rootfs.mem \subseteq DOMAIN rootfs.file
    /\ "rootfs" \notin dirs => rootfs.disk = {} /\ DOMAIN rootfs.file = {}

RootfsServes ==
    \A key \in rootfs.mem \intersect DOMAIN rootfs.file :
        rootfs.file[key].inj = <<>> /\ Serves(registry, key, rootfs.file[key].base)

-----------------------------------------------------------------------------
(* The conversion. *)

\* Only the holder of the puller's mutex converts.
OneConverts == \A r \in Requests : req[r].pc \in Converting => puller = r

\* The key stands for the layers that are being converted.
KeyMatches(q) ==
    \E x \in DenotedIn(registry, DirOf[q.ref]) :
        /\ q.layers = LayersOf[x]
        /\ \/ q.key = <<x>>
           \/ \E k \in Refs : \E m \in Manifests :
                  DirOf[k] = DirOf[q.ref] /\ q.key = <<k, m>>

\* What the conversion of q has put together so far, unless a removal took it.
Unpacked(q) ==
    /\ q.pc = "extract" =>
           /\ q.i \in 1 .. Len(q.layers) + 1
           /\ tmpdir # Absent => tmpdir = <<Flattened(q.layers, q.i - 1)>>
    /\ q.pc \in {"l1", "l1flush", "cpio"} /\ tmpdir # Absent =>
           tmpdir = <<Flattened(q.layers, Len(q.layers))>>

Archived(q) ==
    /\ q.pc \in {"l2copy", "l2copied", "inject"} /\ q.path \in DOMAIN cpio =>
           cpio[q.path].inj = <<>> /\ Serves(registry, q.key, cpio[q.path].base)
    /\ q.pc = "l2copied" /\ "rootfs" \in dirs => q.path \in DOMAIN cpio

\* The entry that a miss is about to fill is not in the index.
NotYetCached(q) ==
    q.pc \notin {"l2", "inject"} /\ "rootfs" \in dirs => q.key \notin rootfs.mem

Conversion ==
    \A r \in Requests :
        req[r].pc \in Converting =>
            KeyMatches(req[r]) /\ Unpacked(req[r]) /\ Archived(req[r]) /\ NotYetCached(req[r])

-----------------------------------------------------------------------------
(* The inductive invariant is the conjunction of these two. *)

\* What the requests and the layouts name, which the conversions rest on.
Named == Shapes /\ TagsMoveOnce /\ LayoutsNameTags /\ RequestsNameTags

\* The conversions and the stores, which a request outside a conversion leaves
\* alone.
Stored ==
    /\ BlobFilesWhole /\ IndexHasFiles /\ RootfsServes
    /\ OneConverts /\ Conversion /\ OneOverlay
=============================================================================
