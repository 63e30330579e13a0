-------------------------- MODULE ImageStoreProofs --------------------------
(***************************************************************************)
(* The theorems about ImageStore, for every number of requests, every set  *)
(* of references, manifests and layers, and every workload.                *)
(*                                                                         *)
(* A pull, the steps from the arrival of a request to the file that names  *)
(* the image, writes its layout directory alone, so the stores need only   *)
(* OutsideStored.  The conversion runs under the mutex of the puller, so   *)
(* that no other request is converting (OneConverts) and InsideSafe asks   *)
(* only that the stores and the progress of the one conversion are right.  *)
(* Removals, tag moves and crashes keep the invariant too: a removal takes *)
(* index, files and directories in one step, and a restart reads back an   *)
(* index whose entries all have their files.                               *)
(***************************************************************************)
EXTENDS ImageStoreInv, TLAPS

\* 0, which puller holds when the mutex is free, is no request.
LEMMA RequestNumbers == 0 \notin Requests
BY ImageAssumption

\* Before the first layer the extraction directory is empty.
LEMMA FlattenedNone == \A ls : Flattened(ls, 0) = {}
BY DEF Flattened

\* After the last one it holds the rootfs of the image.
LEMMA FlattenedAll ==
    ASSUME NEW m \in Manifests
    PROVE  RootfsOf(m) = Flattened(LayersOf[m], Len(LayersOf[m]))
<1>1. LayersOf[m] \in Seq(Layers)
  BY ImageAssumption
<1>2. DOMAIN LayersOf[m] = 1 .. Len(LayersOf[m])
  BY <1>1
<1>. QED BY <1>2, Zenon DEF RootfsOf, Flattened, LeavesFile, Hides

\* What one layer leaves: the files it does not replace and its own, less
\* what its whiteouts hide.
LEMMA LayerFile ==
    ASSUME NEW fs, NEW l, NEW f
    PROVE  f \in ExtractLayer(fs, l) <=>
             /\ \/ f \in fs /\ f[1] \notin Of(l, "file")
                \/ \E p \in Of(l, "file") : f = <<p, l>>
             /\ ~Hides(l, f[1])
BY Zenon DEF ExtractLayer, DeleteWhiteouts, ClearOpaque, Unpack, Hides

\* One round of the extraction loop flattens one layer more.
LEMMA ExtractStep ==
    ASSUME NEW ls \in Seq(Layers), NEW n \in Nat, n < Len(ls)
    PROVE  ExtractLayer(Flattened(ls, n), ls[n + 1]) = Flattened(ls, n + 1)
<1>. DEFINE l == ls[n + 1]
            All == (UNION {Of(k, "file") : k \in Layers}) \X Layers
<1>1. l \in Layers
  OBVIOUS
<1>2. ASSUME NEW f \in All, NEW i \in 1 .. n
      PROVE  LeavesFile(ls, n + 1, i, f) <=>
                LeavesFile(ls, n, i, f) /\ f[1] \notin Of(l, "file") /\ ~Hides(l, f[1])
  <2>1. i .. n + 1 = (i .. n) \union {n + 1}
    OBVIOUS
  <2>2. i + 1 .. n + 1 = (i + 1 .. n) \union {n + 1}
    OBVIOUS
  <2>. QED BY <2>1, <2>2, Zenon DEF LeavesFile
<1>3. ASSUME NEW f \in All
      PROVE  LeavesFile(ls, n + 1, n + 1, f) <=>
                f[2] = l /\ f[1] \in Of(l, "file") /\ ~Hides(l, f[1])
  <2>1. n + 1 .. n + 1 = {n + 1} /\ n + 1 + 1 .. n + 1 = {}
    OBVIOUS
  <2>. QED BY <2>1, Zenon DEF LeavesFile
<1>4. 1 .. n + 1 = (1 .. n) \union {n + 1}
  OBVIOUS
<1>5. ASSUME NEW f
      PROVE  f \in Flattened(ls, n + 1) <=>
                /\ f \in All
                /\ \/ \E i \in 1 .. n : LeavesFile(ls, n, i, f) /\ f[1] \notin Of(l, "file")
                   \/ f[2] = l /\ f[1] \in Of(l, "file")
                /\ ~Hides(l, f[1])
  BY <1>2, <1>3, <1>4, Zenon DEF Flattened
<1>6. ASSUME NEW f
      PROVE  (\E p \in Of(l, "file") : f = <<p, l>>)
                <=> (f \in All /\ f[2] = l /\ f[1] \in Of(l, "file"))
  BY <1>1
<1>7. ASSUME NEW f
      PROVE  f \in Flattened(ls, n) <=> f \in All /\ \E i \in 1 .. n : LeavesFile(ls, n, i, f)
  BY DEF Flattened
<1>8. ASSUME NEW f
      PROVE  f \in ExtractLayer(Flattened(ls, n), l) <=> f \in Flattened(ls, n + 1)
  <2>. HIDE DEF l, All
  <2>1. f \in ExtractLayer(Flattened(ls, n), l) <=>
           /\ \/ f \in Flattened(ls, n) /\ f[1] \notin Of(l, "file")
              \/ \E p \in Of(l, "file") : f = <<p, l>>
           /\ ~Hides(l, f[1])
    BY LayerFile, Zenon
  <2>. QED BY <1>5, <1>6, <1>7, <2>1, Zenon
<1>. QED BY <1>8, Zenon

\* A tag that moves leaves what its reference has denoted.
LEMMA DenotedGrows ==
    ASSUME NEW reg, NEW new, NEW key, NEW fs,
           \A k \in Refs : reg[k] \in {Tagged[k], new[k]}
    PROVE  /\ \A d : DenotedIn(reg, d) \subseteq DenotedIn(new, d)
           /\ Serves(reg, key, fs) => Serves(new, key, fs)
<1>1. \A d : DenotedIn(reg, d) \subseteq DenotedIn(new, d)
  BY DEF DenotedIn
<1>. QED BY <1>1, Zenon DEF Serves

\* A reference denotes manifests.
LEMMA DenotedManifests ==
    ASSUME NEW reg \in [Refs -> Manifests], NEW d
    PROVE  DenotedIn(reg, d) \subseteq Manifests
BY ImageAssumption DEF DenotedIn

-----------------------------------------------------------------------------
\* What a step of request r leaves of req: the records of the others.
Moves(r) ==
    /\ req' = [s \in Requests |-> req'[s]]
    /\ \A s \in Requests : IsRequest(req'[s])
    /\ \A s \in Requests \ {r} : req'[s] = req[s]

\* Set writes the record of one request.
LEMMA SetMoves ==
    ASSUME Shapes, NEW r \in Requests, NEW f, IsRequest(f), Set(r, f)
    PROVE  Moves(r) /\ req'[r] = f
<1>1. req' = [s \in Requests |-> IF s = r THEN f ELSE req[s]]
  BY DEF Set, Shapes
<1>. QED BY <1>1 DEF Moves, Shapes

\* Goto changes no field but pc.
LEMMA GotoMoves ==
    ASSUME Shapes, NEW r \in Requests, NEW pc, Goto(r, pc)
    PROVE  /\ Moves(r)
           /\ req'[r] = [req[r] EXCEPT !.pc = pc]
           /\ req'[r].pc = pc /\ req'[r].ref = req[r].ref /\ req'[r].m = req[r].m
           /\ req'[r].i = req[r].i /\ req'[r].layers = req[r].layers
           /\ req'[r].key = req[r].key /\ req'[r].path = req[r].path
           /\ req'[r].ok = req[r].ok
<1>1. IsRequest([req[r] EXCEPT !.pc = pc])
  BY DEF Shapes, IsRequest
<1>2. Set(r, [req[r] EXCEPT !.pc = pc])
  BY DEF Goto, Set
<1>3. Moves(r) /\ req'[r] = [req[r] EXCEPT !.pc = pc]
  BY <1>1, <1>2, SetMoves, Zenon
<1>. QED BY <1>3 DEF Shapes, IsRequest

\* A pull that fails ends its request, or leaves it to the stub image.
LEMMA FailedMoves ==
    ASSUME Shapes, NEW r \in Requests, Failed(r)
    PROVE  /\ Moves(r)
           /\ req'[r].pc \in {"stub", "done"} /\ req'[r].ref = req[r].ref
           /\ req'[r].ok = FALSE
<1>. DEFINE pc == IF req[r].op = "create" THEN "stub" ELSE "done"
            f == [req[r] EXCEPT !.pc = pc, !.ok = FALSE]
<1>1. IsRequest(req[r])
  BY DEF Shapes
<1>2. IsRequest(f) /\ f.pc = pc /\ f.ref = req[r].ref /\ f.ok = FALSE
  <2>. HIDE DEF pc
  <2>. QED BY <1>1, Zenon DEF IsRequest
<1>3. Moves(r) /\ req'[r] = f
  <2>. HIDE DEF pc
  <2>1. Set(r, f)
    BY DEF Failed, pc
  <2>. QED BY <1>2, <2>1, SetMoves, Zenon
<1>. QED BY <1>2, <1>3

\* So does a conversion, which gives the mutex back.
LEMMA ConversionFailedMoves ==
    ASSUME Shapes, NEW r \in Requests, ConversionFailed(r)
    PROVE  /\ Moves(r) /\ puller' = 0
           /\ req'[r].pc \in {"stub", "done"} /\ req'[r].ref = req[r].ref
           /\ req'[r].ok = FALSE
<1>. DEFINE pc == IF req[r].op = "create" /\ req[r].ref \in LocalRefs THEN "stub" ELSE "done"
            f == [req[r] EXCEPT !.pc = pc, !.ok = FALSE]
<1>1. IsRequest(req[r])
  BY DEF Shapes
<1>2. IsRequest(f) /\ f.pc = pc /\ f.ref = req[r].ref /\ f.ok = FALSE
  <2>. HIDE DEF pc
  <2>. QED BY <1>1, Zenon DEF IsRequest
<1>3. Moves(r) /\ req'[r] = f
  <2>. HIDE DEF pc
  <2>1. Set(r, f)
    BY DEF ConversionFailed, pc
  <2>. QED BY <1>2, <2>1, SetMoves, Zenon
<1>. QED BY <1>2, <1>3 DEF ConversionFailed

\* A request that is not converting leaves the stores right.
LEMMA OutsideStored ==
    ASSUME Shapes, Stored, NEW r \in Requests, Moves(r), req'[r].pc \notin Converting,
           UNCHANGED <<registry, blobs, rootfs, cpio, tmpdir, puller>>,
           "rootfs" \in dirs' <=> "rootfs" \in dirs
    PROVE  Stored'
<1>1. BlobFilesWhole' /\ OneOverlay'
  BY DEF Stored, BlobFilesWhole, OneOverlay
<1>2. IndexHasFiles' /\ RootfsServes'
  BY DEF Stored, IndexHasFiles, RootfsServes
<1>3. ASSUME NEW s \in Requests, req'[s].pc \in Converting
      PROVE  s # r /\ req'[s] = req[s] /\ req[s].pc \in Converting
  BY <1>3 DEF Moves
<1>4. OneConverts'
  BY <1>3 DEF Stored, OneConverts
<1>5. Conversion'
  <2>. SUFFICES ASSUME NEW s \in Requests, req'[s].pc \in Converting
                PROVE  (KeyMatches(req[s]) /\ Unpacked(req[s]) /\ Archived(req[s]) /\ NotYetCached(req[s]))'
    BY DEF Conversion
  <2>1. req'[s] = req[s] /\ KeyMatches(req[s]) /\ Unpacked(req[s]) /\ Archived(req[s]) /\ NotYetCached(req[s])
    BY <1>3 DEF Stored, Conversion
  <2>2. KeyMatches(req[s])'
    BY <2>1 DEF KeyMatches
  <2>3. Unpacked(req[s])'
    BY <2>1 DEF Unpacked
  <2>4. Archived(req[s])' /\ NotYetCached(req[s])'
    BY <2>1 DEF Archived, NotYetCached
  <2>. QED BY <2>2, <2>3, <2>4
<1>. QED BY <1>1, <1>2, <1>4, <1>5 DEF Stored

\* A step keeps the names right if those of its request are.
LEMMA OutsideNamed ==
    ASSUME Named, NEW r \in Requests, Moves(r), LayoutShapes', LayoutsNameTags',
           UNCHANGED <<registry, blobs, rootfs, cpio, workload>>,
           req'[r].pc \notin {"idle", "crashed"} => req'[r].ref \in Refs,
           req'[r].pc \in Pulled =>
               \E m \in DenotedIn(registry, DirOf[req'[r].ref]) : req'[r].m = <<m>>,
           req'[r].ok => req'[r].pc = "done"
    PROVE  Named'
<1>1. Shapes'
  BY DEF Named, Shapes, StoreShapes, Moves
<1>2. TagsMoveOnce'
  BY DEF Named, TagsMoveOnce
<1>3. RequestsNameTags'
  BY DEF Named, RequestsNameTags, Moves
<1>. QED BY <1>1, <1>2, <1>3 DEF Named

\* The layout of directory d becomes x, which names what it named.
LEMMA LayoutKept ==
    ASSUME Named, NEW d \in Dirs, NEW x, IsLayout(x),
           oci' = [oci EXCEPT ![d] = x], UNCHANGED registry,
           x.index = oci[d].index, x.manifestJson = oci[d].manifestJson
    PROVE  LayoutShapes' /\ LayoutsNameTags'
<1>1. oci' = [e \in Dirs |-> IF e = d THEN x ELSE oci[e]]
  BY DEF Named, Shapes, LayoutShapes
<1>2. LayoutShapes'
  BY <1>1 DEF Named, Shapes, LayoutShapes
<1>3. \A e \in Dirs : oci'[e].index = oci[e].index /\ oci'[e].manifestJson = oci[e].manifestJson
  BY <1>1
<1>4. LayoutsNameTags'
  BY <1>3 DEF Named, LayoutsNameTags
<1>. QED BY <1>2, <1>4

\* Nothing happened to the layouts.
LEMMA SameLayouts ==
    ASSUME Named, UNCHANGED <<oci, registry>>
    PROVE  LayoutShapes' /\ LayoutsNameTags'
BY DEF Named, Shapes, LayoutShapes, LayoutsNameTags

\* create_dir_all on a layout directory.
LEMMA MadeDir ==
    ASSUME Named, NEW d \in Dirs, oci' = [oci EXCEPT ![d].dir = TRUE], UNCHANGED registry
    PROVE  LayoutShapes' /\ LayoutsNameTags'
<1>. DEFINE x == [oci[d] EXCEPT !.dir = TRUE]
<1>1. IsLayout(oci[d])
  BY DEF Named, Shapes, LayoutShapes
<1>2. IsLayout(x) /\ x.index = oci[d].index /\ x.manifestJson = oci[d].manifestJson
  BY <1>1, Zenon DEF IsLayout
<1>3. oci' = [oci EXCEPT ![d] = x]
  OBVIOUS
<1>. QED BY <1>2, <1>3, LayoutKept, Zenon

\* A failed pull is safe where the layouts still are.
LEMMA FailedSafe ==
    ASSUME Named, Stored, NEW r \in Requests, Failed(r), req[r].ref \in Refs,
           LayoutShapes', LayoutsNameTags',
           UNCHANGED <<registry, blobs, rootfs, cpio, tmpdir, puller, workload>>,
           "rootfs" \in dirs' <=> "rootfs" \in dirs
    PROVE  Named' /\ Stored'
<1>1. /\ Moves(r) /\ req'[r].pc \in {"stub", "done"} /\ req'[r].ref = req[r].ref
      /\ req'[r].ok = FALSE
  BY FailedMoves, Zenon DEF Named
<1>2. req'[r].pc \notin Converting /\ req'[r].pc \notin Pulled
  BY <1>1 DEF Converting, Pulled
<1>3. Named'
  BY <1>1, <1>2, OutsideNamed, Zenon
<1>4. Stored'
  BY <1>1, <1>2, OutsideStored, Zenon DEF Named
<1>. QED BY <1>3, <1>4

\* A request under way names a tag, and its layout is there.
LEMMA Known ==
    ASSUME Named, NEW r \in Requests, req[r].pc \notin {"idle", "crashed"}
    PROVE  /\ req[r].ref \in Refs /\ DirOf[req[r].ref] \in Dirs
           /\ req[r].pc # "done" => req[r].ok # TRUE
           /\ IsRequest(req[r]) /\ IsLayout(oci[DirOf[req[r].ref]])
BY Zenon DEF Named, Shapes, LayoutShapes, RequestsNameTags, Dirs

\* authenticate.
LEMMA AuthenticateSafe ==
    ASSUME Named, Stored, NEW r \in Requests, Authenticate(r)
    PROVE  Named' /\ Stored'
<1>1. /\ req[r].ref \in Refs /\ DirOf[req[r].ref] \in Dirs /\ req[r].ok # TRUE
      /\ req[r].pc = "auth"
  BY Known, Zenon DEF Authenticate
<1>2. LayoutShapes' /\ LayoutsNameTags'
  BY <1>1, MadeDir, Zenon DEF Authenticate
<1>3. /\ UNCHANGED <<registry, blobs, rootfs, cpio, tmpdir, puller, workload>>
      /\ "rootfs" \in dirs' <=> "rootfs" \in dirs
  BY Zenon DEF Authenticate, files
<1>4. CASE Failed(r)
  BY <1>1, <1>2, <1>3, <1>4, FailedSafe, Zenon
<1>5. CASE Goto(r, "manifest")
  <2>1. /\ Moves(r) /\ req'[r].pc = "manifest" /\ req'[r].ref = req[r].ref
        /\ req'[r].ok = req[r].ok
    BY <1>5, GotoMoves, Zenon DEF Named
  <2>2. req'[r].pc \notin Converting /\ req'[r].pc \notin Pulled
    BY <2>1 DEF Converting, Pulled
  <2>3. Named'
    BY <1>1, <1>2, <1>3, <2>1, <2>2, OutsideNamed, Zenon
  <2>. QED BY <1>3, <2>1, <2>2, <2>3, OutsideStored, Zenon DEF Named
<1>. QED BY <1>4, <1>5, Zenon DEF Authenticate

\* OutsideStored and OutsideNamed together.
LEMMA OutsideSafe ==
    ASSUME Named, Stored, NEW r \in Requests, Moves(r), LayoutShapes', LayoutsNameTags',
           UNCHANGED <<registry, blobs, rootfs, cpio, tmpdir, puller, workload>>,
           "rootfs" \in dirs' <=> "rootfs" \in dirs,
           req'[r].ref \in Refs, req'[r].pc \notin Converting,
           req'[r].pc \in Pulled =>
               \E m \in DenotedIn(registry, DirOf[req'[r].ref]) : req'[r].m = <<m>>,
           req'[r].ok => req'[r].pc = "done"
    PROVE  Named' /\ Stored'
<1>1. Named'
  BY OutsideNamed, Zenon
<1>2. Stored'
  BY OutsideStored, Zenon DEF Named
<1>. QED BY <1>1, <1>2

\* A request comes in.
LEMMA ArrivalSafe ==
    ASSUME Named, Stored, NEW r \in Requests, CreateSandbox(r) \/ PullImage(r)
    PROVE  Named' /\ Stored'
<1>. DEFINE ref == workload.ops[r].ref
            f(pc, op) == [req[r] EXCEPT !.pc = pc, !.op = op, !.ref = ref]
            g == [req[r] EXCEPT !.pc = "done", !.op = "pull", !.ref = ref,
                                !.path = images.mem[ref].path, !.ok = TRUE]
<1>1. ref \in Refs /\ req[r].pc = "idle"
  BY ImageAssumption DEF CreateSandbox, PullImage, Arrives, Named, Shapes
<1>2. IsRequest(req[r]) /\ req[r].ok # TRUE
  BY <1>1, Zenon DEF Named, Shapes, RequestsNameTags
<1>3. LayoutShapes' /\ LayoutsNameTags'
  BY SameLayouts, Zenon DEF CreateSandbox, PullImage
<1>4. /\ UNCHANGED <<registry, blobs, rootfs, cpio, tmpdir, puller, workload>>
      /\ "rootfs" \in dirs' <=> "rootfs" \in dirs
  BY Zenon DEF CreateSandbox, PullImage, files, stores
<1>5. \A op : FirstPc(ref, op) \notin Converting /\ FirstPc(ref, op) \notin Pulled
  BY DEF FirstPc, Converting, Pulled
<1>6. ASSUME NEW op, Set(r, f(FirstPc(ref, op), op))
      PROVE  Named' /\ Stored'
  <2>. DEFINE pc == FirstPc(ref, op)
  <2>. HIDE DEF pc, ref
  <2>1. IsRequest(f(pc, op)) /\ f(pc, op).pc = pc /\ f(pc, op).ref = ref /\ f(pc, op).ok = req[r].ok
    BY <1>2, Zenon DEF IsRequest
  <2>2. Set(r, f(pc, op))
    BY <1>6 DEF pc
  <2>3. Moves(r) /\ req'[r] = f(pc, op)
    BY <2>1, <2>2, SetMoves, Zenon DEF Named
  <2>. HIDE DEF f
  <2>. QED BY <1>1, <1>2, <1>3, <1>4, <1>5, <2>1, <2>3, OutsideSafe, Zenon DEF pc
<1>7. ASSUME Set(r, g)
      PROVE  Named' /\ Stored'
  <2>. HIDE DEF ref
  <2>1. IsRequest(g) /\ g.pc = "done" /\ g.ref = ref
    BY <1>2, Zenon DEF IsRequest
  <2>. HIDE DEF g
  <2>2. Moves(r) /\ req'[r] = g
    BY <1>7, <2>1, SetMoves, Zenon DEF Named
  <2>3. req'[r].pc \notin Converting /\ req'[r].pc \notin Pulled
    BY <2>1, <2>2 DEF Converting, Pulled
  <2>. QED BY <1>1, <1>3, <1>4, <2>1, <2>2, <2>3, OutsideSafe, Zenon
<1>. QED BY <1>6, <1>7, Zenon DEF CreateSandbox, PullImage

\* fetch_manifest: the request takes what the tag denotes now.
LEMMA FetchManifestSafe ==
    ASSUME Named, Stored, NEW r \in Requests, FetchManifest(r)
    PROVE  Named' /\ Stored'
<1>. DEFINE ref == req[r].ref
            f == [req[r] EXCEPT !.pc = "config", !.m = <<registry[req[r].ref]>>]
<1>1. /\ ref \in Refs /\ DirOf[ref] \in Dirs /\ req[r].ok # TRUE
      /\ req[r].pc = "manifest" /\ IsRequest(req[r])
  BY Known, Zenon DEF FetchManifest
<1>3. /\ UNCHANGED <<registry, blobs, rootfs, cpio, tmpdir, puller, workload>>
      /\ "rootfs" \in dirs' <=> "rootfs" \in dirs
  BY Zenon DEF FetchManifest, files
<1>4. CASE Failed(r) /\ UNCHANGED <<oci, dirs>>
  <2>1. LayoutShapes' /\ LayoutsNameTags'
    BY <1>3, <1>4, SameLayouts, Zenon
  <2>. QED BY <1>1, <1>3, <1>4, <2>1, FailedSafe, Zenon
<1>5. CASE Set(r, f) /\ oci' = [oci EXCEPT ![DirOf[ref]].dir = TRUE]
  <2>1. LayoutShapes' /\ LayoutsNameTags'
    BY <1>1, <1>3, <1>5, MadeDir, Zenon
  <2>2. IsRequest(f) /\ f.pc = "config" /\ f.ref = ref /\ f.m = <<registry[ref]>> /\ f.ok = req[r].ok
    BY <1>1, Zenon DEF IsRequest
  <2>3. Moves(r) /\ req'[r] = f
    BY <1>5, <2>2, SetMoves, Zenon DEF Named
  <2>4. registry[ref] \in DenotedIn(registry, DirOf[ref])
    BY <1>1 DEF DenotedIn
  <2>5. req'[r].pc \notin Converting
    BY <2>2, <2>3 DEF Converting
  <2>. HIDE DEF f
  <2>. QED BY <1>1, <1>3, <2>1, <2>2, <2>3, <2>4, <2>5, OutsideSafe, Zenon
<1>. QED BY <1>4, <1>5, Zenon DEF FetchManifest

\* A request that goes on pulling keeps its manifest.
LEMMA StillPulled ==
    ASSUME Named, Stored, NEW r \in Requests, req[r].pc \in Pulled, NEW f, IsRequest(f),
           Set(r, f), f.pc \in Pulled \union {"lock"},
           f.ref = req[r].ref, f.m = req[r].m, f.ok = req[r].ok,
           LayoutShapes', LayoutsNameTags',
           UNCHANGED <<registry, blobs, rootfs, cpio, tmpdir, puller, workload, dirs>>
    PROVE  Named' /\ Stored'
<1>1. Moves(r) /\ req'[r] = f
  BY SetMoves, Zenon DEF Named
<1>2. req[r].pc \notin {"idle", "crashed", "done"} /\ f.pc \notin Converting
  BY DEF Pulled, Converting
<1>3. req[r].ref \in Refs /\ req[r].ok # TRUE
  BY <1>2, Known, Zenon
<1>4. \E m \in DenotedIn(registry, DirOf[req[r].ref]) : req[r].m = <<m>>
  BY DEF Named, RequestsNameTags
<1>. QED BY <1>1, <1>2, <1>3, <1>4, OutsideSafe, Zenon

\* The config blob is fetched and written.
LEMMA FetchConfigSafe ==
    ASSUME Named, Stored, NEW r \in Requests, FetchConfig(r)
    PROVE  Named' /\ Stored'
<1>. DEFINE ref == req[r].ref
            d == DirOf[ref]
            m == req[r].m[1]
            f == [req[r] EXCEPT !.pc = "layer", !.i = 1]
            x == [oci[d] EXCEPT !.config = @ \union {m}]
<1>1. /\ ref \in Refs /\ d \in Dirs /\ req[r].pc = "config"
      /\ IsRequest(req[r]) /\ IsLayout(oci[d])
  BY Known, Zenon DEF FetchConfig
<1>2. UNCHANGED <<registry, blobs, rootfs, cpio, tmpdir, puller, workload, dirs>>
  BY Zenon DEF FetchConfig, files, stores
<1>3. CASE Failed(r) /\ UNCHANGED oci
  <2>1. LayoutShapes' /\ LayoutsNameTags'
    BY <1>2, <1>3, SameLayouts, Zenon
  <2>. QED BY <1>1, <1>2, <1>3, <2>1, FailedSafe, Zenon
<1>4. CASE Set(r, f) /\ (UNCHANGED oci \/ oci' = [oci EXCEPT ![d] = x])
  <2>1. IsLayout(x) /\ x.index = oci[d].index /\ x.manifestJson = oci[d].manifestJson
    BY <1>1, Zenon DEF IsLayout
  <2>2. LayoutShapes' /\ LayoutsNameTags'
    <3>. HIDE DEF x
    <3>. QED BY <1>1, <1>2, <1>4, <2>1, SameLayouts, LayoutKept
  <2>3. /\ IsRequest(f) /\ f.pc = "layer" /\ f.ref = ref /\ f.m = req[r].m
        /\ f.ok = req[r].ok
    BY <1>1, Zenon DEF IsRequest
  <2>4. f.pc \in Pulled /\ req[r].pc \in Pulled
    BY <1>1, <2>3 DEF Pulled
  <2>. HIDE DEF f
  <2>. QED BY <1>2, <1>4, <2>2, <2>3, <2>4, StillPulled, Zenon
<1>. QED BY <1>3, <1>4, Zenon DEF FetchConfig, VerifyAndWrite

\* The loop over the layers finds one on disk or goes to fetch it.
LEMMA NextLayerSafe ==
    ASSUME Named, Stored, NEW r \in Requests, NextLayer(r)
    PROVE  Named' /\ Stored'
<1>. DEFINE f(pc) == [req[r] EXCEPT !.pc = pc]
            g == [req[r] EXCEPT !.i = req[r].i + 1]
<1>1. req[r].ref \in Refs /\ req[r].pc = "layer" /\ IsRequest(req[r])
  BY Known, Zenon DEF NextLayer
<1>2. UNCHANGED <<registry, oci, blobs, rootfs, cpio, tmpdir, puller, workload, dirs>>
  BY Zenon DEF NextLayer, files, stores
<1>3. LayoutShapes' /\ LayoutsNameTags'
  BY <1>2, SameLayouts, Zenon
<1>4. CASE Failed(r)
  BY <1>1, <1>2, <1>3, <1>4, FailedSafe, Zenon
<1>5. req[r].pc \in Pulled
  BY <1>1 DEF Pulled
<1>6. ASSUME NEW pc \in {"index", "open"}, Goto(r, pc)
      PROVE  Named' /\ Stored'
  <2>1. /\ IsRequest(f(pc)) /\ f(pc).pc = pc /\ f(pc).ref = req[r].ref
        /\ f(pc).m = req[r].m /\ f(pc).ok = req[r].ok
    BY <1>1 DEF IsRequest
  <2>2. Set(r, f(pc))
    BY <1>6 DEF Goto, Set
  <2>3. f(pc).pc \in Pulled
    BY <2>1 DEF Pulled
  <2>. HIDE DEF f
  <2>. QED BY <1>2, <1>3, <1>5, <2>1, <2>2, <2>3, StillPulled, Zenon
<1>7. CASE Set(r, g)
  <2>1. IsRequest(g) /\ g.pc = "layer" /\ g.ref = req[r].ref /\ g.m = req[r].m /\ g.ok = req[r].ok
    BY <1>1 DEF IsRequest
  <2>2. g.pc \in Pulled
    BY <2>1 DEF Pulled
  <2>. HIDE DEF g
  <2>. QED BY <1>2, <1>3, <1>5, <1>7, <2>1, <2>2, StillPulled, Zenon
<1>. QED BY <1>4, <1>6, <1>7, Zenon DEF NextLayer

\* stream_blob creates its temporary file.
LEMMA OpenTmpSafe ==
    ASSUME Named, Stored, NEW r \in Requests, OpenTmp(r)
    PROVE  Named' /\ Stored'
<1>. DEFINE ref == req[r].ref
            d == DirOf[ref]
<1>1. /\ ref \in Refs /\ d \in Dirs /\ req[r].pc = "open"
      /\ IsRequest(req[r]) /\ IsLayout(oci[d])
  BY Known, Zenon DEF OpenTmp
<1>2. UNCHANGED <<registry, blobs, rootfs, cpio, tmpdir, puller, workload, dirs>>
  BY Zenon DEF OpenTmp, files, stores
<1>3. CASE Failed(r) /\ UNCHANGED oci
  <2>1. LayoutShapes' /\ LayoutsNameTags'
    BY <1>2, <1>3, SameLayouts, Zenon
  <2>. QED BY <1>1, <1>2, <1>3, <2>1, FailedSafe, Zenon
<1>4. ASSUME NEW tmp, NEW ino, NEW good,
             oci' = [oci EXCEPT ![d] = [@ EXCEPT !.tmp = tmp]],
             Set(r, [req[r] EXCEPT !.pc = "stream", !.tmp = <<ino>>, !.at = 0, !.good = good])
      PROVE  Named' /\ Stored'
  <2>. DEFINE x == [oci[d] EXCEPT !.tmp = tmp]
              f == [req[r] EXCEPT !.pc = "stream", !.tmp = <<ino>>, !.at = 0, !.good = good]
  <2>1. IsLayout(x) /\ x.index = oci[d].index /\ x.manifestJson = oci[d].manifestJson
    BY <1>1 DEF IsLayout
  <2>2. LayoutShapes' /\ LayoutsNameTags'
    <3>1. oci' = [oci EXCEPT ![d] = x]
      BY <1>4
    <3>. HIDE DEF x
    <3>. QED BY <1>1, <1>2, <2>1, <3>1, LayoutKept, Zenon
  <2>3. IsRequest(f) /\ f.pc = "stream" /\ f.ref = ref /\ f.m = req[r].m /\ f.ok = req[r].ok
    BY <1>1, Zenon DEF IsRequest
  <2>4. f.pc \in Pulled /\ req[r].pc \in Pulled
    BY <1>1, <2>3 DEF Pulled
  <2>. HIDE DEF f
  <2>. QED BY <1>2, <1>4, <2>2, <2>3, <2>4, StillPulled, Zenon DEF f
<1>. QED BY <1>3, <1>4, Zenon DEF OpenTmp

\* stream_blob writes one chunk.
LEMMA StreamChunkSafe ==
    ASSUME Named, Stored, NEW r \in Requests, StreamChunk(r)
    PROVE  Named' /\ Stored'
<1>. DEFINE f == [req[r] EXCEPT !.at = req[r].at + 1]
<1>1. req[r].ref \in Refs /\ req[r].pc = "stream" /\ IsRequest(req[r])
  BY Known, Zenon DEF StreamChunk
<1>2. UNCHANGED <<registry, oci, blobs, rootfs, cpio, tmpdir, puller, workload, dirs>>
  BY Zenon DEF StreamChunk, files, stores
<1>3. LayoutShapes' /\ LayoutsNameTags'
  BY <1>2, SameLayouts, Zenon
<1>4. CASE Failed(r)
  BY <1>1, <1>2, <1>3, <1>4, FailedSafe, Zenon
<1>5. CASE Set(r, f)
  <2>1. IsRequest(f) /\ f.pc = "stream" /\ f.ref = req[r].ref /\ f.m = req[r].m /\ f.ok = req[r].ok
    BY <1>1 DEF IsRequest
  <2>2. f.pc \in Pulled /\ req[r].pc \in Pulled
    BY <1>1, <2>1 DEF Pulled
  <2>. HIDE DEF f
  <2>. QED BY <1>2, <1>3, <1>5, <2>1, <2>2, StillPulled, Zenon
<1>. QED BY <1>4, <1>5, Zenon DEF StreamChunk

\* stream_blob checks the digest and renames.
LEMMA FinishStreamSafe ==
    ASSUME Named, Stored, NEW r \in Requests, FinishStream(r)
    PROVE  Named' /\ Stored'
<1>. DEFINE ref == req[r].ref
            d == DirOf[ref]
            f == [req[r] EXCEPT !.pc = "layer", !.i = req[r].i + 1]
            x(tmp) == [oci[d] EXCEPT !.tmp = tmp]
            y(tmp, layer) == [oci[d] EXCEPT !.tmp = tmp, !.layer = layer]
<1>1. /\ ref \in Refs /\ d \in Dirs /\ req[r].pc = "stream"
      /\ IsRequest(req[r]) /\ IsLayout(oci[d])
  BY Known, Zenon DEF FinishStream
<1>2. UNCHANGED <<registry, blobs, rootfs, cpio, tmpdir, puller, workload, dirs>>
  BY Zenon DEF FinishStream, files, stores
<1>3. CASE Failed(r) /\ UNCHANGED oci
  <2>1. LayoutShapes' /\ LayoutsNameTags'
    BY <1>2, <1>3, SameLayouts, Zenon
  <2>. QED BY <1>1, <1>2, <1>3, <2>1, FailedSafe, Zenon
<1>4. ASSUME Failed(r), NEW tmp, oci' = [oci EXCEPT ![d] = x(tmp)]
      PROVE  Named' /\ Stored'
  <2>1. IsLayout(x(tmp)) /\ x(tmp).index = oci[d].index /\ x(tmp).manifestJson = oci[d].manifestJson
    BY <1>1 DEF IsLayout
  <2>2. LayoutShapes' /\ LayoutsNameTags'
    <3>. HIDE DEF x
    <3>. QED BY <1>1, <1>2, <1>4, <2>1, LayoutKept, Zenon
  <2>. QED BY <1>1, <1>2, <1>4, <2>2, FailedSafe, Zenon
<1>5. ASSUME Set(r, f), NEW tmp, NEW layer, oci' = [oci EXCEPT ![d] = y(tmp, layer)]
      PROVE  Named' /\ Stored'
  <2>1. /\ IsLayout(y(tmp, layer)) /\ y(tmp, layer).index = oci[d].index
        /\ y(tmp, layer).manifestJson = oci[d].manifestJson
    BY <1>1, Zenon DEF IsLayout
  <2>2. LayoutShapes' /\ LayoutsNameTags'
    <3>. HIDE DEF y
    <3>. QED BY <1>1, <1>2, <1>5, <2>1, LayoutKept, Zenon
  <2>3. IsRequest(f) /\ f.pc = "layer" /\ f.ref = ref /\ f.m = req[r].m /\ f.ok = req[r].ok
    BY <1>1, Zenon DEF IsRequest
  <2>4. f.pc \in Pulled /\ req[r].pc \in Pulled
    BY <1>1, <2>3 DEF Pulled
  <2>. HIDE DEF f
  <2>. QED BY <1>2, <1>5, <2>2, <2>3, <2>4, StillPulled, Zenon
<1>. QED BY <1>3, <1>4, <1>5, Zenon DEF FinishStream

\* A create whose image is not to be had boots the stub.
LEMMA StubImageSafe ==
    ASSUME Named, Stored, NEW r \in Requests, StubImage(r)
    PROVE  Named' /\ Stored'
<1>1. req[r].ref \in Refs /\ req[r].pc = "stub" /\ req[r].ok # TRUE
  BY Known, Zenon DEF StubImage
<1>2. /\ UNCHANGED <<registry, oci, blobs, rootfs, cpio, tmpdir, puller, workload>>
      /\ "rootfs" \in dirs' <=> "rootfs" \in dirs
  BY Zenon DEF StubImage, files
<1>3. LayoutShapes' /\ LayoutsNameTags'
  BY <1>2, SameLayouts, Zenon
<1>4. Moves(r) /\ req'[r].pc = "done" /\ req'[r].ref = req[r].ref
  BY GotoMoves, Zenon DEF Named, StubImage
<1>5. req'[r].pc \notin Converting /\ req'[r].pc \notin Pulled
  BY <1>4 DEF Converting, Pulled
<1>. QED BY <1>1, <1>2, <1>3, <1>4, <1>5, OutsideSafe, Zenon

\* The two files that name the image are written.
LEMMA WriteIndexSafe ==
    ASSUME Named, Stored, NEW r \in Requests, WriteIndex(r) \/ WriteManifestJson(r)
    PROVE  Named' /\ Stored'
<1>. DEFINE ref == req[r].ref
            d == DirOf[ref]
            f(pc) == [req[r] EXCEPT !.pc = pc]
<1>1. /\ ref \in Refs /\ d \in Dirs /\ req[r].pc \in {"index", "manifest.json"}
      /\ IsRequest(req[r]) /\ IsLayout(oci[d])
  BY Known, Zenon DEF WriteIndex, WriteManifestJson
<1>2. UNCHANGED <<registry, blobs, rootfs, cpio, tmpdir, puller, workload, dirs>>
  BY Zenon DEF WriteIndex, WriteManifestJson, files, stores
<1>3. CASE Failed(r) /\ UNCHANGED oci
  <2>1. LayoutShapes' /\ LayoutsNameTags'
    BY <1>2, <1>3, SameLayouts, Zenon
  <2>. QED BY <1>1, <1>2, <1>3, <2>1, FailedSafe, Zenon
<1>4. req[r].pc \in Pulled
  BY <1>1 DEF Pulled
<1>5. PICK m \in DenotedIn(registry, d) : req[r].m = <<m>>
  BY <1>4 DEF Named, RequestsNameTags
<1>6. m \in Manifests
  BY DenotedManifests DEF Named, Shapes
<1>7. ASSUME NEW x, IsLayout(x), oci' = [oci EXCEPT ![d] = x],
             x.index # None => \E n \in DenotedIn(registry, d) : x.index = <<n>>,
             x.manifestJson # None =>
               \E k \in Refs : \E n \in Manifests : DirOf[k] = d /\ x.manifestJson = <<k, n>>
      PROVE  LayoutShapes' /\ LayoutsNameTags'
  <2>1. oci' = [e \in Dirs |-> IF e = d THEN x ELSE oci[e]]
    BY <1>1, <1>7 DEF Named, Shapes, LayoutShapes
  <2>2. LayoutShapes'
    BY <1>7, <2>1 DEF Named, Shapes, LayoutShapes
  <2>3. oci'[d] = x /\ \A e \in Dirs \ {d} : oci'[e] = oci[e]
    BY <1>1, <2>1
  <2>4. LayoutsNameTags'
    BY <1>2, <1>7, <2>3 DEF Named, LayoutsNameTags
  <2>. QED BY <2>2, <2>4
<1>8. ASSUME NEW pc \in {"manifest.json", "lock"}, Goto(r, pc), LayoutShapes', LayoutsNameTags'
      PROVE  Named' /\ Stored'
  <2>1. /\ IsRequest(f(pc)) /\ f(pc).pc = pc /\ f(pc).ref = ref
        /\ f(pc).m = req[r].m /\ f(pc).ok = req[r].ok
    BY <1>1 DEF IsRequest
  <2>2. Set(r, f(pc))
    BY <1>8 DEF Goto, Set
  <2>3. f(pc).pc \in Pulled \union {"lock"}
    BY <2>1 DEF Pulled
  <2>. HIDE DEF f
  <2>. QED BY <1>2, <1>4, <1>8, <2>1, <2>2, <2>3, StillPulled, Zenon
<1>9. /\ oci[d].index # None => \E n \in DenotedIn(registry, d) : oci[d].index = <<n>>
      /\ oci[d].manifestJson # None =>
           \E k \in Refs : \E n \in Manifests : DirOf[k] = d /\ oci[d].manifestJson = <<k, n>>
  BY <1>1, Zenon DEF Named, LayoutsNameTags
<1>10. CASE WriteIndex(r) /\ ~(Failed(r) /\ UNCHANGED oci)
  <2>. DEFINE x == [oci[d] EXCEPT !.index = req[r].m]
  <2>1. IsLayout(x) /\ x.index = req[r].m /\ x.manifestJson = oci[d].manifestJson
    BY <1>1 DEF IsLayout
  <2>2. oci' = [oci EXCEPT ![d] = x] /\ Goto(r, "manifest.json")
    BY <1>10 DEF WriteIndex
  <2>. HIDE DEF x
  <2>3. LayoutShapes' /\ LayoutsNameTags'
    BY <1>5, <1>7, <1>9, <2>1, <2>2, Zenon
  <2>. QED BY <1>8, <2>2, <2>3, Zenon
<1>11. CASE WriteManifestJson(r) /\ ~(Failed(r) /\ UNCHANGED oci)
  <2>. DEFINE x == [oci[d] EXCEPT !.manifestJson = <<ref, req[r].m[1]>>]
  <2>1. IsLayout(x) /\ x.index = oci[d].index /\ x.manifestJson = <<ref, req[r].m[1]>>
    BY <1>1 DEF IsLayout
  <2>2. oci' = [oci EXCEPT ![d] = x] /\ Goto(r, "lock")
    BY <1>11 DEF WriteManifestJson
  <2>. HIDE DEF x
  <2>3. req[r].m[1] = m
    BY <1>5
  <2>4. LayoutShapes' /\ LayoutsNameTags'
    <3>1. \E k \in Refs : \E n \in Manifests : DirOf[k] = d /\ x.manifestJson = <<k, n>>
      BY <1>1, <1>6, <2>1, <2>3, Zenon
    <3>. QED BY <1>7, <1>9, <2>1, <2>2, <3>1, Zenon
  <2>. QED BY <1>8, <2>2, <2>4, Zenon
<1>. QED BY <1>3, <1>10, <1>11

-----------------------------------------------------------------------------
(***************************************************************************)
(* The conversion of a layout to a rootfs archive keeps the invariant. Its *)
(* steps run under the mutex of the puller, so that no other request is    *)
(* converting (OneConverts) and what InsideSafe asks of a step is only     *)
(* that the stores are right and the progress of the one conversion is.    *)
(***************************************************************************)

\* A step of the conversion that holds the mutex: what is left to show is
\* about the stores and its own progress.
LEMMA InsideSafe ==
    ASSUME Named, Stored, NEW r \in Requests, req[r].pc \in Converting, Moves(r),
           UNCHANGED <<registry, oci, workload>>, StoreShapes',
           BlobFilesWhole', IndexHasFiles', RootfsServes', OneOverlay',
           req'[r].ref = req[r].ref,
           req'[r].pc \in Converting \union {"stub", "done"},
           req'[r].ok => req'[r].pc = "done",
           req'[r].pc \in Converting =>
              /\ puller' = r /\ req'[r].key = req[r].key /\ req'[r].layers = req[r].layers
              /\ Unpacked(req[r])' /\ Archived(req[r])' /\ NotYetCached(req[r])'
    PROVE  Named' /\ Stored'
<1>1. LayoutShapes' /\ LayoutsNameTags'
  BY SameLayouts, Zenon
<1>2. Shapes'
  BY <1>1 DEF Named, Shapes, Moves
<1>3. TagsMoveOnce'
  BY DEF Named, TagsMoveOnce
<1>4. RequestsNameTags'
  <2>1. req[r].ref \in Refs
    BY Known, Zenon DEF Converting
  <2>2. req'[r].pc \notin Pulled
    BY DEF Pulled, Converting
  <2>. QED BY <2>1, <2>2 DEF Named, RequestsNameTags, Moves
<1>5. puller = r
  BY DEF Stored, OneConverts
<1>6. \A s \in Requests \ {r} : req'[s].pc \notin Converting
  BY <1>5 DEF Stored, OneConverts, Moves
<1>7. OneConverts'
  BY <1>6 DEF OneConverts
<1>8. ASSUME req'[r].pc \in Converting
      PROVE  KeyMatches(req[r])'
  <2>1. KeyMatches(req[r])
    BY DEF Stored, Conversion
  <2>. QED BY <1>8, <2>1 DEF KeyMatches
<1>9. Conversion'
  BY <1>6, <1>8 DEF Conversion
<1>. QED BY <1>1, <1>2, <1>3, <1>4, <1>7, <1>9, Zenon DEF Named, Stored

\* A conversion that fails changes no store.
LEMMA ConversionFailedSafe ==
    ASSUME Named, Stored, NEW r \in Requests, req[r].pc \in Converting, ConversionFailed(r),
           UNCHANGED <<registry, oci, workload, stores, cpio>>
    PROVE  Named' /\ Stored'
<1>1. /\ Moves(r) /\ req'[r].pc \in {"stub", "done"} /\ req'[r].ref = req[r].ref
      /\ req'[r].ok = FALSE
  BY ConversionFailedMoves, Zenon DEF Named
<1>2. UNCHANGED <<blobs, rootfs, dirs, cpio>>
  BY Zenon DEF stores
<1>3. StoreShapes' /\ BlobFilesWhole' /\ OneOverlay'
  BY <1>2 DEF Named, Stored, Shapes, StoreShapes, BlobFilesWhole, OneOverlay
<1>4. IndexHasFiles' /\ RootfsServes'
  BY <1>2 DEF Stored, IndexHasFiles, RootfsServes
<1>5. req'[r].pc \notin Converting
  BY <1>1 DEF Converting
<1>. QED BY <1>1, <1>3, <1>4, <1>5, InsideSafe

\* An L2 hit: the archive is copied out of the cache.
LEMMA CloneRootfsSafe ==
    ASSUME Named, Stored, NEW r \in Requests, CloneRootfs(r)
    PROVE  Named' /\ Stored'
<1>. DEFINE key == req[r].key
            path == CachedPath(key)
            f == [req[r] EXCEPT !.pc = "inject", !.path = path]
<1>1. req[r].pc = "l2" /\ key \in rootfs.mem /\ key \in DOMAIN rootfs.file
  BY Zenon DEF CloneRootfs, RootfsContains
<1>2. req[r].pc \in Converting /\ IsRequest(req[r]) /\ req[r].ok # TRUE
  BY <1>1, Known, Zenon DEF Converting
<1>3. /\ UNCHANGED <<registry, oci, workload, blobs, dirs, puller>> /\ Set(r, f)
      /\ rootfs' = [rootfs EXCEPT !.disk = rootfs.mem]
      /\ cpio' = Put(cpio, path, rootfs.file[key])
  BY Zenon DEF CloneRootfs, FlushRootfs, CloneFile
<1>4. /\ IsRequest(f) /\ f.pc = "inject" /\ f.path = path /\ f.ref = req[r].ref
      /\ f.key = key /\ f.layers = req[r].layers /\ f.ok = req[r].ok
  <2>. HIDE DEF path
  <2>. QED BY <1>2, Zenon DEF IsRequest
<1>5. Moves(r) /\ req'[r] = f
  <2>. HIDE DEF f
  <2>. QED BY <1>3, <1>4, SetMoves, Zenon DEF Named
<1>. HIDE DEF f, path
<1>6. /\ IsStore(rootfs') /\ rootfs'.mem = rootfs.mem /\ rootfs'.disk = rootfs.mem
      /\ rootfs'.file = rootfs.file
  BY <1>3 DEF Named, Shapes, StoreShapes, IsStore
<1>7. /\ cpio' = [p \in DOMAIN cpio' |-> cpio'[p]]
      /\ DOMAIN cpio' = DOMAIN cpio \union {path} /\ cpio'[path] = rootfs.file[key]
      /\ \A p \in DOMAIN cpio \ {path} : cpio'[p] = cpio[p]
  BY <1>3 DEF Put
<1>8. rootfs.file[key].inj = <<>> /\ Serves(registry, key, rootfs.file[key].base)
  BY <1>1, Zenon DEF Stored, RootfsServes
<1>9. StoreShapes'
  BY <1>1, <1>3, <1>6, <1>7 DEF Named, Shapes, StoreShapes
<1>10. BlobFilesWhole'
  BY <1>3 DEF Stored, BlobFilesWhole
<1>11. IndexHasFiles' /\ RootfsServes'
  BY <1>1, <1>3, <1>6 DEF Stored, IndexHasFiles, RootfsServes
<1>12. OneOverlay'
  BY <1>7, <1>8 DEF Stored, OneOverlay, Range
<1>13. puller' = r
  BY <1>2, <1>3 DEF Stored, OneConverts
<1>14. Unpacked(req[r])' /\ Archived(req[r])' /\ NotYetCached(req[r])'
  BY <1>3, <1>4, <1>5, <1>7, <1>8, Zenon DEF Unpacked, Archived, NotYetCached
<1>15. req'[r].pc \in Converting
  BY <1>4, <1>5 DEF Converting
<1>. QED BY <1>2, <1>3, <1>4, <1>5, <1>9, <1>10, <1>11, <1>12, <1>13, <1>14, <1>15, InsideSafe, Zenon

\* A step of a conversion that leaves the stores and the archives alone.
LEMMA StoresSame ==
    ASSUME Named, Stored, UNCHANGED <<registry, blobs, rootfs, cpio>>,
           "rootfs" \in dirs' <=> "rootfs" \in dirs
    PROVE  StoreShapes' /\ BlobFilesWhole' /\ IndexHasFiles' /\ RootfsServes' /\ OneOverlay'
<1>1. StoreShapes' /\ BlobFilesWhole' /\ OneOverlay'
  BY DEF Named, Stored, Shapes, StoreShapes, BlobFilesWhole, OneOverlay
<1>2. IndexHasFiles' /\ RootfsServes'
  BY DEF Stored, IndexHasFiles, RootfsServes
<1>. QED BY <1>1, <1>2

\* What is known of a request in a conversion.
LEMMA InConversion ==
    ASSUME Named, Stored, NEW r \in Requests, req[r].pc \in Converting
    PROVE  /\ IsRequest(req[r]) /\ req[r].ok # TRUE /\ puller = r
           /\ req[r].layers \in Seq(Layers)
           /\ Unpacked(req[r]) /\ Archived(req[r]) /\ NotYetCached(req[r])
<1>1. IsRequest(req[r]) /\ req[r].ok # TRUE
  BY Known, Zenon DEF Converting
<1>2. puller = r
  BY DEF Stored, OneConverts
<1>3. KeyMatches(req[r]) /\ Unpacked(req[r]) /\ Archived(req[r]) /\ NotYetCached(req[r])
  BY DEF Stored, Conversion
<1>4. req[r].layers \in Seq(Layers)
  <2>1. PICK x \in DenotedIn(registry, DirOf[req[r].ref]) : req[r].layers = LayersOf[x]
    BY <1>3 DEF KeyMatches
  <2>2. x \in Manifests
    BY DenotedManifests DEF Named, Shapes
  <2>. QED BY <2>1, <2>2, ImageAssumption
<1>. QED BY <1>1, <1>2, <1>3, <1>4, Zenon

\* The extraction directory is removed and made anew.
LEMMA StartExtractSafe ==
    ASSUME Named, Stored, NEW r \in Requests, StartExtract(r)
    PROVE  Named' /\ Stored'
<1>. DEFINE f == [req[r] EXCEPT !.pc = "extract", !.i = 1]
<1>1. req[r].pc = "l2" /\ ~(req[r].key \in rootfs.mem /\ req[r].key \in DOMAIN rootfs.file)
  BY Zenon DEF StartExtract, RootfsContains
<1>2. req[r].pc \in Converting
  BY <1>1 DEF Converting
<1>3. /\ UNCHANGED <<registry, oci, workload, blobs, rootfs, cpio, puller>> /\ Set(r, f)
      /\ tmpdir' = <<{}>> /\ dirs' = dirs \union {"images"}
  BY Zenon DEF StartExtract
<1>4. "rootfs" \in dirs' <=> "rootfs" \in dirs
  BY <1>3
<1>5. /\ IsRequest(req[r]) /\ req[r].ok # TRUE /\ puller = r /\ req[r].layers \in Seq(Layers)
  BY <1>2, InConversion, Zenon
<1>6. /\ IsRequest(f) /\ f.pc = "extract" /\ f.i = 1 /\ f.ref = req[r].ref
      /\ f.key = req[r].key /\ f.layers = req[r].layers /\ f.ok = req[r].ok
  BY <1>5, Zenon DEF IsRequest
<1>. HIDE DEF f
<1>7. Moves(r) /\ req'[r] = f
  BY <1>3, <1>6, SetMoves, Zenon DEF Named
<1>8. StoreShapes' /\ BlobFilesWhole' /\ IndexHasFiles' /\ RootfsServes' /\ OneOverlay'
  BY <1>3, <1>4, StoresSame, Zenon
<1>9. Unpacked(req[r])'
  <2>1. 1 \in 1 .. Len(f.layers) + 1 /\ 1 - 1 = 0
    BY <1>5, <1>6
  <2>2. tmpdir' = <<Flattened(f.layers, 0)>>
    BY <1>3, FlattenedNone
  <2>. QED BY <1>6, <1>7, <2>1, <2>2 DEF Unpacked
<1>10. NotYetCached(req[r])'
  BY <1>1, <1>3, <1>4, <1>6, <1>7 DEF NotYetCached, Stored, IndexHasFiles
<1>11. Archived(req[r])'
  BY <1>6, <1>7 DEF Archived
<1>12. req'[r].pc \in Converting
  BY <1>6, <1>7 DEF Converting
<1>. QED BY <1>2, <1>3, <1>5, <1>6, <1>7, <1>8, <1>9, <1>10, <1>11, <1>12, InsideSafe, Zenon

\* The arithmetic of the loop over the layers.
LEMMA NextIndex ==
    ASSUME NEW len \in Nat, NEW i \in 1 .. len + 1, ~(i > len), NEW j, j = i + 1
    PROVE  /\ i - 1 \in Nat /\ i - 1 < len /\ i = (i - 1) + 1
           /\ j \in 1 .. len + 1 /\ j - 1 = (i - 1) + 1
OBVIOUS

\* A layer is extracted.
LEMMA ExtractSafe ==
    ASSUME Named, Stored, NEW r \in Requests, Extract(r)
    PROVE  Named' /\ Stored'
<1>. DEFINE ls == req[r].layers
            f == [req[r] EXCEPT !.pc = "l1", !.i = 1]
            g == [req[r] EXCEPT !.i = req[r].i + 1]
<1>1. req[r].pc = "extract" /\ req[r].pc \in Converting
  BY Zenon DEF Extract, Converting
<1>2. /\ UNCHANGED <<registry, oci, workload, stores, cpio>>
      /\ UNCHANGED <<registry, oci, workload, blobs, rootfs, cpio, dirs>>
  BY Zenon DEF Extract, stores
<1>3. /\ IsRequest(req[r]) /\ req[r].ok # TRUE /\ puller = r /\ ls \in Seq(Layers)
      /\ Unpacked(req[r]) /\ NotYetCached(req[r])
  BY <1>1, InConversion, Zenon
<1>4. /\ req[r].i \in 1 .. Len(ls) + 1
      /\ tmpdir # Absent => tmpdir = <<Flattened(ls, req[r].i - 1)>>
  BY <1>1, <1>3, Zenon DEF Unpacked
<1>5. StoreShapes' /\ BlobFilesWhole' /\ IndexHasFiles' /\ RootfsServes' /\ OneOverlay'
  BY <1>2, StoresSame, Zenon
<1>6. CASE ConversionFailed(r)
  BY <1>1, <1>2, <1>6, ConversionFailedSafe, Zenon
<1>7. CASE req[r].i > Len(ls) /\ Set(r, f) /\ UNCHANGED <<tmpdir, puller>>
  <2>1. /\ IsRequest(f) /\ f.pc = "l1" /\ f.ref = req[r].ref
        /\ f.key = req[r].key /\ f.layers = ls /\ f.ok = req[r].ok
    BY <1>3, Zenon DEF IsRequest
  <2>. HIDE DEF f
  <2>2. Moves(r) /\ req'[r] = f
    BY <1>7, <2>1, SetMoves, Zenon DEF Named
  <2>3. req[r].i - 1 = Len(ls)
    BY <1>3, <1>4, <1>7
  <2>4. Unpacked(req[r])' /\ Archived(req[r])'
    BY <1>4, <1>7, <2>1, <2>2, <2>3 DEF Unpacked, Archived
  <2>5. NotYetCached(req[r])'
    BY <1>1, <1>2, <1>3, <2>1, <2>2 DEF NotYetCached
  <2>6. req'[r].pc \in Converting
    BY <2>1, <2>2 DEF Converting
  <2>. QED BY <1>1, <1>2, <1>3, <1>5, <1>7, <2>1, <2>2, <2>4, <2>5, <2>6, InsideSafe, Zenon
<1>8. CASE /\ ~(req[r].i > Len(ls)) /\ tmpdir # Absent
           /\ tmpdir' = <<ExtractLayer(tmpdir[1], ls[req[r].i])>>
           /\ Set(r, g) /\ UNCHANGED puller
  <2>1. /\ IsRequest(g) /\ g.pc = req[r].pc /\ g.ref = req[r].ref /\ g.i = req[r].i + 1
        /\ g.key = req[r].key /\ g.layers = ls /\ g.ok = req[r].ok
    BY <1>3 DEF IsRequest
  <2>. HIDE DEF g
  <2>2. Moves(r) /\ req'[r] = g
    BY <1>8, <2>1, SetMoves, Zenon DEF Named
  <2>. DEFINE n == req[r].i - 1
  <2>3. Len(ls) \in Nat
    BY <1>3
  <2>4. /\ n \in Nat /\ n < Len(ls) /\ req[r].i = n + 1
        /\ g.i \in 1 .. Len(ls) + 1 /\ g.i - 1 = n + 1
    BY <1>4, <1>8, <2>1, <2>3, NextIndex, Zenon
  <2>. HIDE DEF n
  <2>5. tmpdir[1] = Flattened(ls, n)
    BY <1>4, <1>8 DEF n
  <2>6. tmpdir' = <<Flattened(ls, n + 1)>>
    BY <1>3, <1>8, <2>4, <2>5, ExtractStep
  <2>7. Unpacked(req[r])' /\ Archived(req[r])'
    BY <1>1, <2>1, <2>2, <2>4, <2>6 DEF Unpacked, Archived
  <2>8. NotYetCached(req[r])'
    BY <1>1, <1>2, <1>3, <2>1, <2>2 DEF NotYetCached
  <2>. QED BY <1>1, <1>2, <1>3, <1>5, <1>8, <2>1, <2>2, <2>7, <2>8, InsideSafe, Zenon
<1>. QED BY <1>6, <1>7, <1>8, Zenon DEF Extract

\* L1 changes, and every file in it is still whole; nothing else does.
LEMMA BlobStepSafe ==
    ASSUME Named, Stored, NEW r \in Requests, req[r].pc \in {"l1", "l1flush"},
           NEW f, IsRequest(f), Set(r, f), f.pc \in {"l1", "l1flush", "cpio"},
           f.ref = req[r].ref, f.key = req[r].key, f.layers = req[r].layers, f.ok = req[r].ok,
           IsStore(blobs'), BlobFilesWhole',
           UNCHANGED <<registry, oci, workload, rootfs, dirs, cpio, tmpdir, puller>>
    PROVE  Named' /\ Stored'
<1>1. req[r].pc \in Converting
  BY DEF Converting
<1>2. req[r].ok # TRUE /\ puller = r /\ Unpacked(req[r]) /\ NotYetCached(req[r])
  BY <1>1, InConversion, Zenon
<1>3. Moves(r) /\ req'[r] = f
  BY SetMoves, Zenon DEF Named
<1>4. StoreShapes' /\ IndexHasFiles' /\ RootfsServes' /\ OneOverlay'
  <2>1. StoreShapes' /\ OneOverlay'
    BY DEF Named, Stored, Shapes, StoreShapes, OneOverlay
  <2>2. IndexHasFiles' /\ RootfsServes'
    BY DEF Stored, IndexHasFiles, RootfsServes
  <2>. QED BY <2>1, <2>2
<1>5. Unpacked(req[r])' /\ Archived(req[r])' /\ NotYetCached(req[r])'
  BY <1>2, <1>3 DEF Unpacked, Archived, NotYetCached
<1>6. req'[r].pc \in Converting
  BY <1>3 DEF Converting
<1>. QED BY <1>1, <1>2, <1>3, <1>4, <1>5, <1>6, InsideSafe, Zenon

\* A layer goes into L1.
LEMMA InsertBlobSafe ==
    ASSUME Named, Stored, NEW r \in Requests, InsertBlob(r)
    PROVE  Named' /\ Stored'
<1>. DEFINE ls == req[r].layers
            l == ls[req[r].i]
            have == oci[DirOf[req[r].ref]].layer
            f(pc) == [req[r] EXCEPT !.pc = pc]
            g == [req[r] EXCEPT !.i = req[r].i + 1]
<1>1. req[r].pc = "l1" /\ req[r].pc \in Converting
  BY Zenon DEF InsertBlob, Converting
<1>2. UNCHANGED <<registry, oci, workload, rootfs, dirs, cpio, tmpdir, puller>>
  BY Zenon DEF InsertBlob, files
<1>3. IsRequest(req[r])
  BY <1>1, InConversion, Zenon
<1>4. IsStore(blobs) /\ BlobFilesWhole
  BY Zenon DEF Named, Stored, Shapes, StoreShapes
<1>5. ASSUME NEW pc \in {"l1flush", "cpio"}, Goto(r, pc), IsStore(blobs'), BlobFilesWhole'
      PROVE  Named' /\ Stored'
  <2>1. /\ IsRequest(f(pc)) /\ f(pc).pc = pc /\ f(pc).ref = req[r].ref
        /\ f(pc).key = req[r].key /\ f(pc).layers = ls /\ f(pc).ok = req[r].ok
    BY <1>3 DEF IsRequest
  <2>2. Set(r, f(pc))
    BY <1>5, Zenon DEF Goto, Set
  <2>. HIDE DEF f
  <2>. QED BY <1>1, <1>2, <1>5, <2>1, <2>2, BlobStepSafe
<1>6. CASE UNCHANGED blobs /\ Goto(r, "cpio")
  <2>1. IsStore(blobs') /\ BlobFilesWhole'
    BY <1>4, <1>6 DEF BlobFilesWhole
  <2>. QED BY <1>5, <1>6, <2>1
<1>7. CASE UNCHANGED blobs /\ Set(r, g)
  <2>1. IsStore(blobs') /\ BlobFilesWhole'
    BY <1>4, <1>7 DEF BlobFilesWhole
  <2>2. /\ IsRequest(g) /\ g.pc = "l1" /\ g.ref = req[r].ref
        /\ g.key = req[r].key /\ g.layers = ls /\ g.ok = req[r].ok
    BY <1>1, <1>3 DEF IsRequest
  <2>. HIDE DEF g
  <2>. QED BY <1>1, <1>2, <1>7, <2>1, <2>2, BlobStepSafe
<1>8. CASE /\ Whole(have[l]) /\ Goto(r, "l1flush")
           /\ blobs' = [blobs EXCEPT !.file = Put(@, l, inode[have[l]]), !.mem = @ \union {l}]
  <2>. DEFINE content == inode[have[l]]
              mem == blobs.mem \union {l}
              file == Put(blobs.file, l, content)
  <2>1. content = 1 .. Chunks
    BY <1>8, Zenon DEF Whole
  <2>2. blobs' = [blobs EXCEPT !.file = file, !.mem = mem]
    BY <1>8, Zenon
  <2>. HIDE DEF content, mem, l, file
  <2>3. IsStore(blobs') /\ blobs'.file = file
    BY <1>4, <2>2, Zenon DEF IsStore
  <2>4. \A k \in DOMAIN file : file[k] = 1 .. Chunks
    BY <1>4, <2>1 DEF BlobFilesWhole, Put, file
  <2>5. BlobFilesWhole'
    BY <2>3, <2>4 DEF BlobFilesWhole
  <2>. QED BY <1>5, <1>8, <2>3, <2>5, Zenon
<1>. QED BY <1>6, <1>7, <1>8, Zenon DEF InsertBlob

\* L1 writes its index.
LEMMA FlushBlobsSafe ==
    ASSUME Named, Stored, NEW r \in Requests, FlushBlobs(r)
    PROVE  Named' /\ Stored'
<1>. DEFINE f == [req[r] EXCEPT !.pc = "l1", !.i = req[r].i + 1]
<1>1. req[r].pc = "l1flush" /\ req[r].pc \in Converting
  BY Zenon DEF FlushBlobs, Converting
<1>2. /\ UNCHANGED <<registry, oci, workload, rootfs, dirs, cpio, tmpdir, puller>> /\ Set(r, f)
      /\ blobs' = [blobs EXCEPT !.disk = blobs.mem] \/ blobs' = blobs
  BY Zenon DEF FlushBlobs, files
<1>3. IsRequest(req[r])
  BY <1>1, InConversion, Zenon
<1>4. IsStore(blobs) /\ BlobFilesWhole
  BY Zenon DEF Named, Stored, Shapes, StoreShapes
<1>5. IsStore(blobs') /\ blobs'.file = blobs.file
  BY <1>2, <1>4 DEF IsStore
<1>6. BlobFilesWhole'
  BY <1>4, <1>5 DEF BlobFilesWhole
<1>7. /\ IsRequest(f) /\ f.pc = "l1" /\ f.ref = req[r].ref
      /\ f.key = req[r].key /\ f.layers = req[r].layers /\ f.ok = req[r].ok
  BY <1>3, Zenon DEF IsRequest
<1>. HIDE DEF f
<1>. QED BY <1>1, <1>2, <1>5, <1>6, <1>7, BlobStepSafe

\* The whole image is what the key of its conversion stands for.
LEMMA KeyServes ==
    ASSUME Named, NEW q, KeyMatches(q)
    PROVE  Serves(registry, q.key, Flattened(q.layers, Len(q.layers)))
<1>1. PICK x \in DenotedIn(registry, DirOf[q.ref]) :
         /\ q.layers = LayersOf[x]
         /\ \/ q.key = <<x>>
            \/ \E k \in Refs : \E m \in Manifests :
                   DirOf[k] = DirOf[q.ref] /\ q.key = <<k, m>>
  BY DEF KeyMatches
<1>2. x \in Manifests
  BY DenotedManifests DEF Named, Shapes
<1>3. Flattened(q.layers, Len(q.layers)) = RootfsOf(x)
  BY <1>1, <1>2, FlattenedAll
<1>. QED BY <1>1, <1>2, <1>3, Zenon DEF Serves

\* The extraction directory becomes an archive.
LEMMA WriteCpioSafe ==
    ASSUME Named, Stored, NEW r \in Requests, WriteCpio(r)
    PROVE  Named' /\ Stored'
<1>. DEFINE fs == tmpdir[1]
            path == NewPath(fs)
            file == DirToCpio(fs)
            f == [req[r] EXCEPT !.pc = "l2copy", !.path = path]
<1>1. req[r].pc = "cpio" /\ req[r].pc \in Converting
  BY Zenon DEF WriteCpio, Converting
<1>2. /\ UNCHANGED <<registry, oci, workload, stores>> /\ tmpdir' = Absent
      /\ UNCHANGED <<registry, oci, workload, blobs, rootfs, dirs>>
  BY Zenon DEF WriteCpio, stores
<1>3. /\ IsRequest(req[r]) /\ req[r].ok # TRUE /\ puller = r
      /\ Unpacked(req[r]) /\ NotYetCached(req[r]) /\ KeyMatches(req[r])
  BY <1>1, InConversion, Zenon DEF Stored, Conversion
<1>4. CASE ConversionFailed(r) /\ UNCHANGED cpio
  BY <1>1, <1>2, <1>4, ConversionFailedSafe, Zenon
<1>5. CASE tmpdir # Absent /\ cpio' = Put(cpio, path, file) /\ Set(r, f) /\ UNCHANGED puller
  <2>1. fs = Flattened(req[r].layers, Len(req[r].layers))
    BY <1>1, <1>3, <1>5 DEF Unpacked
  <2>2. Serves(registry, req[r].key, fs)
    BY <1>3, <2>1, KeyServes, Zenon
  <2>. HIDE DEF fs, path
  <2>3. IsArchive(file) /\ file.base = fs /\ file.inj = <<>>
    BY DEF IsArchive, DirToCpio
  <2>4. /\ IsRequest(f) /\ f.pc = "l2copy" /\ f.ref = req[r].ref /\ f.path = path
        /\ f.key = req[r].key /\ f.layers = req[r].layers /\ f.ok = req[r].ok
    BY <1>3, Zenon DEF IsRequest
  <2>. HIDE DEF f, file
  <2>5. Moves(r) /\ req'[r] = f
    BY <1>5, <2>4, SetMoves, Zenon DEF Named
  <2>6. /\ cpio' = [p \in DOMAIN cpio' |-> cpio'[p]]
        /\ DOMAIN cpio' = DOMAIN cpio \union {path} /\ cpio'[path] = file
        /\ \A p \in DOMAIN cpio \ {path} : cpio'[p] = cpio[p]
    BY <1>5 DEF Put
  <2>7. StoreShapes'
    BY <1>2, <2>3, <2>6 DEF Named, Shapes, StoreShapes
  <2>8. BlobFilesWhole' /\ IndexHasFiles' /\ RootfsServes'
    BY <1>2 DEF Stored, BlobFilesWhole, IndexHasFiles, RootfsServes
  <2>9. OneOverlay'
    BY <2>3, <2>6 DEF Stored, OneOverlay, Range
  <2>10. Unpacked(req[r])' /\ Archived(req[r])'
    BY <1>2, <2>2, <2>3, <2>4, <2>5, <2>6 DEF Unpacked, Archived
  <2>11. NotYetCached(req[r])'
    BY <1>1, <1>2, <1>3, <2>4, <2>5 DEF NotYetCached
  <2>12. req'[r].pc \in Converting
    BY <2>4, <2>5 DEF Converting
  <2>. QED BY <1>1, <1>2, <1>3, <1>5, <2>4, <2>5, <2>7, <2>8, <2>9, <2>10, <2>11, <2>12, InsideSafe, Zenon
<1>. QED BY <1>4, <1>5, Zenon DEF WriteCpio

\* The archive is copied to its place in L2.
LEMMA CopyRootfsSafe ==
    ASSUME Named, Stored, NEW r \in Requests, CopyRootfs(r)
    PROVE  Named' /\ Stored'
<1>. DEFINE key == req[r].key
            file == Put(rootfs.file, key, DirToCpio({}))
<1>1. req[r].pc = "l2copy" /\ req[r].pc \in Converting
  BY Zenon DEF CopyRootfs, Converting
<1>2. UNCHANGED <<registry, oci, workload, blobs, dirs, cpio, tmpdir, puller>>
  BY Zenon DEF CopyRootfs, files
<1>3. /\ IsRequest(req[r]) /\ req[r].ok # TRUE /\ puller = r
      /\ Archived(req[r]) /\ NotYetCached(req[r])
  BY <1>1, InConversion, Zenon
<1>4. CASE Goto(r, "inject") /\ UNCHANGED rootfs
  <2>1. /\ Moves(r) /\ req'[r].pc = "inject" /\ req'[r].ref = req[r].ref
        /\ req'[r].layers = req[r].layers /\ req'[r].key = key /\ req'[r].path = req[r].path
        /\ req'[r].ok = req[r].ok
    BY <1>4, GotoMoves, Zenon DEF Named
  <2>2. StoreShapes' /\ BlobFilesWhole' /\ IndexHasFiles' /\ RootfsServes' /\ OneOverlay'
    BY <1>2, <1>4, StoresSame, Zenon
  <2>3. Unpacked(req[r])' /\ Archived(req[r])' /\ NotYetCached(req[r])'
    BY <1>1, <1>2, <1>3, <2>1 DEF Unpacked, Archived, NotYetCached
  <2>4. req'[r].pc \in Converting
    BY <2>1, Zenon DEF Converting
  <2>. QED BY <1>1, <1>2, <1>3, <2>1, <2>2, <2>3, <2>4, InsideSafe, Zenon
<1>5. CASE /\ "rootfs" \in dirs /\ Exists(req[r].path) /\ Goto(r, "l2copied")
           /\ rootfs' = [rootfs EXCEPT !.file = file]
  <2>1. /\ Moves(r) /\ req'[r].pc = "l2copied" /\ req'[r].ref = req[r].ref
        /\ req'[r].layers = req[r].layers /\ req'[r].key = key /\ req'[r].path = req[r].path
        /\ req'[r].ok = req[r].ok
    BY <1>5, GotoMoves, Zenon DEF Named
  <2>2. /\ DOMAIN file = DOMAIN rootfs.file \union {key} /\ file[key] = DirToCpio({})
        /\ \A k \in DOMAIN rootfs.file \ {key} : file[k] = rootfs.file[k]
    BY DEF Put
  <2>. HIDE DEF file
  <2>3. /\ IsStore(rootfs') /\ rootfs'.file = file
        /\ rootfs'.mem = rootfs.mem /\ rootfs'.disk = rootfs.disk
    BY <1>5 DEF Named, Shapes, StoreShapes, IsStore
  <2>4. IsArchive(DirToCpio({}))
    BY DEF IsArchive, DirToCpio
  <2>5. StoreShapes'
    BY <1>2, <2>2, <2>3, <2>4 DEF Named, Shapes, StoreShapes
  <2>6. key \notin rootfs.mem
    BY <1>1, <1>3, <1>5 DEF NotYetCached
  <2>7. BlobFilesWhole' /\ OneOverlay'
    BY <1>2 DEF Stored, BlobFilesWhole, OneOverlay
  <2>8. IndexHasFiles' /\ RootfsServes'
    BY <1>2, <1>5, <2>2, <2>3, <2>6 DEF Stored, IndexHasFiles, RootfsServes
  <2>9. Unpacked(req[r])' /\ Archived(req[r])' /\ NotYetCached(req[r])'
    BY <1>1, <1>2, <1>3, <1>5, <2>1, <2>3 DEF Unpacked, Archived, NotYetCached, Exists
  <2>10. req'[r].pc \in Converting
    BY <2>1 DEF Converting
  <2>. QED BY <1>1, <1>2, <1>3, <2>1, <2>5, <2>7, <2>8, <2>9, <2>10, InsideSafe, Zenon
<1>. QED BY <1>4, <1>5, Zenon DEF CopyRootfs

\* L2 enters the key, now that the file is there.
LEMMA InsertRootfsSafe ==
    ASSUME Named, Stored, NEW r \in Requests, InsertRootfs(r)
    PROVE  Named' /\ Stored'
<1>. DEFINE key == req[r].key
            path == req[r].path
            file == Put(rootfs.file, key, cpio[path])
            mem == rootfs.mem \union {key}
<1>1. req[r].pc = "l2copied" /\ req[r].pc \in Converting
  BY Zenon DEF InsertRootfs, Converting
<1>2. /\ UNCHANGED <<registry, oci, workload, blobs, dirs, cpio, tmpdir, puller>>
      /\ Goto(r, "inject")
  BY Zenon DEF InsertRootfs, files
<1>3. /\ IsRequest(req[r]) /\ req[r].ok # TRUE /\ puller = r /\ Archived(req[r])
  BY <1>1, InConversion, Zenon
<1>4. /\ Moves(r) /\ req'[r].pc = "inject" /\ req'[r].ref = req[r].ref
      /\ req'[r].layers = req[r].layers /\ req'[r].key = key /\ req'[r].path = path
      /\ req'[r].ok = req[r].ok
  BY <1>2, GotoMoves, Zenon DEF Named
<1>5. Unpacked(req[r])' /\ Archived(req[r])' /\ NotYetCached(req[r])'
  BY <1>1, <1>2, <1>3, <1>4 DEF Unpacked, Archived, NotYetCached
<1>6. req'[r].pc \in Converting
  BY <1>4 DEF Converting
<1>7. BlobFilesWhole' /\ OneOverlay'
  BY <1>2 DEF Stored, BlobFilesWhole, OneOverlay
<1>8. StoreShapes' /\ IndexHasFiles' /\ RootfsServes'
  <2>1. CASE UNCHANGED rootfs
    BY <1>2, <2>1, StoresSame, Zenon
  <2>2. CASE "rootfs" \in dirs /\ rootfs' = [file |-> file, mem |-> mem, disk |-> mem]
    <3>1. /\ path \in DOMAIN cpio /\ cpio[path].inj = <<>>
          /\ Serves(registry, key, cpio[path].base)
      BY <1>1, <1>3, <2>2 DEF Archived
    <3>2. /\ DOMAIN file = DOMAIN rootfs.file \union {key} /\ file[key] = cpio[path]
          /\ \A k \in DOMAIN rootfs.file \ {key} : file[k] = rootfs.file[k]
      BY DEF Put
    <3>. HIDE DEF file
    <3>3. /\ IsStore(rootfs') /\ rootfs'.file = file
          /\ rootfs'.mem = mem /\ rootfs'.disk = mem
      BY <2>2 DEF IsStore
    <3>4. StoreShapes'
      BY <1>2, <3>1, <3>2, <3>3 DEF Named, Shapes, StoreShapes
    <3>5. IndexHasFiles'
      BY <1>2, <2>2, <3>2, <3>3 DEF Stored, IndexHasFiles
    <3>6. RootfsServes'
      BY <1>2, <3>1, <3>2, <3>3 DEF Stored, RootfsServes
    <3>. QED BY <3>4, <3>5, <3>6, Zenon
  <2>. QED BY <2>1, <2>2, Zenon DEF InsertRootfs
<1>. QED BY <1>1, <1>2, <1>3, <1>4, <1>5, <1>6, <1>7, <1>8, InsideSafe, Zenon

\* The overlays of sandbox r on a rootfs without any.
OverlaysOf(r) ==
    << <<r, workload.ops[r].cmd>> >> \o (IF workload.agent THEN << <<r, "agent">> >> ELSE <<>>)

\* A sequence of two.
LEMMA PairOf ==
    ASSUME NEW S, NEW s \in Seq(S), Len(s) = 2
    PROVE  s = <<s[1], s[2]>>
<1>. DEFINE t == <<s[1], s[2]>>
<1>1. DOMAIN s = 1 .. 2 /\ s = [i \in 1 .. 2 |-> s[i]]
  OBVIOUS
<1>2. DOMAIN t = 1 .. 2 /\ t = [i \in 1 .. 2 |-> t[i]]
  OBVIOUS
<1>3. \A i \in 1 .. 2 : s[i] = t[i]
  OBVIOUS
<1>. HIDE DEF t
<1>4. s = t
  BY <1>1, <1>2, <1>3
<1>. QED BY <1>4 DEF t

\* The two ways a second overlay is appended.
LEMMA TwoOverlays ==
    ASSUME NEW x, NEW y
    PROVE  Append(<<x>>, y) = <<x, y>> /\ <<x>> \o <<y>> = <<x, y>>
<1>. DEFINE s == Append(<<x>>, y)
            t == <<x>> \o <<y>>
<1>1. s \in Seq({x, y}) /\ Len(s) = 2 /\ s[1] = x /\ s[2] = y
  OBVIOUS
<1>2. t \in Seq({x, y}) /\ Len(t) = 2 /\ t[1] = x /\ t[2] = y
  OBVIOUS
<1>. HIDE DEF s, t
<1>3. s = <<s[1], s[2]>> /\ t = <<t[1], t[2]>>
  BY <1>1, <1>2, PairOf
<1>. QED BY <1>1, <1>2, <1>3, Zenon DEF s, t

\* inject_init and inject_guest_ebpf leave the base of the archive alone.
LEMMA Injected ==
    ASSUME NEW r \in Requests, NEW a, IsArchive(a), a.inj = <<>>
    PROVE  LET b == InjectGuestEbpf(InjectInit(a, r), r)
           IN  /\ IsArchive(b) /\ b.base = a.base /\ b.inj = OverlaysOf(r)
               /\ \A x \in Range(b.inj) : x[1] = r
<1>. DEFINE o == <<r, workload.ops[r].cmd>>
            c == InjectInit(a, r)
            b == InjectGuestEbpf(c, r)
<1>1. c = [a EXCEPT !.inj = Append(@, o)]
  BY Zenon DEF InjectInit, InjectFile, WriteCpioEntry
<1>2. b = IF workload.agent THEN [c EXCEPT !.inj = Append(@, <<r, "agent">>)] ELSE c
  BY Zenon DEF InjectGuestEbpf, InjectFile, WriteCpioEntry
<1>. HIDE DEF b, c
<1>3. o[1] = r
  OBVIOUS
<1>4. IsArchive(c) /\ c.base = a.base /\ c.inj = <<o>>
  <2>1. Append(<<>>, o) = <<o>>
    OBVIOUS
  <2>. HIDE DEF o
  <2>. QED BY <1>1, <2>1 DEF IsArchive
<1>5. CASE workload.agent
  <2>1. b = [c EXCEPT !.inj = Append(@, <<r, "agent">>)]
    BY <1>2, <1>5, Zenon
  <2>. HIDE DEF o
  <2>2. /\ Append(<<o>>, <<r, "agent">>) = <<o, <<r, "agent">> >>
        /\ <<o>> \o << <<r, "agent">> >> = <<o, <<r, "agent">> >>
    BY TwoOverlays, Zenon
  <2>3. IsArchive(b) /\ b.base = a.base /\ b.inj = <<o, <<r, "agent">> >>
    BY <1>4, <2>1, <2>2 DEF IsArchive
  <2>4. OverlaysOf(r) = <<o, <<r, "agent">> >>
    BY <1>5, <2>2, Zenon DEF OverlaysOf, o
  <2>5. \A x \in Range(b.inj) : x[1] = r
    BY <1>3, <2>3 DEF Range
  <2>. QED BY <2>3, <2>4, <2>5 DEF b, c
<1>6. CASE ~workload.agent
  <2>1. b = c
    BY <1>2, <1>6, Zenon
  <2>. HIDE DEF o
  <2>2. OverlaysOf(r) = <<o>>
    BY <1>6 DEF OverlaysOf, o
  <2>3. \A x \in Range(b.inj) : x[1] = r
    BY <1>3, <1>4, <2>1 DEF Range
  <2>. QED BY <1>4, <2>1, <2>2, <2>3 DEF b, c
<1>. QED BY <1>5, <1>6

\* A conversion ends well: the mutex is free and the request done.
LEMMA FinishedSafe ==
    ASSUME Named, Stored, NEW r \in Requests, req[r].pc \in Converting,
           Set(r, [req[r] EXCEPT !.pc = "done", !.ok = TRUE]),
           UNCHANGED <<registry, oci, workload, blobs, rootfs, dirs>>,
           StoreShapes', OneOverlay'
    PROVE  Named' /\ Stored' /\ req'[r].path = req[r].path
<1>. DEFINE f == [req[r] EXCEPT !.pc = "done", !.ok = TRUE]
<1>1. IsRequest(req[r])
  BY InConversion, Zenon
<1>2. /\ IsRequest(f) /\ f.pc = "done" /\ f.ref = req[r].ref /\ f.path = req[r].path
  BY <1>1, Zenon DEF IsRequest
<1>. HIDE DEF f
<1>3. Moves(r) /\ req'[r] = f
  BY <1>2, SetMoves, Zenon DEF Named, f
<1>4. BlobFilesWhole' /\ IndexHasFiles' /\ RootfsServes'
  BY DEF Stored, BlobFilesWhole, IndexHasFiles, RootfsServes
<1>5. req'[r].pc \notin Converting
  BY <1>2, <1>3 DEF Converting
<1>. QED BY <1>2, <1>3, <1>4, <1>5, InsideSafe

\* The overlays go into the copy of the request, never into L2.
LEMMA InjectSafe ==
    ASSUME Named, Stored, NEW r \in Requests, Inject(r)
    PROVE  /\ Named' /\ Stored' /\ req'[r].path = req[r].path
           /\ req[r].path \in DOMAIN cpio' =>
                 /\ Serves(registry, req[r].key, cpio'[req[r].path].base)
                 /\ cpio'[req[r].path].inj = OverlaysOf(r)
<1>. DEFINE path == req[r].path
            a == cpio[path]
            b == InjectGuestEbpf(InjectInit(a, r), r)
<1>1. req[r].pc = "inject" /\ req[r].pc \in Converting
  BY Zenon DEF Inject, Converting
<1>2. /\ UNCHANGED <<registry, oci, workload, blobs, rootfs, dirs>>
      /\ Set(r, [req[r] EXCEPT !.pc = "done", !.ok = TRUE])
      /\ cpio' = IF path \in DOMAIN cpio THEN [cpio EXCEPT ![path] = b] ELSE cpio
  BY Zenon DEF Inject, stores, Exists
<1>3. StoreShapes /\ OneOverlay
  BY Zenon DEF Named, Stored, Shapes
<1>4. CASE path \notin DOMAIN cpio
  <2>1. cpio' = cpio
    BY <1>2, <1>4, Zenon
  <2>2. StoreShapes' /\ OneOverlay'
    BY <1>2, <1>3, <2>1 DEF StoreShapes, OneOverlay
  <2>. QED BY <1>1, <1>2, <1>4, <2>1, <2>2, FinishedSafe, Zenon
<1>5. CASE path \in DOMAIN cpio
  <2>1. a.inj = <<>> /\ Serves(registry, req[r].key, a.base)
    BY <1>1, <1>5, InConversion, Zenon DEF Archived
  <2>2. IsArchive(a)
    BY <1>3, <1>5 DEF StoreShapes
  <2>3. /\ IsArchive(b) /\ b.base = a.base /\ b.inj = OverlaysOf(r)
        /\ \A x \in Range(b.inj) : x[1] = r
    <3>. HIDE DEF a
    <3>. QED BY <2>1, <2>2, Injected, Zenon
  <2>4. cpio' = [cpio EXCEPT ![path] = b]
    BY <1>2, <1>5, Zenon
  <2>. HIDE DEF b
  <2>5. /\ cpio' = [p \in DOMAIN cpio' |-> cpio'[p]] /\ DOMAIN cpio' = DOMAIN cpio
        /\ cpio'[path] = b /\ \A p \in DOMAIN cpio \ {path} : cpio'[p] = cpio[p]
    BY <1>5, <2>4, Zenon
  <2>6. StoreShapes'
    BY <1>2, <1>3, <2>3, <2>5 DEF StoreShapes
  <2>7. OneOverlay'
    <3>. SUFFICES ASSUME NEW p \in DOMAIN cpio',
                         NEW x \in Range(cpio'[p].inj), NEW y \in Range(cpio'[p].inj)
                  PROVE  x[1] = y[1]
      BY DEF OneOverlay
    <3>. QED BY <1>3, <2>3, <2>5 DEF OneOverlay
  <2>8. Named' /\ Stored' /\ req'[r].path = req[r].path
    BY <1>1, <1>2, <2>6, <2>7, FinishedSafe, Zenon
  <2>. QED BY <2>1, <2>3, <2>5, <2>8
<1>. QED BY <1>4, <1>5

\* A pull request ends when its image is converted.
LEMMA CacheImageSafe ==
    ASSUME Named, Stored, NEW r \in Requests, CacheImage(r)
    PROVE  Named' /\ Stored'
<1>1. req[r].pc = "inject" /\ req[r].pc \in Converting
  BY Zenon DEF CacheImage, Converting
<1>2. /\ UNCHANGED <<registry, oci, workload, blobs, rootfs, dirs, cpio>>
      /\ Set(r, [req[r] EXCEPT !.pc = "done", !.ok = TRUE])
  BY Zenon DEF CacheImage, files
<1>3. StoreShapes' /\ OneOverlay'
  BY <1>2, StoresSame, Zenon
<1>. QED BY <1>1, <1>2, <1>3, FinishedSafe, Zenon

\* The conversion takes the mutex and reads the layout: its key and its
\* layers are those of one manifest that the reference has denoted.
LEMMA OpenLayoutSafe ==
    ASSUME Named, Stored, NEW r \in Requests, OpenLayout(r)
    PROVE  Named' /\ Stored'
<1>. DEFINE ref == req[r].ref
            d == DirOf[ref]
            key == ManifestDigest(ref)
            ls == LayersOf[oci[d].index[1]]
            f == [req[r] EXCEPT !.pc = "l2", !.key = key, !.layers = ls]
<1>1. /\ ref \in Refs /\ d \in Dirs /\ req[r].pc = "lock" /\ req[r].ok # TRUE
      /\ IsRequest(req[r])
  BY Known, Zenon DEF OpenLayout
<1>2. /\ UNCHANGED <<registry, oci, workload, blobs, rootfs, dirs, cpio, tmpdir>> /\ puller = 0
  BY Zenon DEF OpenLayout, files, stores
<1>3. LayoutShapes' /\ LayoutsNameTags'
  BY <1>2, SameLayouts, Zenon
<1>4. CASE ConversionFailed(r)
  <2>1. /\ Moves(r) /\ puller' = 0 /\ req'[r].pc \in {"stub", "done"} /\ req'[r].ref = ref
        /\ req'[r].ok = FALSE
    BY <1>4, ConversionFailedMoves, Zenon DEF Named
  <2>2. req'[r].pc \notin Converting /\ req'[r].pc \notin Pulled
    BY <2>1 DEF Converting, Pulled
  <2>. QED BY <1>1, <1>2, <1>3, <2>1, <2>2, OutsideSafe
<1>5. CASE Opens(oci[d]) /\ puller' = r /\ Set(r, f)
  <2>1. PICK m \in DenotedIn(registry, d) : oci[d].index = <<m>>
    BY <1>1, <1>5, Zenon DEF Named, LayoutsNameTags, Opens
  <2>2. ls = LayersOf[m]
    BY <2>1
  <2>3. \/ key = <<m>>
        \/ \E k \in Refs : \E n \in Manifests : DirOf[k] = d /\ key = <<k, n>>
    <3>1. CASE oci[d].manifestJson = None
      BY <2>1, <3>1, Zenon DEF ManifestDigest
    <3>2. CASE oci[d].manifestJson # None
      BY <1>1, <3>2, Zenon DEF ManifestDigest, Named, LayoutsNameTags
    <3>. QED BY <3>1, <3>2
  <2>. HIDE DEF key, ls
  <2>4. /\ IsRequest(f) /\ f.pc = "l2" /\ f.ref = ref /\ f.key = key /\ f.layers = ls
        /\ f.ok = req[r].ok
    BY <1>1, Zenon DEF IsRequest
  <2>. HIDE DEF f
  <2>5. Moves(r) /\ req'[r] = f
    BY <1>5, <2>4, SetMoves, Zenon DEF Named
  <2>6. Named'
    <3>1. req'[r].pc \notin Pulled
      BY <2>4, <2>5 DEF Pulled
    <3>. QED BY <1>1, <1>2, <1>3, <2>4, <2>5, <3>1, OutsideNamed, Zenon
  <2>7. BlobFilesWhole' /\ IndexHasFiles' /\ RootfsServes' /\ OneOverlay'
    BY <1>2, StoresSame, Zenon
  <2>8. \A s \in Requests \ {r} : req'[s].pc \notin Converting
    BY <1>2, <2>5, RequestNumbers DEF Stored, OneConverts, Moves
  <2>9. OneConverts'
    BY <1>5, <2>8 DEF OneConverts
  <2>10. KeyMatches(req[r])'
    BY <1>2, <2>1, <2>2, <2>3, <2>4, <2>5 DEF KeyMatches
  <2>11. Unpacked(req[r])' /\ Archived(req[r])' /\ NotYetCached(req[r])'
    BY <2>4, <2>5 DEF Unpacked, Archived, NotYetCached
  <2>12. Conversion'
    BY <2>8, <2>10, <2>11 DEF Conversion
  <2>. QED BY <2>6, <2>7, <2>9, <2>12, Zenon DEF Stored
<1>. QED BY <1>4, <1>5, Zenon DEF OpenLayout

-----------------------------------------------------------------------------
(***************************************************************************)
(* The theorems about ImageStore, for every number of requests, every set  *)
(* of references, manifests and layers, and every workload. Removals, tag  *)
(* moves and crashes keep the invariant too: a removal takes the           *)
(* directories, the files and the indexes on disk in one step, and a       *)
(* restart reads back an index whose entries all have their files.         *)
(***************************************************************************)

\* The registry or the stores change and no request does: what is left to show
\* is that the conversions under way are still right.
LEMMA EnvironmentSafe ==
    ASSUME Named, Stored, UNCHANGED <<req, puller, workload>>,
           LayoutShapes', StoreShapes', LayoutsNameTags', TagsMoveOnce',
           registry' \in [Refs -> Manifests],
           \A d : DenotedIn(registry, d) \subseteq DenotedIn(registry', d),
           BlobFilesWhole', IndexHasFiles', RootfsServes', OneOverlay',
           \A r \in Requests : req[r].pc \in Converting =>
              Unpacked(req[r])' /\ Archived(req[r])' /\ NotYetCached(req[r])'
    PROVE  Named' /\ Stored'
<1>1. Shapes'
  BY DEF Named, Shapes
<1>2. RequestsNameTags'
  BY DEF Named, RequestsNameTags
<1>3. OneConverts'
  BY DEF Stored, OneConverts
<1>4. ASSUME NEW r \in Requests, req[r].pc \in Converting
      PROVE  KeyMatches(req[r])'
  <2>1. KeyMatches(req[r])
    BY <1>4 DEF Stored, Conversion
  <2>. QED BY <2>1 DEF KeyMatches
<1>5. Conversion'
  BY <1>4 DEF Conversion
<1>. QED BY <1>1, <1>2, <1>3, <1>5, Zenon DEF Named, Stored

\* A tag moves: what was denoted before still counts.
LEMMA MoveTagSafe ==
    ASSUME Named, Stored, NEW ref \in Refs, MoveTag(ref)
    PROVE  Named' /\ Stored'
<1>1. /\ UNCHANGED <<req, puller, workload, oci, blobs, rootfs, dirs, cpio, tmpdir>>
      /\ registry[ref] # Retagged[ref] /\ registry' = [registry EXCEPT ![ref] = Retagged[ref]]
  BY Zenon DEF MoveTag, files, stores
<1>2. registry' \in [Refs -> Manifests] /\ TagsMoveOnce'
  BY <1>1, ImageAssumption, Zenon DEF Named, Shapes, TagsMoveOnce
<1>3. \A k \in Refs : registry[k] \in {Tagged[k], registry'[k]}
  BY <1>1 DEF Named, Shapes, TagsMoveOnce
<1>4. /\ \A d : DenotedIn(registry, d) \subseteq DenotedIn(registry', d)
      /\ \A key, fs : Serves(registry, key, fs) => Serves(registry', key, fs)
  BY <1>3, DenotedGrows, Zenon
<1>5. LayoutShapes' /\ StoreShapes'
  BY <1>1 DEF Named, Shapes, LayoutShapes, StoreShapes
<1>6. LayoutsNameTags'
  BY <1>1, <1>4, Zenon DEF Named, LayoutsNameTags
<1>7. BlobFilesWhole' /\ IndexHasFiles' /\ OneOverlay'
  BY <1>1 DEF Stored, BlobFilesWhole, IndexHasFiles, OneOverlay
<1>8. RootfsServes'
  BY <1>1, <1>4, Zenon DEF Stored, RootfsServes
<1>9. ASSUME NEW r \in Requests, req[r].pc \in Converting
      PROVE  Unpacked(req[r])' /\ Archived(req[r])' /\ NotYetCached(req[r])'
  <2>1. Unpacked(req[r]) /\ Archived(req[r]) /\ NotYetCached(req[r])
    BY <1>9, InConversion, Zenon
  <2>. QED BY <1>1, <1>4, <2>1, Zenon DEF Unpacked, Archived, NotYetCached
<1>. QED BY <1>1, <1>2, <1>4, <1>5, <1>6, <1>7, <1>8, <1>9, EnvironmentSafe, Zenon

\* The daemon makes its layout directories empty.
LEMMA EmptyIsLayout ==
    IsLayout(EmptyLayout) /\ EmptyLayout.index = None /\ EmptyLayout.manifestJson = None
<1>1. EmptyLayout.index = None /\ EmptyLayout.manifestJson = None
  BY DEF EmptyLayout
<1>2. IsLayout(EmptyLayout)
  BY DEF IsLayout, EmptyLayout
<1>. QED BY <1>1, <1>2

\* A request that is not there yet.
LEMMA IdleIsRequest == IsRequest(Idle) /\ Idle.pc = "idle" /\ Idle.ok = FALSE
<1>1. Idle.pc = "idle" /\ Idle.ok = FALSE
  BY DEF Idle
<1>2. IsRequest(Idle)
  BY DEF IsRequest, Idle
<1>. QED BY <1>1, <1>2

\* The empty store.
LEMMA EmptyFiles == DOMAIN <<>> = {} /\ <<>> = [p \in {} |-> <<>>[p]]
OBVIOUS

\* All three.
LEMMA EmptyIsFine ==
    /\ IsLayout(EmptyLayout) /\ EmptyLayout.index = None /\ EmptyLayout.manifestJson = None
    /\ IsRequest(Idle) /\ Idle.pc = "idle" /\ Idle.ok = FALSE
    /\ DOMAIN <<>> = {} /\ <<>> = [p \in {} |-> <<>>[p]]
BY EmptyIsLayout, IdleIsRequest, EmptyFiles, Zenon

\* An image is removed, under whatever is going on.
LEMMA RemoveImageSafe ==
    ASSUME Named, Stored, NEW ref \in Refs, RemoveImage(ref)
    PROVE  Named' /\ Stored'
<1>1. UNCHANGED <<registry, req, puller, workload>>
  BY Zenon DEF RemoveImage
<1>2. registry' \in [Refs -> Manifests] /\ TagsMoveOnce'
  BY <1>1 DEF Named, Shapes, TagsMoveOnce
<1>3. \A d : DenotedIn(registry, d) \subseteq DenotedIn(registry', d)
  BY <1>1
<1>4. ASSUME NEW r \in Requests, req[r].pc \in Converting
      PROVE  Unpacked(req[r]) /\ Archived(req[r]) /\ NotYetCached(req[r])
  BY <1>4, InConversion, Zenon
<1>5. CASE UNCHANGED <<oci, blobs, rootfs, dirs, files>>
  <2>1. UNCHANGED <<oci, blobs, rootfs, dirs, cpio, tmpdir>>
    BY <1>5, Zenon DEF files
  <2>2. LayoutShapes' /\ LayoutsNameTags'
    BY <1>1, <2>1, SameLayouts, Zenon
  <2>3. StoreShapes' /\ BlobFilesWhole' /\ IndexHasFiles' /\ RootfsServes' /\ OneOverlay'
    BY <1>1, <2>1, StoresSame, Zenon
  <2>4. ASSUME NEW r \in Requests, req[r].pc \in Converting
        PROVE  Unpacked(req[r])' /\ Archived(req[r])' /\ NotYetCached(req[r])'
    BY <1>1, <1>4, <2>1, <2>4 DEF Unpacked, Archived, NotYetCached
  <2>. QED BY <1>1, <1>2, <1>3, <2>2, <2>3, <2>4, EnvironmentSafe
<1>6. CASE /\ oci' = [d \in DOMAIN oci |-> IF d \in FixtureDirs THEN oci[d] ELSE EmptyLayout]
           /\ blobs' = [mem |-> blobs.mem, disk |-> {}, file |-> <<>>]
           /\ rootfs' = [mem |-> rootfs.mem, disk |-> {}, file |-> <<>>]
           /\ dirs' = {} /\ cpio' = <<>> /\ tmpdir' = Absent
  <2>1. LayoutShapes' /\ LayoutsNameTags'
    <3>1. oci' = [d \in Dirs |-> IF d \in FixtureDirs THEN oci[d] ELSE EmptyLayout]
      BY <1>6 DEF Named, Shapes, LayoutShapes
    <3>2. LayoutShapes'
      BY <3>1, EmptyIsFine DEF Named, Shapes, LayoutShapes
    <3>3. \A d \in Dirs : oci'[d] = oci[d] \/ oci'[d] = EmptyLayout
      BY <3>1
    <3>4. LayoutsNameTags'
      BY <1>1, <3>3, EmptyIsFine DEF Named, LayoutsNameTags
    <3>. QED BY <3>2, <3>4
  <2>2. /\ IsStore(blobs') /\ DOMAIN blobs'.file = {} /\ IsStore(rootfs')
        /\ DOMAIN rootfs'.file = {} /\ rootfs'.disk = {} /\ DOMAIN cpio' = {}
    BY <1>6, EmptyIsFine DEF IsStore
  <2>3. StoreShapes'
    BY <1>6, <2>2, EmptyIsFine DEF StoreShapes
  <2>4. BlobFilesWhole' /\ IndexHasFiles' /\ RootfsServes' /\ OneOverlay'
    BY <1>6, <2>2 DEF BlobFilesWhole, IndexHasFiles, RootfsServes, OneOverlay
  <2>5. ASSUME NEW r \in Requests, req[r].pc \in Converting
        PROVE  Unpacked(req[r])' /\ Archived(req[r])' /\ NotYetCached(req[r])'
    BY <1>1, <1>4, <1>6, <2>2, <2>5, Zenon DEF Unpacked, Archived, NotYetCached
  <2>. QED BY <1>1, <1>2, <1>3, <2>1, <2>3, <2>4, <2>5, EnvironmentSafe
<1>. QED BY <1>5, <1>6, Zenon DEF RemoveImage

\* The daemon dies and comes back with the indexes that are on disk.
LEMMA RestartSafe ==
    ASSUME Named, Stored, Restart
    PROVE  Named' /\ Stored'
<1>. DEFINE q == [Idle EXCEPT !.pc = "crashed"]
<1>1. /\ UNCHANGED <<registry, oci, workload, cpio, tmpdir>> /\ dirs' = AllDirs
      /\ blobs' = [blobs EXCEPT !.mem = blobs.disk]
      /\ rootfs' = [rootfs EXCEPT !.mem = rootfs.disk]
      /\ req' = [r \in Requests |-> IF req[r].pc = "idle" THEN Idle ELSE q]
  BY Zenon DEF Restart, OpenBlobStore, OpenRootfsCache, files
<1>2. IsRequest(q) /\ q.pc = "crashed" /\ q.ok = FALSE
  BY EmptyIsFine DEF IsRequest
<1>. HIDE DEF q
<1>3. \A r \in Requests : req'[r] = Idle \/ req'[r] = q
  BY <1>1
<1>4. /\ IsStore(blobs') /\ blobs'.file = blobs.file
      /\ IsStore(rootfs') /\ rootfs'.file = rootfs.file
      /\ rootfs'.mem = rootfs.disk /\ rootfs'.disk = rootfs.disk
  BY <1>1 DEF Named, Shapes, StoreShapes, IsStore
<1>5. StoreShapes'
  BY <1>1, <1>4 DEF Named, Shapes, StoreShapes
<1>6. LayoutShapes' /\ LayoutsNameTags'
  BY <1>1, SameLayouts, Zenon
<1>7. Shapes'
  BY <1>1, <1>2, <1>3, <1>5, <1>6, EmptyIsFine DEF Named, Shapes
<1>8. TagsMoveOnce'
  BY <1>1 DEF Named, TagsMoveOnce
<1>9. RequestsNameTags'
  BY <1>2, <1>3, EmptyIsFine DEF RequestsNameTags, Pulled
<1>10. OneConverts' /\ Conversion'
  BY <1>2, <1>3, EmptyIsFine DEF OneConverts, Conversion, Converting
<1>11. BlobFilesWhole' /\ OneOverlay'
  BY <1>1, <1>4 DEF Stored, BlobFilesWhole, OneOverlay
<1>12. IndexHasFiles' /\ RootfsServes'
  BY <1>1, <1>4 DEF Stored, IndexHasFiles, RootfsServes, AllDirs
<1>. QED BY <1>6, <1>7, <1>8, <1>9, <1>10, <1>11, <1>12, Zenon DEF Named, Stored

\* The daemon starts with empty stores and the layouts of the fixtures.
LEMMA InitSafe ==
    ASSUME Init
    PROVE  Named /\ Stored
<1>1. /\ registry = Tagged /\ req = [r \in Requests |-> Idle] /\ workload \in Workloads
      /\ blobs = [mem |-> {}, disk |-> {}, file |-> <<>>]
      /\ rootfs = [mem |-> {}, disk |-> {}, file |-> <<>>] /\ cpio = <<>> /\ dirs = AllDirs
      /\ oci = [d \in Dirs |->
                  IF d \in FixtureDirs THEN FixtureLayout(CHOOSE ref \in LocalRefs : DirOf[ref] = d)
                                       ELSE EmptyLayout]
  BY Zenon DEF Init, Dirs
<1>2. \A r \in Requests : req[r] = Idle
  BY <1>1
<1>3. /\ IsStore(blobs) /\ DOMAIN blobs.file = {} /\ IsStore(rootfs)
      /\ DOMAIN rootfs.file = {} /\ rootfs.disk = {} /\ rootfs.mem = {} /\ DOMAIN cpio = {}
  BY <1>1, EmptyIsFine DEF IsStore
<1>4. StoreShapes
  BY <1>1, <1>3, EmptyIsFine DEF StoreShapes
<1>5. ASSUME NEW d \in Dirs
      PROVE  /\ IsLayout(oci[d])
             /\ oci[d].index # None => \E m \in DenotedIn(registry, d) : oci[d].index = <<m>>
             /\ oci[d].manifestJson # None =>
                   \E k \in Refs : \E m \in Manifests :
                       DirOf[k] = d /\ oci[d].manifestJson = <<k, m>>
  <2>1. CASE d \notin FixtureDirs
    <3>1. oci[d] = EmptyLayout
      BY <1>1, <2>1
    <3>. QED BY <3>1, EmptyIsFine, Zenon
  <2>2. CASE d \in FixtureDirs
    <3>. DEFINE ref == CHOOSE k \in LocalRefs : DirOf[k] = d
    <3>1. ref \in LocalRefs /\ DirOf[ref] = d
      BY <2>2, Zenon DEF FixtureDirs
    <3>2. oci[d] = FixtureLayout(ref)
      BY <1>1, <2>2
    <3>. HIDE DEF ref
    <3>3. ref \in Refs /\ Tagged[ref] \in Manifests /\ Tagged[ref] \in DenotedIn(registry, d)
      BY <3>1, ImageAssumption DEF DenotedIn
    <3>4. /\ IsLayout(oci[d]) /\ oci[d].index = <<Tagged[ref]>>
          /\ oci[d].manifestJson = <<ref, Tagged[ref]>>
      BY <3>2 DEF FixtureLayout, IsLayout
    <3>. QED BY <3>1, <3>3, <3>4, Zenon
  <2>. QED BY <2>1, <2>2
<1>6. LayoutShapes /\ LayoutsNameTags
  <2>1. oci = [d \in Dirs |-> oci[d]]
    <3>. DEFINE x(d) == IF d \in FixtureDirs
                        THEN FixtureLayout(CHOOSE ref \in LocalRefs : DirOf[ref] = d)
                        ELSE EmptyLayout
    <3>1. oci = [d \in Dirs |-> x(d)]
      BY <1>1, Zenon
    <3>. HIDE DEF x
    <3>. QED BY <3>1
  <2>. QED BY <1>5, <2>1, Zenon DEF LayoutShapes, LayoutsNameTags
<1>7. Shapes /\ TagsMoveOnce
  BY <1>1, <1>2, <1>4, <1>6, EmptyIsFine, ImageAssumption, Zenon DEF Shapes, TagsMoveOnce
<1>8. RequestsNameTags /\ OneConverts /\ Conversion
  BY <1>2, EmptyIsFine DEF RequestsNameTags, Pulled, OneConverts, Conversion, Converting
<1>9. BlobFilesWhole /\ IndexHasFiles /\ RootfsServes /\ OneOverlay
  BY <1>1, <1>3 DEF BlobFilesWhole, IndexHasFiles, RootfsServes, OneOverlay, AllDirs
<1>. QED BY <1>6, <1>7, <1>8, <1>9, Zenon DEF Named, Stored

\* Every step keeps the invariant.
LEMMA NextSafe ==
    ASSUME Named, Stored, [Next]_vars
    PROVE  Named' /\ Stored'
<1>1. ASSUME NEW r \in Requests, Step(r)
      PROVE  Named' /\ Stored'
  BY <1>1, ArrivalSafe, AuthenticateSafe, FetchManifestSafe, FetchConfigSafe, NextLayerSafe,
     OpenTmpSafe, StreamChunkSafe, FinishStreamSafe, WriteIndexSafe, OpenLayoutSafe,
     CloneRootfsSafe, StartExtractSafe, ExtractSafe, InsertBlobSafe, FlushBlobsSafe,
     WriteCpioSafe, CopyRootfsSafe, InsertRootfsSafe, InjectSafe, CacheImageSafe,
     StubImageSafe, Zenon DEF Step
<1>2. ASSUME NEW ref \in Refs, RemoveImage(ref) \/ MoveTag(ref)
      PROVE  Named' /\ Stored'
  BY <1>2, RemoveImageSafe, MoveTagSafe, Zenon
<1>3. CASE Restart
  BY <1>3, RestartSafe, Zenon
<1>4. CASE UNCHANGED vars
  <2>1. UNCHANGED <<registry, oci, blobs, rootfs, dirs, cpio, tmpdir, puller, req, workload>>
    BY <1>4, Zenon DEF vars, stores, files
  <2>2. LayoutShapes' /\ LayoutsNameTags'
    BY <2>1, SameLayouts, Zenon
  <2>3. StoreShapes' /\ BlobFilesWhole' /\ IndexHasFiles' /\ RootfsServes' /\ OneOverlay'
    BY <2>1, StoresSame, Zenon
  <2>4. registry' \in [Refs -> Manifests] /\ TagsMoveOnce'
    BY <2>1 DEF Named, Shapes, TagsMoveOnce
  <2>5. ASSUME NEW r \in Requests, req[r].pc \in Converting
        PROVE  Unpacked(req[r])' /\ Archived(req[r])' /\ NotYetCached(req[r])'
    <3>1. Unpacked(req[r]) /\ Archived(req[r]) /\ NotYetCached(req[r])
      BY <2>5, InConversion, Zenon
    <3>. QED BY <2>1, <3>1, Zenon DEF Unpacked, Archived, NotYetCached
  <2>6. \A d : DenotedIn(registry, d) \subseteq DenotedIn(registry', d)
    BY <2>1
  <2>. QED BY <2>1, <2>2, <2>3, <2>4, <2>5, <2>6, EnvironmentSafe
<1>. QED BY <1>1, <1>2, <1>3, <1>4, Zenon DEF Next

\* The inductive invariant of the image store, in every order of pulls,
\* conversions, removals, tag moves and crashes.
THEOREM StoreInvariant == Spec => [](Named /\ Stored)
<1>1. Init => Named /\ Stored
  BY InitSafe
<1>2. Named /\ Stored /\ [Next]_vars => (Named /\ Stored)'
  BY NextSafe
<1>. QED BY <1>1, <1>2, PTL DEF Spec

\* Every blob file of L1 is whole: BlobStore::insert checks the digest of the
\* data before it writes the file.
THEOREM StoreBlobs == Spec => []BlobsVerified
<1>1. Named /\ Stored => BlobsVerified
  BY DEF Stored, BlobFilesWhole, BlobsVerified
<1>. QED BY <1>1, StoreInvariant, PTL

\* No archive has the overlays of two requests in it: inject_init and
\* inject_guest_ebpf append to a file that only the mutex protects.
THEOREM StoreOverlays == Spec => []OneOverlay
<1>1. Named /\ Stored => OneOverlay
  BY Zenon DEF Stored
<1>. QED BY <1>1, StoreInvariant, PTL

\* Denoted is DenotedIn, of the layout directory of the reference.
LEMMA DenotedIsIn == \A ref : Denoted(ref) = DenotedIn(registry, DirOf[ref])
BY Zenon DEF Denoted, DenotedIn

\* An entry of the L2 rootfs cache has no overlay in it, and one filed under
\* a reference is an image that the reference has denoted.
THEOREM StoreRootfs == Spec => []RootfsPristine
<1>1. ASSUME Named, Stored
      PROVE  RootfsPristine
  <2>. SUFFICES ASSUME NEW key \in rootfs.mem \intersect DOMAIN rootfs.file
                PROVE  /\ rootfs.file[key].inj = <<>>
                       /\ Len(key) = 2 =>
                            rootfs.file[key].base \in {RootfsOf(m) : m \in Denoted(key[1])}
    BY Zenon DEF RootfsPristine
  <2>1. rootfs.file[key].inj = <<>> /\ Serves(registry, key, rootfs.file[key].base)
    BY <1>1, Zenon DEF Stored, RootfsServes
  <2>2. ASSUME Len(key) = 2
        PROVE  rootfs.file[key].base \in {RootfsOf(m) : m \in Denoted(key[1])}
    <3>1. \A m : key # <<m>>
      BY <2>2
    <3>2. PICK k \in Refs : \E m \in Manifests : \E x \in DenotedIn(registry, DirOf[k]) :
             key = <<k, m>> /\ rootfs.file[key].base = RootfsOf(x)
      BY <2>1, <3>1, Zenon DEF Serves
    <3>3. PICK m \in Manifests : \E x \in DenotedIn(registry, DirOf[k]) :
             key = <<k, m>> /\ rootfs.file[key].base = RootfsOf(x)
      BY <3>2
    <3>4. PICK x \in DenotedIn(registry, DirOf[k]) : rootfs.file[key].base = RootfsOf(x)
      BY <3>3
    <3>5. key[1] = k
      BY <3>3
    <3>6. x \in Denoted(key[1])
      BY <3>5, DenotedIsIn, Zenon
    <3>. QED BY <3>4, <3>6, Zenon
  <2>. QED BY <2>1, <2>2
<1>. QED BY <1>1, StoreInvariant, PTL

-----------------------------------------------------------------------------
\* A step that leaves ok alone.
LEMMA NotDoneWell ==
    ASSUME Shapes, NEW r \in Requests, req[r].ok # TRUE, NEW f, Set(r, f), f.ok = req[r].ok
    PROVE  req'[r].ok # TRUE
<1>1. req'[r] = f
  BY DEF Set, Shapes
<1>. QED BY <1>1, Zenon

\* A create request ends well in no step but Inject.
LEMMA OnlyInjectHandsOut ==
    ASSUME Named, NEW r \in Requests, Step(r), req[r].pc # "done",
           req'[r].ok = TRUE, req'[r].op = "create"
    PROVE  Inject(r)
<1>. DEFINE q == req[r]
<1>1. Shapes /\ IsRequest(q) /\ q.ok # TRUE
  BY Zenon DEF Named, Shapes, RequestsNameTags
<1>2. ~Failed(r) /\ ~ConversionFailed(r)
  BY <1>1, FailedMoves, ConversionFailedMoves, Zenon
<1>3. \A pc : ~Goto(r, pc)
  BY <1>1, GotoMoves, Zenon
<1>4. \A i : ~Set(r, [q EXCEPT !.i = i])
  <2>1. \A i : [q EXCEPT !.i = i].ok = q.ok
    BY <1>1 DEF IsRequest
  <2>. QED BY <1>1, <2>1, NotDoneWell, Zenon
<1>5. \A pc, i : ~Set(r, [q EXCEPT !.pc = pc, !.i = i])
  <2>1. \A pc, i : [q EXCEPT !.pc = pc, !.i = i].ok = q.ok
    BY <1>1 DEF IsRequest
  <2>. QED BY <1>1, <2>1, NotDoneWell, Zenon
<1>6. \A pc, path : ~Set(r, [q EXCEPT !.pc = pc, !.path = path])
  <2>1. \A pc, path : [q EXCEPT !.pc = pc, !.path = path].ok = q.ok
    BY <1>1 DEF IsRequest
  <2>. QED BY <1>1, <2>1, NotDoneWell, Zenon
<1>7. ~CreateSandbox(r)
  <2>1. \A pc, ref : [q EXCEPT !.pc = pc, !.op = "create", !.ref = ref].ok = q.ok
    BY <1>1 DEF IsRequest
  <2>2. \A pc, ref : ~Set(r, [q EXCEPT !.pc = pc, !.op = "create", !.ref = ref])
    BY <1>1, <2>1, NotDoneWell, Zenon
  <2>. QED BY <2>2, Zenon DEF CreateSandbox
<1>8. ~PullImage(r)
  <2>1. \A pc, ref : [q EXCEPT !.pc = pc, !.op = "pull", !.ref = ref].ok = q.ok
    BY <1>1 DEF IsRequest
  <2>2. \A pc, ref : ~Set(r, [q EXCEPT !.pc = pc, !.op = "pull", !.ref = ref])
    BY <1>1, <2>1, NotDoneWell, Zenon
  <2>3. \A ref, path : ~Set(r, [q EXCEPT !.pc = "done", !.op = "pull", !.ref = ref,
                                         !.path = path, !.ok = TRUE])
    <3>. SUFFICES ASSUME NEW ref, NEW path,
                         Set(r, [q EXCEPT !.pc = "done", !.op = "pull", !.ref = ref,
                                          !.path = path, !.ok = TRUE])
                  PROVE  FALSE
      BY Zenon
    <3>1. req'[r].op = "pull"
      BY <1>1, Zenon DEF Set, Shapes, IsRequest
    <3>. QED BY <3>1
  <2>. QED BY <2>2, <2>3, Zenon DEF PullImage
<1>9. ~FetchManifest(r)
  <2>1. \A m : [q EXCEPT !.pc = "config", !.m = m].ok = q.ok
    BY <1>1 DEF IsRequest
  <2>2. \A m : ~Set(r, [q EXCEPT !.pc = "config", !.m = m])
    BY <1>1, <2>1, NotDoneWell, Zenon
  <2>. QED BY <1>2, <2>2, Zenon DEF FetchManifest
<1>10. ~OpenTmp(r)
  <2>1. \A tmp, good : [q EXCEPT !.pc = "stream", !.tmp = tmp, !.at = 0, !.good = good].ok = q.ok
    BY <1>1 DEF IsRequest
  <2>2. \A tmp, good :
           ~Set(r, [q EXCEPT !.pc = "stream", !.tmp = tmp, !.at = 0, !.good = good])
    BY <1>1, <2>1, NotDoneWell, Zenon
  <2>. QED BY <1>2, <2>2, Zenon DEF OpenTmp
<1>11. ~StreamChunk(r)
  <2>1. \A at : [q EXCEPT !.at = at].ok = q.ok
    BY <1>1 DEF IsRequest
  <2>2. \A at : ~Set(r, [q EXCEPT !.at = at])
    BY <1>1, <2>1, NotDoneWell, Zenon
  <2>. QED BY <1>2, <2>2, Zenon DEF StreamChunk
<1>12. ~OpenLayout(r)
  <2>1. \A key, ls : [q EXCEPT !.pc = "l2", !.key = key, !.layers = ls].ok = q.ok
    BY <1>1 DEF IsRequest
  <2>2. \A key, ls : ~Set(r, [q EXCEPT !.pc = "l2", !.key = key, !.layers = ls])
    BY <1>1, <2>1, NotDoneWell, Zenon
  <2>. QED BY <1>2, <2>2, Zenon DEF OpenLayout
<1>13. ~CacheImage(r)
  <2>1. ASSUME CacheImage(r)
        PROVE  q.op = "pull" /\ Set(r, [q EXCEPT !.pc = "done", !.ok = TRUE])
    BY <2>1, Zenon DEF CacheImage
  <2>2. ASSUME CacheImage(r)
        PROVE  req'[r].op = "pull"
    <3>. DEFINE f == [q EXCEPT !.pc = "done", !.ok = TRUE]
    <3>1. IsRequest(f) /\ f.op = q.op
      BY <1>1, Zenon DEF IsRequest
    <3>. HIDE DEF f
    <3>2. req'[r] = f
      BY <1>1, <2>1, <2>2, <3>1, SetMoves, Zenon DEF f
    <3>. QED BY <2>1, <2>2, <3>1, <3>2, Zenon
  <2>. QED BY <2>2
<1>14. ~Authenticate(r) /\ ~NextLayer(r) /\ ~WriteIndex(r) /\ ~WriteManifestJson(r)
  BY <1>2, <1>3, <1>4, Zenon DEF Authenticate, NextLayer, WriteIndex, WriteManifestJson
<1>15. ~FetchConfig(r) /\ ~FinishStream(r) /\ ~StartExtract(r) /\ ~FlushBlobs(r)
  BY <1>2, <1>5, Zenon DEF FetchConfig, FinishStream, StartExtract, FlushBlobs
<1>16. ~Extract(r) /\ ~InsertBlob(r)
  BY <1>2, <1>3, <1>4, <1>5, Zenon DEF Extract, InsertBlob
<1>17. ~CloneRootfs(r) /\ ~WriteCpio(r)
  BY <1>2, <1>6, Zenon DEF CloneRootfs, WriteCpio
<1>18. ~CopyRootfs(r) /\ ~InsertRootfs(r) /\ ~StubImage(r)
  BY <1>3, Zenon DEF CopyRootfs, InsertRootfs, StubImage
<1>. QED BY <1>7, <1>8, <1>9, <1>10, <1>11, <1>12, <1>13, <1>14, <1>15, <1>16, <1>17, <1>18,
            Zenon DEF Step

\* What a key stands for is an image of the request that uses it.
LEMMA KeyIsOwn ==
    ASSUME Named, NEW q, KeyMatches(q), NEW fs, Serves(registry, q.key, fs)
    PROVE  fs \in {RootfsOf(m) : m \in Denoted(q.ref)}
<1>. DEFINE d == DirOf[q.ref]
<1>. SUFFICES \E m \in DenotedIn(registry, d) : fs = RootfsOf(m)
  BY DenotedIsIn, Zenon
<1>1. CASE \E m \in Manifests : q.key = <<m>> /\ fs = RootfsOf(m)
  <2>1. PICK m \in Manifests : q.key = <<m>> /\ fs = RootfsOf(m)
    BY <1>1
  <2>2. \A k, n : q.key # <<k, n>>
    BY <2>1
  <2>3. PICK x \in DenotedIn(registry, d) : q.key = <<x>>
    BY <2>2, Zenon DEF KeyMatches
  <2>4. x = m
    BY <2>1, <2>3
  <2>. QED BY <2>1, <2>3, <2>4, Zenon
<1>2. CASE \E k \in Refs : \E m \in Manifests : \E x \in DenotedIn(registry, DirOf[k]) :
              q.key = <<k, m>> /\ fs = RootfsOf(x)
  <2>1. PICK k \in Refs : \E m \in Manifests : \E x \in DenotedIn(registry, DirOf[k]) :
              q.key = <<k, m>> /\ fs = RootfsOf(x)
    BY <1>2
  <2>2. PICK m \in Manifests : q.key = <<k, m>>
    BY <2>1
  <2>3. \A x : q.key # <<x>>
    BY <2>2
  <2>4. PICK j \in Refs : \E n \in Manifests : DirOf[j] = d /\ q.key = <<j, n>>
    BY <2>3, Zenon DEF KeyMatches
  <2>5. j = k
    BY <2>2, <2>4
  <2>. QED BY <2>1, <2>4, <2>5, Zenon
<1>. QED BY <1>1, <1>2, Zenon DEF Serves

\* A step of one request leaves the others alone.
LEMMA StepMoves ==
    ASSUME Named, NEW s \in Requests, Step(s)
    PROVE  \A r \in Requests \ {s} : req'[r] = req[r]
<1>1. ASSUME NEW f, Set(s, f), NEW r \in Requests \ {s}
      PROVE  req'[r] = req[r]
  BY <1>1 DEF Set, Named, Shapes
<1>2. ASSUME NEW pc, Goto(s, pc), NEW r \in Requests \ {s}
      PROVE  req'[r] = req[r]
  BY <1>2 DEF Goto, Named, Shapes
<1>3. (\E f : Set(s, f)) \/ (\E pc : Goto(s, pc))
  <2>1. Failed(s) \/ ConversionFailed(s) => \E f : Set(s, f)
    BY Zenon DEF Failed, ConversionFailed
  <2>2. CASE CreateSandbox(s) \/ PullImage(s) \/ Authenticate(s) \/ FetchManifest(s)
    BY <2>1, <2>2, Zenon DEF CreateSandbox, PullImage, Authenticate, FetchManifest
  <2>3. CASE FetchConfig(s) \/ NextLayer(s) \/ OpenTmp(s) \/ StreamChunk(s)
    BY <2>1, <2>3, Zenon DEF FetchConfig, NextLayer, OpenTmp, StreamChunk
  <2>4. CASE FinishStream(s) \/ WriteIndex(s) \/ WriteManifestJson(s) \/ OpenLayout(s)
    BY <2>1, <2>4, Zenon DEF FinishStream, WriteIndex, WriteManifestJson, OpenLayout
  <2>5. CASE CloneRootfs(s) \/ StartExtract(s) \/ Extract(s) \/ InsertBlob(s)
    BY <2>1, <2>5, Zenon DEF CloneRootfs, StartExtract, Extract, InsertBlob
  <2>6. CASE FlushBlobs(s) \/ WriteCpio(s) \/ CopyRootfs(s) \/ InsertRootfs(s)
    BY <2>1, <2>6, Zenon DEF FlushBlobs, WriteCpio, CopyRootfs, InsertRootfs
  <2>7. CASE Inject(s) \/ CacheImage(s) \/ StubImage(s)
    BY <2>7, Zenon DEF Inject, CacheImage, StubImage
  <2>. QED BY <2>2, <2>3, <2>4, <2>5, <2>6, <2>7, Zenon DEF Step
<1>. QED BY <1>1, <1>2, <1>3, Zenon

\* A create that ends well hands the VM an archive of an image that its own
\* reference has denoted, with its own overlays and no others.
THEOREM StoreOwnImage == Spec => HandsOutOwnImage
<1>1. ASSUME Named, Stored, [Next]_vars, NEW r \in Requests, HandsOut(r)
      PROVE  IsOwnImage(r)
  <2>1. Inject(r)
    <3>1. CASE \E s \in Requests : Step(s)
      <4>1. PICK s \in Requests : Step(s)
        BY <3>1
      <4>2. s = r
        BY <1>1, <4>1, StepMoves, Zenon DEF HandsOut
      <4>. QED BY <1>1, <4>1, <4>2, OnlyInjectHandsOut, Zenon DEF HandsOut
    <3>2. CASE UNCHANGED req
      BY <1>1, <3>2, Zenon DEF HandsOut
    <3>3. CASE Restart
      <4>1. req' = [s \in Requests |-> IF req[s].pc = "idle" THEN Idle
                                       ELSE [Idle EXCEPT !.pc = "crashed"]]
        BY <3>3, Zenon DEF Restart
      <4>2. req'[r].pc \in {"idle", "crashed"}
        BY <4>1 DEF Idle
      <4>. QED BY <1>1, <4>2 DEF HandsOut
    <3>. QED BY <1>1, <3>1, <3>2, <3>3, Zenon DEF Next, RemoveImage, MoveTag, vars
  <2>. DEFINE path == req[r].path
  <2>2. /\ req'[r].path = path
        /\ path \in DOMAIN cpio' => /\ Serves(registry, req[r].key, cpio'[path].base)
                                    /\ cpio'[path].inj = OverlaysOf(r)
    BY <1>1, <2>1, InjectSafe, Zenon
  <2>3. req[r].pc \in Converting
    BY <2>1, Zenon DEF Inject, Converting
  <2>4. KeyMatches(req[r])
    BY <1>1, <2>3, Zenon DEF Stored, Conversion
  <2>5. ASSUME NEW fs, Serves(registry, req[r].key, fs)
        PROVE  fs \in {RootfsOf(m) : m \in Denoted(req[r].ref)}
    BY <1>1, <2>4, <2>5, KeyIsOwn
  <2>. QED BY <2>2, <2>5, Zenon DEF IsOwnImage, OverlaysOf
<1>2. Named /\ Stored /\ [Next]_vars => [\A r \in Requests : HandsOut(r) => IsOwnImage(r)]_vars
  BY <1>1
<1>. QED BY <1>2, StoreInvariant, PTL DEF Spec, HandsOutOwnImage
=============================================================================
