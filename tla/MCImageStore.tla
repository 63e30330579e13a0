----------------------------- MODULE MCImageStore -----------------------------
(* The instance of ImageStore that TLC checks.  Layer b replaces a file of  *)
(* the base layer, deletes another and empties a directory; layer c deletes *)
(* a directory.  The local image and the registry's share the base layer.   *)
EXTENDS ImageStore

File(p) == [kind |-> "file", path |-> p]
Whiteout(p) == [kind |-> "whiteout", path |-> p]
Opaque(p) == [kind |-> "opaque", path |-> p]

MCEntries ==
    [l \in {"a", "b", "c"} |->
        CASE l = "a" -> <<File(<<"etc", "x">>), File(<<"opt", "y">>), File(<<"sh">>)>>
          [] l = "b" -> <<File(<<"opt", "z">>), File(<<"sh">>), File(<<"lib">>),
                         Opaque(<<"opt">>)>>
          [] l = "c" -> <<Whiteout(<<"etc">>), Whiteout(<<"sh">>), File(<<"etc", "x">>)>>]

MCLayersOf == [m \in {"m1", "m2"} |-> IF m = "m1" THEN <<"a", "b">> ELSE <<"a", "c">>]
MCRefs == {"web:1", "web-1", "box", " "}
MCDirOf == [r \in MCRefs |-> IF r \in {"web:1", "web-1"} THEN "oci-web-1" ELSE r]
MCTagged == [r \in MCRefs |-> IF r = "web-1" THEN "m2" ELSE "m1"]
MCRetagged == [r \in MCRefs |-> IF r = "web:1" THEN "m2" ELSE MCTagged[r]]

Op(op, ref, cmd) == [op |-> op, ref |-> ref, cmd |-> cmd]
Load(ops, crashes, moves, removes, corrupt, agent) ==
    [ops |-> ops, crashes |-> crashes, moves |-> moves, removes |-> removes,
     corrupt |-> corrupt, agent |-> agent]

MCWorkloads ==
    { \* two sandboxes of one registry image, pulled at the same time
      Load(<<Op("create", "web:1", "c1"), Op("create", "web:1", "c2")>>, 0, 1, 0, TRUE, FALSE),
      \* a pull and a create that race, with a crash and a removal
      Load(<<Op("pull", "web:1", "none"), Op("create", "web:1", "c2")>>, 1, 0, 1, FALSE, FALSE),
      \* sandboxes of the local image and one of a registry image whose tag has
      \* moved, each on what the others left, with a crash
      Load(<<Op("create", "box", "c1"), Op("create", "box", "c2"), Op("create", "box", "none"),
             Op("create", "web:1", "c4")>>, 1, 1, 0, FALSE, TRUE),
      \* two pulls of one image, a sandbox of another, and a removal
      Load(<<Op("pull", "web:1", "none"), Op("pull", "web:1", "none"), Op("create", "box", "c3")>>,
           0, 0, 1, FALSE, TRUE),
      \* two images whose layouts share a directory
      Load(<<Op("create", "web:1", "c1"), Op("create", "web-1", "c2")>>, 0, 0, 0, FALSE, FALSE),
      Load(<<Op("pull", " ", "none"), Op("create", " ", "none")>>, 1, 0, 0, FALSE, FALSE)}
=============================================================================
