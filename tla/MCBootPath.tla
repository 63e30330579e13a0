---------------------------- MODULE MCBootPath ----------------------------
(***************************************************************************)
(* BootPath for TLC.  The layout workloads build one VM each from all      *)
(* combinations of kernels, initrd sizes and memory sizes; the others run  *)
(* two or three sandboxes of one or two images through all the caches.     *)
(***************************************************************************)
EXTENDS BootPath, TLC

CONSTANTS t1, t2, t3

Seg(paddr, vaddr, off, filesz, memsz, load) ==
  [paddr |-> paddr, vaddr |-> vaddr, off |-> off, filesz |-> filesz,
   memsz |-> memsz, load |-> load]
Elf(len, segs) == [magic |-> "elf", ok |-> TRUE, len |-> len, segs |-> segs,
                   sects |-> 0, version |-> 0]
Bz(len, sects, version) == [magic |-> "HdrS", ok |-> FALSE, len |-> len, segs |-> <<>>,
                            sects |-> sects, version |-> version]

\* A kernel at 16 MiB with data, bss and a note segment that is not loaded.
Vmlinux == Elf(40 * MiB, << Seg(16 * MiB, 0, 4096, 14 * MiB, 14 * MiB, TRUE),
                            Seg(0, 0, 0, 54, 54, FALSE),
                            Seg(30 * MiB, 0, 16 * MiB, 2 * MiB, 5 * MiB + 100, TRUE) >>)
\* One at 1 MiB by virtual address, all bss; a large one; one cut short.
Small == Elf(MiB, <<Seg(0, MiB, 0, 0, 3 * MiB, TRUE)>>)
Large == Elf(200 * MiB, <<Seg(16 * MiB, 0, 0, 150 * MiB, 154 * MiB, TRUE)>>)
Cut == Elf(4 * MiB, <<Seg(16 * MiB, 0, 0, 5 * MiB, 5 * MiB, TRUE)>>)
NotExec == [Vmlinux EXCEPT !.ok = FALSE]
Kernels == {Vmlinux, Small, Large, Cut, NotExec, Bz(9 * MiB, 0, \h20F), Bz(15 * MiB + 5 * 512, 4, \h20F),
            Bz(20 * MiB, 40, \h20F), Bz(9 * MiB, 4, \h1FF), Bz(500, 0, \h20F)}
Initrds == {0, 1, 30 * MiB + 5, 84 * MiB, 85 * MiB - 1, 85 * MiB, 400 * MiB, 512 * MiB, 512 * MiB + 1}

Nobody == [via |-> "nobody", image |-> None, digest |-> None, initrd |-> 0, rootfs |-> 0,
           asked |-> <<>>, vcpus |-> 1, kernel |-> Small, command |-> None,
           cmdline |-> 0, method |-> "elf"]
Daemon(image, digest, command) ==
  [Nobody EXCEPT !.via = "daemon", !.image = image, !.digest = digest,
                 !.initrd = 2 * MiB, !.command = command]
Alone(r) == [t \in Threads |-> IF t = t1 THEN r ELSE Nobody]
Three(a, b, c) == t1 :> a @@ t2 :> b @@ t3 :> c
Work(ops, tap, crashes, faults, refills) ==
  [ops |-> ops, tap |-> tap, crashes |-> crashes, faults |-> faults, refills |-> refills]

Layouts ==
  {Work(Alone([Daemon(<<"A">>, <<"dA">>, <<"c">>) EXCEPT !.kernel = k, !.initrd = i, !.asked = m]),
        FALSE, 0, 0, 0) : k \in Kernels, i \in Initrds \ {0}, m \in {<<>>, <<0>>, <<64>>, <<300>>}}
  \cup
  {Work(Alone([Nobody EXCEPT !.via = "main", !.kernel = k, !.initrd = i, !.asked = <<m>>,
                             !.method = e, !.cmdline = c]), FALSE, 0, 0, 0) :
      k \in Kernels, i \in Initrds, m \in {0, 1, 64, 512}, e \in {"elf", "bzimage"},
      c \in {0, 4095, 4096}}

A == Daemon(<<"A">>, <<"dA">>, <<"run">>)
AOther == Daemon(<<"A">>, <<"dA">>, <<"other">>)
B == Daemon(<<"B">>, <<"dB">>, <<"run">>)
NoImage == [Nobody EXCEPT !.via = "daemon", !.asked = <<200>>, !.rootfs = MiB]

Shared == { Work(Three(A, A, A), FALSE, 0, 1, 1),
            Work(Three(A, AOther, A), FALSE, 1, 0, 1),
            Work(Three(A, B, NoImage), FALSE, 0, 1, 1),
            Work(Three(A, A, B), TRUE, 0, 1, 1) }

MCWorkloads == Layouts \cup Shared
=============================================================================
