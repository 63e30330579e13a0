----------------------------- MODULE GuestImage -----------------------------
(***************************************************************************)
(* What build_vm puts into guest memory before the first instruction runs: *)
(* the kernel (vmlinux ELF or bzImage), the command line, the initrd, the  *)
(* boot parameters and, for an ELF kernel, page tables and a GDT.          *)
(*                                                                         *)
(* Guest memory is one region [0, mem).  A build is the sequence of writes *)
(* it makes, in the order of the code; each write is bounds-checked by     *)
(* GuestMemoryMmap and the first one that fails ends the build.  Contents  *)
(* are left out: a write is what it carries, where, and how many bytes.    *)
(*                                                                         *)
(*   kernel image: [magic, ok, len, segs, sects, version]                  *)
(*   VM config:    [mem, method, cmdline, initrd]   (initrd: bytes, 0 none)*)
(***************************************************************************)
EXTENDS Integers, Sequences

MiB == 1048576

\* nova-boot/src/layout.rs
GDT_ADDR == \h500
ZERO_PAGE_ADDR == \h7000
PAGE_TABLE_ADDR == \h9000
PDPT_ADDR == \hA000
PD_ADDR == \hB000
CMDLINE_ADDR == \h20000
CMDLINE_MAX_SIZE == 4096
KERNEL_LOAD_ADDR == MiB
INITRD_ADDR == 16 * MiB
InitrdMax == 512 * MiB

Write(what, addr, len) == [what |-> what, addr |-> addr, len |-> len]

\* GuestMemoryMmap::write_slice / write_obj on a single region at address 0.
InBounds(mem, w) == w.addr < mem /\ w.addr + w.len <= mem

-----------------------------------------------------------------------------
\* ElfKernel::parse: the PT_LOAD segments, <<>> for every error.  A program
\* header gives its physical address, or its virtual one if that is zero.
Loadable(seg) == seg.load
GuestAddr(seg) == IF seg.paddr # 0 THEN seg.paddr ELSE seg.vaddr
LoadSegments(k) ==
  IF k.magic # "elf" \/ ~k.ok THEN <<>> ELSE SelectSeq(k.segs, Loadable)

\* parse found segments, and load_into_memory finds their data in the file.
InFile(k, seg) == seg.filesz > 0 => seg.off + seg.filesz <= k.len
Boots64(k) == /\ LoadSegments(k) # <<>>
              /\ \A i \in 1 .. Len(LoadSegments(k)) : InFile(k, LoadSegments(k)[i])

\* ElfKernel::load_into_memory: the file part, then zeros for the rest.
SegmentWrites(seg) ==
  (IF seg.filesz > 0 THEN <<Write("kernel", GuestAddr(seg), seg.filesz)>> ELSE <<>>)
  \o (IF seg.memsz > seg.filesz
      THEN <<Write("kernel", GuestAddr(seg) + seg.filesz, seg.memsz - seg.filesz)>>
      ELSE <<>>)

\* The highest address the kernel uses, and the initrd's place above it:
\* 1 MiB of padding, then the next 4 KiB boundary.
SegmentEnd(seg) == GuestAddr(seg) + seg.memsz
KernelEnd(segs) == LET ends == {SegmentEnd(segs[i]) : i \in 1 .. Len(segs)}
                   IN  CHOOSE e \in ends : \A f \in ends : f <= e
InitrdAddrUnpadded(segs) == INITRD_ADDR   \* mutant: the bzImage's fixed address
InitrdAddr(segs) == (((KernelEnd(segs) + MiB) + 4095) \div 4096) * 4096

\* A kernel file as a linker lays it out: segments at 1 MiB or above that lie
\* apart and have no more bytes in the file than in memory.
Segments == [paddr : Nat, vaddr : Nat, off : Nat, filesz : Nat, memsz : Nat, load : BOOLEAN]
SegmentsApart(segs) ==
  /\ segs \in Seq(Segments)
  /\ \A i \in 1 .. Len(segs) : /\ GuestAddr(segs[i]) >= KERNEL_LOAD_ADDR
                               /\ segs[i].filesz <= segs[i].memsz
  /\ \A i, j \in 1 .. Len(segs) :
       i < j => \/ SegmentEnd(segs[i]) <= GuestAddr(segs[j])
                \/ SegmentEnd(segs[j]) <= GuestAddr(segs[i])
WellFormed(k) == k.len \in Nat /\ k.sects \in Nat /\ SegmentsApart(LoadSegments(k))

\* CmdlineBuilder::write_to_memory: the string and its terminator.
CmdlineWrite(cfg) == Write("cmdline", CMDLINE_ADDR, cfg.cmdline + 1)

\* load_initrd_at, if the configuration names an initrd.
InitrdWrites(cfg, addr) ==
  IF cfg.initrd = 0 THEN <<>> ELSE <<Write("initrd", addr, cfg.initrd)>>

PageTables == << Write("pml4", PAGE_TABLE_ADDR, 8),
                 Write("pdpt", PDPT_ADDR, 8),
                 Write("pd", PD_ADDR, 512 * 8) >>
Gdt == <<Write("gdt", GDT_ADDR, 3 * 8)>>
ZeroPage == <<Write("zero_page", ZERO_PAGE_ADDR, 4096)>>

\* The loop over the segments.
KernelWrites(segs) ==
  LET first[n \in 0 .. Len(segs)] ==
        IF n = 0 THEN <<>> ELSE first[n - 1] \o SegmentWrites(segs[n])
  IN  first[Len(segs)]

ElfWrites(cfg, segs) ==
  KernelWrites(segs)
  \o PageTables \o Gdt \o <<CmdlineWrite(cfg)>>
  \o InitrdWrites(cfg, InitrdAddr(segs)) \o ZeroPage

-----------------------------------------------------------------------------
\* BzImage::parse: the setup sectors (0 means 4) and the code after them.
SetupSize(k) == (1 + (IF k.sects = 0 THEN 4 ELSE k.sects)) * 512
BzParses(k) == /\ k.len >= \h268
               /\ k.magic = "HdrS" /\ k.version >= \h200
               /\ k.len >= SetupSize(k)
KernelCode(k) == k.len - SetupSize(k)

\* build_bzimage: the initrd goes to its fixed place before the kernel code.
BzWrites(cfg, k) ==
  <<CmdlineWrite(cfg)>> \o InitrdWrites(cfg, INITRD_ADDR)
  \o <<Write("kernel", KERNEL_LOAD_ADDR, KernelCode(k))>> \o ZeroPage

-----------------------------------------------------------------------------
\* boot_method "elf" decides; anything else looks at the magic.
IsElf(cfg, k) == cfg.method = "elf" \/ k.magic = "elf"

\* E820Entry table: what the guest kernel is told is RAM.
E820(mem) == << [addr |-> 0, size |-> \h9FC00],
                [addr |-> \h100000,
                 size |-> IF mem > \h100000 THEN mem - \h100000 ELSE 0] >>

\* build_vm's memory: <<writes>>, or <<>> when a step returns an error.
BuildImage(cfg, k) ==
  LET segs == LoadSegments(k)
      writes == IF IsElf(cfg, k) THEN ElfWrites(cfg, segs) ELSE BzWrites(cfg, k)
      parses == IF IsElf(cfg, k) THEN Boots64(k) ELSE BzParses(k)
  IN  IF /\ cfg.mem > 0
         /\ parses
         /\ cfg.cmdline < CMDLINE_MAX_SIZE
         /\ cfg.initrd <= InitrdMax
         /\ \A i \in 1 .. Len(writes) : InBounds(cfg.mem, writes[i])
      THEN <<writes>> ELSE <<>>

\* The boot CPU's registers: what each of them is to point at, and where.
LongModeEntry == {<<"pml4", PAGE_TABLE_ADDR>>, <<"gdt", GDT_ADDR>>, <<"zero_page", ZERO_PAGE_ADDR>>}
ProtectedEntry == {<<"kernel", KERNEL_LOAD_ADDR>>, <<"zero_page", ZERO_PAGE_ADDR>>}
Entry(cfg, k) == IF IsElf(cfg, k) THEN LongModeEntry ELSE ProtectedEntry

-----------------------------------------------------------------------------
\* create_sandbox's memory for an initrd of that many bytes (0: none).
MinMemoryMiBUnscaled(initrd) == IF initrd = 0 THEN 128 ELSE 256   \* mutant: floor only
MinMemoryMiB(initrd) ==
  IF initrd = 0 THEN 128
  ELSE LET mib == initrd \div MiB + 1
       IN  IF mib * 3 > 256 THEN mib * 3 ELSE 256

\* A sandbox's memory in bytes; asked is the request's memory_mib, <<>> when
\* the request carries no configuration.
SandboxMemory(asked, initrd) ==
  LET min == MinMemoryMiB(initrd)
      requested == IF asked[1] > 0 THEN asked[1] ELSE 512
  IN  MiB * (IF asked = <<>> THEN min ELSE IF requested > min THEN requested ELSE min)

-----------------------------------------------------------------------------
Overlap(v, w) == v.addr < w.addr + w.len /\ w.addr < v.addr + v.len
InRam(mem, w) ==
  \E i \in 1 .. 2 : LET e == E820(mem)[i]
                    IN  e.addr <= w.addr /\ w.addr + w.len <= e.addr + e.size

\* No write destroys what an earlier one put there, and the guest is told
\* that all of it is RAM.
Apart(mem, writes) ==
  /\ \A i, j \in 1 .. Len(writes) : i < j => ~Overlap(writes[i], writes[j])
  /\ \A i \in 1 .. Len(writes) : InRam(mem, writes[i])

\* Each register points at the start of what it is for.
PointsAt(regs, writes) ==
  \A r \in regs : \E i \in 1 .. Len(writes) : writes[i].what = r[1] /\ writes[i].addr = r[2]
=============================================================================
