----------------------------- MODULE BootLoader -----------------------------
(***************************************************************************)
(* The boot loader, boot/boot.S and boot/main.c, and the first statement   *)
(* of the kernel, the clearing of its BSS in i386_init, which completes    *)
(* the loading.                                                            *)
(*                                                                         *)
(* A byte of memory is the number of the byte of the kernel file it holds, *)
(* or one of Stale (what the BIOS left), Zero and Garbage (read from a     *)
(* disk that was not ready).  Sector s of the disk holds the bytes         *)
(* (s-1)*SECTSIZE .. s*SECTSIZE-1 of the kernel file; sector 0 is the      *)
(* loader.  "image" is what the file's headers say.                        *)
(*                                                                         *)
(* Hardware: the keyboard controller opens address line 20 when it has     *)
(* taken the bytes 0xD1 and 0xDF, one after the other, and loses a byte    *)
(* that is written while another one waits; the disk is busy from a read   *)
(* command until its data are there.  The controller takes a byte within   *)
(* microseconds and a disk read is a matter of milliseconds, so a read     *)
(* does not end while a byte waits.                                        *)
(***************************************************************************)
EXTENDS Integers, Sequences

CONSTANTS
  SECTSIZE,    \* 512
  HdrSectors,  \* sectors that hold the ELF header and program headers, 8
  ELFHDR,      \* where they are put, 0x10000
  A20,         \* the value of address line 20, 2^20
  MemSize,     \* bytes of memory
  Images       \* the kernel images that are booted

(* What the loader uses of struct Proghdr and struct Elf, with the symbols *)
(* edata and end of the kernel.                                            *)
Proghdr == [p_pa : Nat, p_memsz : Nat, p_filesz : Nat, p_offset : Nat]

Elf == [elf : BOOLEAN, segs : Seq(Proghdr), edata : Nat, end : Nat]

HdrEnd == ELFHDR + SECTSIZE * HdrSectors

ASSUME LayoutAssumption ==
  /\ {SECTSIZE, HdrSectors, A20, MemSize} \subseteq Nat \ {0}
  /\ ELFHDR \in Nat /\ ELFHDR % SECTSIZE = 0 /\ HdrEnd <= MemSize
  /\ Images \subseteq Elf

RoundDown(pa) == pa - (pa % SECTSIZE)

(***************************************************************************)
(* A kernel as kern/kernel.ld makes it.  A segment lies in memory, above   *)
(* the headers, and its file offset agrees with its address within a       *)
(* sector; a later one begins on a sector of its own; a header for nothing *)
(* (the stack's, which ld adds) has size 0.  The BSS is part of a segment  *)
(* and follows all that comes from the file.                               *)
(***************************************************************************)
Aligned(s) == s.p_pa % SECTSIZE = s.p_offset % SECTSIZE

Nothing(s) ==
  s.p_memsz = 0 /\ s.p_filesz = 0 /\ s.p_pa % SECTSIZE = 0 /\ Aligned(s)

Placed(s) ==
  /\ s.p_pa >= HdrEnd /\ s.p_pa + s.p_memsz <= MemSize
  /\ s.p_filesz <= s.p_memsz /\ Aligned(s)

Linked(e) ==
  /\ \A k \in 1..Len(e.segs) :
       LET s == e.segs[k]
       IN  \/ Nothing(s)
           \/ /\ Placed(s) /\ s.p_pa + s.p_filesz <= e.edata
              /\ \A j \in 1..k-1 :
                   e.segs[j].p_pa + e.segs[j].p_filesz <= RoundDown(s.p_pa)
  /\ \E k \in 1..Len(e.segs) :
       LET s == e.segs[k]
       IN  Placed(s) /\ s.p_pa <= e.edata /\ e.end <= s.p_pa + s.p_memsz

ASSUME ImageAssumption == \A e \in Images : e.elf => Linked(e)

VARIABLES
  image,
  pc,
  seg,        \* arguments and locals of readseg: pa, end_pa and sector
  ph,         \* number of program headers loaded so far
  mem,
  a20,        \* hardware: line 20 is open
  kbc_in,     \* hardware: the byte waiting in the keyboard controller, or 0
  kbc_port,   \* hardware: the controller expects the output port's value
  disk        \* hardware: ready or busy, and the sector last asked for

kbc  == <<a20, kbc_in, kbc_port>>
vars == <<image, pc, seg, ph, mem, kbc, disk>>

Stale   == -1
Zero    == -2
Garbage == -3
Address == 0..MemSize-1

(* The address that reaches the memory while line 20 is tied low. *)
Wired(a) == IF a20 \/ (a \div A20) % 2 = 0 THEN a ELSE a - A20

(***************************************************************************)
(* boot.S.                                                                 *)
(***************************************************************************)
start ==
  /\ pc = "start"
  /\ pc' = "seta20.1"
  /\ UNCHANGED <<image, seg, ph, mem, kbc, disk>>

(* Mutant: the controller is not waited for. *)
NotAwaited == TRUE

KbcReady == kbc_in = 0

(* Wait for not busy, then send the byte. *)
seta20(from, byte, to) ==
  /\ pc = from /\ KbcReady
  /\ kbc_in' = byte /\ pc' = to
  /\ UNCHANGED <<image, seg, ph, mem, a20, kbc_port, disk>>

(* Mutant: the offset is rounded up. *)
SectorUp(offset) == ((offset + SECTSIZE - 1) \div SECTSIZE) + 1

(* Bytes to sectors, and the kernel starts at sector 1. *)
Sector(offset) == (offset \div SECTSIZE) + 1

(* readseg up to its loop. *)
readseg(pa, count, offset) ==
  seg' = [pa     |-> RoundDown(pa),
          end_pa |-> pa + count,
          sector |-> Sector(offset)]

(* Load the GDT, switch to protected mode, set up the stack, call bootmain *)
(* and enter its first readseg.                                            *)
protcseg ==
  /\ pc = "prot" /\ readseg(ELFHDR, SECTSIZE * HdrSectors, 0)
  /\ pc' = "loop"
  /\ UNCHANGED <<image, ph, mem, kbc, disk>>

(***************************************************************************)
(* The loop of readseg and the two halves of readsect, each behind a       *)
(* waitdisk.                                                               *)
(***************************************************************************)
NextSector ==
  /\ pc = "loop" /\ seg.pa < seg.end_pa
  /\ pc' = "readsect"
  /\ UNCHANGED <<image, seg, ph, mem, kbc, disk>>

Ready == disk.state = "ready"

Command ==
  /\ pc = "readsect" /\ Ready
  /\ disk' = [state |-> "busy", sector |-> seg.sector]
  /\ pc' = "insl"
  /\ UNCHANGED <<image, seg, ph, mem, kbc>>

(* What the data port gives for byte k of the sector. *)
DataPort(k) == IF Ready THEN (disk.sector - 1) * SECTSIZE + k ELSE Garbage

Stored(pa) ==
  [a \in Address |->
     LET K == {k \in 0..SECTSIZE-1 : Wired(pa + k) = a}
     IN  IF K = {} THEN mem[a] ELSE DataPort(CHOOSE k \in K : TRUE)]

(* Mutant: the loop of readseg stays where it is. *)
NotAdvanced == seg

Advanced == [seg EXCEPT !.pa = @ + SECTSIZE, !.sector = @ + 1]

insl ==
  /\ pc = "insl" /\ Ready
  /\ mem' = Stored(seg.pa) /\ seg' = Advanced /\ pc' = "loop"
  /\ UNCHANGED <<image, ph, kbc, disk>>

(***************************************************************************)
(* bootmain, after a readseg.  The headers are read where they were put.   *)
(***************************************************************************)
SegDone == pc = "loop" /\ seg.pa >= seg.end_pa

HeaderIntact ==
  \A k \in 0..SECTSIZE*HdrSectors-1 : mem[Wired(ELFHDR + k)] = k

BadMagic ==
  /\ SegDone /\ ph = 0 /\ ~(HeaderIntact /\ image.elf)
  /\ pc' = "bad"
  /\ UNCHANGED <<image, seg, ph, mem, kbc, disk>>

(* ph < eph: the next segment, from whatever the headers say by now. *)
NextSegment ==
  /\ SegDone
  /\ ph = 0 => HeaderIntact /\ image.elf
  /\ ph < Len(image.segs)
  /\ ph' = ph + 1
  /\ IF HeaderIntact
       THEN LET s == image.segs[ph + 1]
            IN  readseg(s.p_pa, s.p_memsz, s.p_offset) /\ pc' = "loop"
       ELSE pc' = "lost" /\ UNCHANGED seg
  /\ UNCHANGED <<image, mem, kbc, disk>>

(* Through e_entry, which is read from the header too. *)
Enter ==
  /\ SegDone
  /\ ph = 0 => HeaderIntact /\ image.elf
  /\ ph = Len(image.segs)
  /\ pc' = IF HeaderIntact THEN "entry" ELSE "lost"
  /\ UNCHANGED <<image, seg, ph, mem, kbc, disk>>

(* i386_init: memset(edata, 0, end - edata).                               *)
ClearBss ==
  /\ pc = "entry"
  /\ mem' = [a \in Address |->
               IF \E v \in image.edata..image.end-1 : Wired(v) = a
                 THEN Zero ELSE mem[a]]
  /\ pc' = "running"
  /\ UNCHANGED <<image, seg, ph, kbc, disk>>

(***************************************************************************)
(* Hardware steps.                                                         *)
(***************************************************************************)
KbcTakes ==
  /\ kbc_in # 0
  /\ kbc_port' = (kbc_in = 209)                         \* 0xD1
  /\ a20' = (a20 \/ (kbc_port /\ kbc_in = 223))         \* 0xDF
  /\ kbc_in' = 0
  /\ UNCHANGED <<image, pc, seg, ph, mem, disk>>

DiskDone ==
  /\ disk.state = "busy" /\ kbc_in = 0
  /\ disk' = [disk EXCEPT !.state = "ready"]
  /\ UNCHANGED <<image, pc, seg, ph, mem, kbc>>

(* The BIOS may have opened line 20 already, and may have left a byte in   *)
(* the keyboard controller or the disk busy.                               *)
Init ==
  /\ image \in Images /\ pc = "start" /\ ph = 0
  /\ seg = [pa |-> 0, end_pa |-> 0, sector |-> 0]
  /\ mem = [a \in Address |-> Stale]
  /\ a20 \in BOOLEAN /\ kbc_in \in {0, 174} /\ kbc_port = FALSE
  /\ disk \in [state : {"ready", "busy"}, sector : {0}]

Loader ==
  \/ start
  \/ seta20("seta20.1", 209, "seta20.2")
  \/ seta20("seta20.2", 223, "prot")
  \/ protcseg
  \/ NextSector \/ Command \/ insl
  \/ BadMagic \/ NextSegment \/ Enter \/ ClearBss

(* The loop for a bad image, and the kernel's life after the loading. *)
Spin == pc \in {"bad", "running"} /\ UNCHANGED vars

Next == Loader \/ KbcTakes \/ DiskDone \/ Spin

Spec == Init /\ [][Next]_vars

-----------------------------------------------------------------------------
(***************************************************************************)
(* Properties.                                                             *)
(***************************************************************************)
(* When control is handed to the kernel, every byte of every segment that  *)
(* comes from the file is in its place: neither the rounding to sectors,   *)
(* nor a later segment, nor the tied address line has damaged it.  Once    *)
(* i386_init has begun, its static variables are zero too, although the    *)
(* loader filled them with what follows in the file.                       *)
KernelInPlace ==
  /\ pc \in {"entry", "running"} =>
       \A n \in 1..Len(image.segs) :
         LET s == image.segs[n]
         IN  \A k \in 0..s.p_filesz-1 : mem[s.p_pa + k] = s.p_offset + k
  /\ pc = "running" => \A a \in image.edata..image.end-1 : mem[a] = Zero

RoundUp(n) == n + ((-n) % SECTSIZE)

(* The sectors of memory that are asked for. *)
Asked ==
  (ELFHDR..HdrEnd-1) \cup
  UNION {LET s == image.segs[n]
         IN  RoundDown(s.p_pa)..RoundUp(s.p_pa + s.p_memsz)-1 :
         n \in 1..Len(image.segs)}

(* Reading whole sectors writes to no sector that was not asked for, so    *)
(* that the loader's own code and stack survive, and no segment falls onto *)
(* the program headers while they are still needed: both would happen      *)
(* while line 20 is tied low.                                              *)
NoDamage ==
  /\ \A a \in Address \ Asked : mem[a] = Stale
  /\ pc \in {"loop", "readsect", "insl"} /\ ph > 0 => HeaderIntact

(* The machine ends up in the kernel, or in the loop for a bad image. *)
Boots == <>(pc = IF image.elf THEN "running" ELSE "bad")
=============================================================================
