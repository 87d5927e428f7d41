----------------------------- MODULE MCStartup ------------------------------
(* Instances of Startup for TLC: sectors of two bytes, memory of sixteen    *)
(* bytes with line 20 at 8, the loader in 0..1, the headers in 2..5.        *)
EXTENDS Startup

Segs == [p_pa : 8..13, p_memsz : 1..4, p_filesz : 0..4, p_offset : 4..7]

(* One segment, or two in increasing order, the second one on a sector of  *)
(* its own: kernel.ld starts the data on a new page.                       *)
SegLists ==
  {<<s>> : s \in {t \in Segs : Placed(t)}} \cup
  {<<s, t>> : s \in {u \in Segs : Placed(u) /\ u.p_pa < 10 /\ u.p_filesz = u.p_memsz},
              t \in {u \in Segs : Placed(u) /\ u.p_pa % SECTSIZE = 0}}

InOrderOnDisk(l) ==
  Len(l) = 2 => /\ l[1].p_pa + l[1].p_memsz <= l[2].p_pa
                /\ l[1].p_offset + l[1].p_filesz <= l[2].p_offset

(* The header that ld adds for the stack. *)
GnuStack == [p_pa |-> 0, p_memsz |-> 0, p_filesz |-> 0, p_offset |-> 0]

(* The BSS is what the last segment has beyond its bytes of the file. *)
KernelImages ==
  {LET s == l[Len(l)]
   IN  [elf |-> TRUE, segs |-> l \o rest, edata |-> s.p_pa + s.p_filesz,
        end |-> s.p_pa + s.p_memsz] :
     l \in {k \in SegLists : InOrderOnDisk(k)}, rest \in {<<>>, <<GnuStack>>}}
  \cup {[elf |-> FALSE, segs |-> <<>>, edata |-> 8, end |-> 8]}
=============================================================================
