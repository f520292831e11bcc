-------------------------------- MODULE Image --------------------------------
(***************************************************************************)
(* How the root task gets from its ELF file to EL0. crates/k0-boot/build.rs *)
(* checks the program headers and flattens the file into an image that is   *)
(* embedded in the kernel with its hash; at boot verify_root_task compares  *)
(* the hash, spawn_root of crates/k0-task copies the image and maps it      *)
(* segment by segment, and check_user_wx of kernel/src/main.rs probes the   *)
(* result with AT instructions before the hand-over.                        *)
(*                                                                          *)
(* The file is read header by header, each any member of Headers. A byte    *)
(* of the file is represented by its offset plus one, so that 0 is the zero *)
(* byte and a wrong copy shows. The image may be damaged after the build.   *)
(***************************************************************************)
EXTENDS PageTables, SequencesExt

CONSTANTS
  Headers,          \* program headers: type, flags, offset, vaddr, filesz, memsz
  Entries,          \* e_entry
  ELF_LEN,          \* bytes in the file
  MAX_HEADERS,      \* bound on phnum
  MAX_SEGS,         \* 4
  SEG_ALIGN,        \* 16 KiB, a multiple of both granules
  MAX_FLAT_SIZE,
  AddrSize,         \* 2^64
  WindowBase, WindowFrames,   \* the boot window
  USER_STACK_TOP, USER_STACK_SIZE,
  BOOTINFO_VA,
  KernelText        \* physical address of __kernel_start

ASSUME ImageAssumption ==
  /\ SEG_ALIGN % G = 0 /\ MAX_FLAT_SIZE % SEG_ALIGN = 0 /\ WindowBase % G = 0
  /\ USER_STACK_TOP % G = 0 /\ USER_STACK_SIZE % G = 0 /\ BOOTINFO_VA % G = 0
  /\ Top < AddrSize

VARIABLES
  stage,
  phdrs,     \* the program headers read so far
  entry,
  segs,      \* Vec<LoadSeg> of build.rs
  rt,        \* what the build embeds: image, sha256, base, segments
  us,        \* the user tables and the frame allocator
  ram        \* bytes of the boot window

imgvars == <<stage, phdrs, entry, segs, rt, us, ram>>

seg_end(s) == s.vaddr + s.memsz

NoImage == [image |-> << >>, sha256 |-> << >>, base |-> 0, segments |-> << >>]

WindowGranules == {WindowBase + k * G : k \in 0 .. WindowFrames - 1}
WindowBytes == WindowBase .. WindowBase + WindowFrames * G - 1

\* FrameAlloc::new over the boot window, whose contents nobody has cleared.
frames_new == [r |-> "ok", root |-> 0, next |-> WindowBase, end |-> WindowBase + WindowFrames * G,
               tabs |-> [f \in WindowGranules |-> JunkTable]]

ImgInit ==
  /\ stage = "parse_elf"
  /\ phdrs = << >>
  /\ entry \in Entries
  /\ segs = << >>
  /\ rt = NoImage
  /\ us = frames_new
  /\ ram = [a \in WindowBytes |-> "junk"]

-----------------------------------------------------------------------------
(* build.rs *)

\* A failed assertion ends the build.
build_fails ==
  /\ stage' = "build failed"
  /\ segs' = << >> /\ phdrs' = << >>
  /\ UNCHANGED <<entry, rt, us, ram>>

\* The file is not an ELF64 executable for AArch64 with a whole header table.
bad_elf ==
  /\ stage = "parse_elf" /\ phdrs = << >>
  /\ build_fails

SegOk(h) ==
  /\ h.filesz <= h.memsz
  /\ h.offset + h.filesz <= ELF_LEN
  /\ seg_end(h) < AddrSize

\* One turn of the loop in parse_elf.
program_header(h) ==
  /\ stage = "parse_elf" /\ Len(phdrs) < MAX_HEADERS
  /\ \/ h.type = "LOAD" /\ ~SegOk(h) /\ build_fails
     \/ /\ h.type = "LOAD" => SegOk(h)
        /\ phdrs' = Append(phdrs, h)
        /\ segs' = IF h.type = "LOAD" /\ h.memsz > 0 THEN Append(segs, h) ELSE segs
        /\ UNCHANGED <<stage, entry, rt, us, ram>>

headers_end ==
  /\ stage = "parse_elf"
  /\ segs' = SortSeq(segs, LAMBDA s, t : s.vaddr < t.vaddr)
  /\ stage' = "flatten"
  /\ UNCHANGED <<phdrs, entry, rt, us, ram>>

\* The layout contract: aligned, ascending, disjoint, never both writable and
\* executable, and the entry point in an executable segment.
LayoutOk ==
  /\ Len(segs) \in 1..MAX_SEGS
  /\ \A i \in DOMAIN segs :
       /\ segs[i].vaddr % SEG_ALIGN = 0
       /\ i > 1 => segs[i].vaddr >= seg_end(segs[i-1])
       /\ ~({"W", "X"} \subseteq segs[i].flags)
  /\ \E i \in DOMAIN segs : "X" \in segs[i].flags /\ segs[i].vaddr <= entry /\ entry < seg_end(segs[i])

base == Head(segs).vaddr
\* prev_end.div_ceil(SEG_ALIGN) * SEG_ALIGN; an overflow panics.
flat_end == ((seg_end(Last(segs)) + SEG_ALIGN - 1) \div SEG_ALIGN) * SEG_ALIGN

\* Copies memsz bytes of the file.
flat_mutant ==
  [a \in 0 .. flat_end - base - 1 |->
     LET s == {i \in DOMAIN segs : segs[i].vaddr <= base + a /\ base + a < seg_end(segs[i])} IN
     IF s = {} THEN 0 ELSE LET i == CHOOSE i \in s : TRUE IN segs[i].offset + base + a - segs[i].vaddr + 1]

\* The flat image: filesz bytes of each segment at its place, zero elsewhere.
flat ==
  [a \in 0 .. flat_end - base - 1 |->
     LET s == {i \in DOMAIN segs : /\ segs[i].vaddr <= base + a
                                   /\ base + a < segs[i].vaddr + segs[i].filesz} IN
     IF s = {} THEN 0 ELSE LET i == CHOOSE i \in s : TRUE IN segs[i].offset + base + a - segs[i].vaddr + 1]

\* SHA-256, taken to be without collisions.
digest(data) == <<"sha256", data>>

kind(flags) == CASE "X" \in flags -> "Text"
                 [] "X" \notin flags /\ "W" \in flags -> "Rw"
                 [] OTHER -> "Ro"

RtSegment(s) == [va |-> s.vaddr, memsz |-> s.memsz, kind |-> kind(s.flags)]

\* main of build.rs, from the segment list to the generated source.
flatten ==
  /\ stage = "flatten"
  /\ \/ /\ ~(LayoutOk /\ flat_end < AddrSize /\ flat_end - base <= MAX_FLAT_SIZE)
        /\ build_fails
     \/ /\ LayoutOk /\ flat_end < AddrSize /\ flat_end - base <= MAX_FLAT_SIZE
        /\ rt' = [image |-> flat, sha256 |-> digest(flat), base |-> base,
                  segments |-> [i \in DOMAIN segs |-> RtSegment(segs[i])]]
        /\ stage' = "verify"
        /\ UNCHANGED <<phdrs, entry, segs, us, ram>>

\* A byte of the embedded image changes before it is verified.
damage ==
  /\ stage = "verify"
  /\ \E a \in {0, flat_end - base - 1} : rt' = [rt EXCEPT !.image[a] = -1]
  /\ UNCHANGED <<stage, phdrs, entry, segs, us, ram>>

-----------------------------------------------------------------------------
(* kernel_main *)

verify_root_task ==
  /\ stage = "verify"
  /\ stage' = IF digest(rt.image) = rt.sha256 THEN "spawn" ELSE "park"
  /\ UNCHANGED <<phdrs, entry, segs, rt, us, ram>>

perm(k) == CASE k = "Text" -> "text" [] k = "Ro" -> "RO" [] k = "Rw" -> "RW"

BadLayout(u) == [u EXCEPT !.r = "BadLayout"]

\* One segment: it must lie in the image [base, image_end), which starts at
\* the frame `frames'; its last granule is mapped whole.
map_segment(u, s, frames, image_end) ==
  LET done == us_map_range(u, s.va, frames + s.va - rt.base, align_up(s.memsz), perm(s.kind)) IN
  IF u.r # "ok" THEN u
  ELSE IF s.va < rt.base \/ s.va + s.memsz > image_end \/ s.va % G # 0 \/ s.memsz = 0 THEN BadLayout(u)
  ELSE IF done.r = "ok" /\ s.va <= entry /\ entry < s.va + s.memsz /\ s.kind # "Text" THEN BadLayout(done)
  ELSE done

\* Where the image is copied to: after the frame of the bootinfo page.
image_frames == frames_new.next + G

\* The frames and tables after spawn_root, with the reason if it failed.
spawned ==
  LET len    == Cardinality(DOMAIN rt.image)
      bi     == alloc_contig(frames_new, 1)
      copied == alloc_contig(bi, len \div G)
      new    == alloc_contig([copied EXCEPT !.root = copied.next], 1)
      mapped == FoldLeft(LAMBDA u, s : map_segment(u, s, image_frames, rt.base + len), new, rt.segments)
      inside == IF mapped.r = "ok" /\ ~(rt.base <= entry /\ entry < rt.base + len)
                THEN BadLayout(mapped) ELSE mapped
      stack  == IF inside.r = "ok" THEN alloc_contig(inside, USER_STACK_SIZE \div G) ELSE inside
      done   == us_map_range(stack, USER_STACK_TOP - USER_STACK_SIZE, inside.next, USER_STACK_SIZE, "RW")
  IN  IF rt.base % G # 0 \/ len % G # 0 \/ len = 0 \/ rt.segments = << >> \/ rt.base + len >= AddrSize
      THEN BadLayout(bi)
      ELSE us_map_range(done, BOOTINFO_VA, frames_new.next, G, "RO")

\* spawn_root; every frame that it allocates is cleared, and the image copied.
spawn_root ==
  /\ stage = "spawn"
  /\ us' = spawned
  /\ ram' = [a \in WindowBytes |->
               IF image_frames <= a /\ a - image_frames \in DOMAIN rt.image THEN rt.image[a - image_frames]
               ELSE IF a < us'.next THEN 0 ELSE ram[a]]
  /\ stage' = IF us'.r = "ok" THEN "check_user_wx" ELSE "park"
  /\ UNCHANGED <<phdrs, entry, segs, rt>>

\* AT S1E0R and S1E0W: what the page at va lets EL0 do. Every user page can be
\* read, by EL1 too as far as AT S1E1R tells.
PageAt(va) == IF va < Top THEN Translate(us.tabs, us.root, va) ELSE Null
can_user_read(va) == PageAt(va) # Null
can_user_write(va) == PageAt(va).perm = "RW"

\* Without the guard.
wx_checks_mutant(text) ==
  /\ can_user_read(text) /\ ~can_user_write(text)
  /\ can_user_write(USER_STACK_TOP - G)
  /\ can_user_read(BOOTINFO_VA) /\ ~can_user_write(BOOTINFO_VA)
  /\ ~can_user_read(KernelText)

\* The probes that the image can make fail; those of kernel addresses and of
\* PAN look at the kernel's own tables and at the CPU.
wx_checks(text) ==
  /\ can_user_read(text) /\ ~can_user_write(text)
  /\ can_user_write(USER_STACK_TOP - G)
  /\ ~can_user_read(USER_STACK_TOP - USER_STACK_SIZE - G)
  /\ can_user_read(BOOTINFO_VA) /\ ~can_user_write(BOOTINFO_VA)
  /\ ~can_user_read(KernelText)

check_user_wx ==
  LET texts == SelectSeq(rt.segments, LAMBDA s : s.kind = "Text") IN
  /\ stage = "check_user_wx"
  /\ stage' = IF texts # << >> /\ wx_checks(Head(texts).va) THEN "el0" ELSE "park"
  /\ UNCHANGED <<phdrs, entry, segs, rt, us, ram>>

ImgOver ==
  /\ stage \in {"build failed", "park", "el0"}
  /\ UNCHANGED imgvars

ImgNext ==
  \/ bad_elf
  \/ \E h \in Headers : program_header(h)
  \/ headers_end \/ flatten \/ damage
  \/ verify_root_task \/ spawn_root \/ check_user_wx
  \/ ImgOver

ImgSpec == ImgInit /\ [][ImgNext]_imgvars

-----------------------------------------------------------------------------
(* What the ELF file asks for, from its program headers alone *)

Loads == {i \in DOMAIN phdrs : phdrs[i].type = "LOAD" /\ phdrs[i].memsz > 0}
PageOf(va) == (va \div G) * G
Covers(i, va) == phdrs[i].vaddr <= va /\ va < align_up(seg_end(phdrs[i]))

StackBytes == USER_STACK_TOP - USER_STACK_SIZE .. USER_STACK_TOP - 1
BootinfoBytes == BOOTINFO_VA .. BOOTINFO_VA + G - 1

\* The byte at va of a page that segment i covers.
FileByte(i, va) ==
  IF va < phdrs[i].vaddr + phdrs[i].filesz THEN phdrs[i].offset + va - phdrs[i].vaddr + 1 ELSE 0

UserByte(va) == LET e == PageAt(va) IN ram[e.to + (va % G)]

\* When the root task is entered, each of its pages holds what the ELF file
\* says: the bytes of the file, then zeros to the end of the page, with the
\* permission of the segment; the stack is writable and clear, and nothing
\* else is mapped. No two pages share a frame, no page is a page table, and
\* the entry point can be executed.
MemoryIsTheProgram ==
  stage = "el0" =>
    /\ \A va \in 0 .. Top - 1 :
         LET e == PageAt(va)
             covering == {i \in Loads : Covers(i, va)} IN
         \/ \E i \in covering : /\ covering = {i}
                                /\ e.perm = perm(kind(phdrs[i].flags))
                                /\ UserByte(va) = FileByte(i, va)
         \/ covering = {} /\ va \in StackBytes /\ e.perm = "RW" /\ UserByte(va) = 0
         \/ covering = {} /\ va \in BootinfoBytes /\ e.perm = "RO"
         \/ covering = {} /\ va \notin StackBytes \cup BootinfoBytes /\ e = Null
    /\ \A p, q \in {k * G : k \in 0 .. Fan^4 - 1} : PageAt(p) # Null =>
         /\ PageAt(q).to = PageAt(p).to => p = q
         /\ \A f \in WindowGranules, i \in 0 .. Fan - 1 :
              us.tabs[f][i] = Entry(PageAt(p).to, "table") => f >= us.next
    /\ PageAt(entry).perm = "text"

\* Places that the program must leave alone: the null page, the stack and the
\* guard below it, bootinfo, the kernel's physical address, and what is
\* beyond the tables.
Forbidden(va) ==
  \/ va < G \/ va >= Top
  \/ USER_STACK_TOP - USER_STACK_SIZE - G <= va /\ va < USER_STACK_TOP
  \/ va \in BootinfoBytes
  \/ PageOf(va) = PageOf(KernelText)

Collides == \E i \in Loads, va \in 0 .. AddrSize - 1 : Covers(i, va) /\ Forbidden(va)

Damaged == rt # NoImage /\ rt.image # flat

\* An image that was built is refused by the boot for two reasons only, and
\* always for these: it was damaged after the build, or it lies on a place
\* that it must leave alone. The boot window always suffices, and the layout
\* that build.rs checks is one that spawn_root accepts.
BuiltImageBoots ==
  /\ stage = "park" => Damaged \/ Collides
  /\ stage = "el0" => ~Damaged /\ ~Collides
=============================================================================
