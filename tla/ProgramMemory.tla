--------------------------- MODULE ProgramMemory ---------------------------
(***************************************************************************)
(* The memory of a process: its virtual regions (virtmem.rs), the virtual  *)
(* allocator that places them, the loader (process.rs) and the system      *)
(* calls malloc, free, realloc and the exec family (syscall.rs).           *)
(*                                                                         *)
(* One process: fork clones regions, allocator and environment, so a child *)
(* is in a state its parent could be in.  The memory behind the regions is *)
(* not modelled (it is module Allocator's; when it runs out, the kernel    *)
(* panics).  Of the data only the first word of a region is kept: malloc   *)
(* stores the size of the block there.  Strings are names with a length.   *)
(***************************************************************************)
EXTENDS Integers, FiniteSets, SequencesExt

CONSTANTS
    Word,       \* size_of::<usize>(), the alignment of malloc and the size of its header
    Space,      \* the addresses are 0..Space - 1
    StackSize,  \* PROGRAM_STACK_SIZE
    StashSize,  \* of the virtual allocator
    Sizes,      \* the sizes a program asks malloc for
    AnySize,    \* whether realloc may change the size of a block
    MaxHeld,    \* how many blocks a program has at a time
    MaxDepth,   \* of interpreters that are scripts themselves, 100 in the code
    Files,      \* the paths of files
    File,       \* what is in them
    Args, Envs, \* the argument lists, and the lists of environment values
    Length      \* of a string

ASSUME ProgramMemoryAssumption ==
    /\ {Word, Space, StackSize, StashSize, MaxHeld, MaxDepth} \subseteq Nat \ {0}
    /\ StackSize < Space
    /\ Sizes \subseteq Nat /\ AnySize \in BOOLEAN
    /\ Length \in [DOMAIN Length -> Nat]
    /\ Files \subseteq DOMAIN Length
    /\ Args \cup Envs \subseteq Seq(DOMAIN Length)
    /\ \A path \in Files :
         /\ File[path].type \in {"ELF", "SCRIPT", "FOREIGN", "SHORT"}
         /\ File[path].type = "ELF" =>
              File[path].headers \in Seq([type : {"LOAD", "INTERP", "OTHER"}, addr : Nat, len : Nat])
         /\ File[path].type = "SCRIPT" => File[path].opt_arg \in Seq(DOMAIN Length)

VARIABLES
    status,     \* of the process: "running", "exited"; or the kernel has panicked
    regions,    \* emu.memory.map
    virtual_allocator,
    argv,       \* the arguments in memory
    asked,      \* the file that runs, and the arguments and environment the exec was given
    held        \* the pointers the program has from malloc and not freed

vars == <<status, regions, virtual_allocator, argv, asked, held>>

\* How blocks are taken and freed; how long the heap is depends on the program
\* (alloc, below), so HeapLen is not used.
A == INSTANCE Allocator WITH Base <- 0, HeapLen <- Space, Aligns <- {1, Word},
                             heap <- virtual_allocator.heap

-----------------------------------------------------------------------------
(* Regions *)

Region(start, len, word) == [start |-> start, len |-> len, word |-> word]
get_virtual_end_inclusive(r) == r.start - 1 + r.len

overlaps_virtually_with(r, s) ==
    ~(r.start > get_virtual_end_inclusive(s)) /\ ~(get_virtual_end_inclusive(r) < s.start)

add_region(map, r) ==
    IF \E s \in map : overlaps_virtually_with(s, r) THEN [ok |-> FALSE, map |-> map]
    ELSE [ok |-> TRUE, map |-> map \cup {r}]

\* try_map: the region an address is in, as a set of at most one.
try_map(map, a) == {r \in map : a \in r.start .. get_virtual_end_inclusive(r)}

\* alloc and dealloc of the virtual allocator v; null is 0.
alloc(v, size, align) ==
    LET l == [size |-> size, align |-> align]
        pad == A!Padding(v.heap, l)
        start == v.heap.next + pad
    IN  IF pad # 0 /\ start >= v.len THEN [ptr |-> 0, va |-> v]
        ELSE IF start + size >= v.len THEN [ptr |-> 0, va |-> [v EXCEPT !.heap = A!Padded(@, l)]]
        ELSE [ptr |-> v.base + start, va |-> [v EXCEPT !.heap = A!Taken(@, l)]]

dealloc(v, ptr, size) ==
    [v EXCEPT !.heap = A!Freed(@, [addr |-> ptr - v.base, size |-> size, align |-> Word])]

-----------------------------------------------------------------------------
(* Loading a program *)

\* load_elf_into_virtual_memory, one program header.
load_header(acc, h) ==
    IF ~acc.ok \/ h.type = "OTHER" THEN acc
    ELSE IF h.type = "INTERP" THEN [ok |-> FALSE, map |-> acc.map, lower |-> acc.lower]
    ELSE LET r == add_region(acc.map, Region(h.addr, h.len, 0))
         IN  [ok |-> r.ok, map |-> r.map,
              lower |-> IF h.addr + h.len > acc.lower THEN h.addr + h.len ELSE acc.lower]

load_elf_into_virtual_memory(headers) ==
    LET after[i \in 0 .. Len(headers)] ==
            IF i = 0 THEN [ok |-> TRUE, map |-> {}, lower |-> 0] ELSE load_header(after[i - 1], headers[i])
    IN  after[Len(headers)]

Stack == Region(Space - StackSize, StackSize, 0)

\* The virtual heap: from the end of the segments to the stack.
BasicAlloc_from(lower) ==
    [base |-> lower, len |-> Space - 1 - (StackSize + lower), heap |-> A!NewHeap]

\* One argument or value of the environment, as a C string.
load_string(acc, s) ==
    LET a == alloc(acc.va, Length[s] + 1, 1)
        r == add_region(acc.map, Region(a.ptr, Length[s] + 1, 0))
    IN  IF ~acc.ok THEN acc
        ELSE IF a.ptr = 0 THEN [ok |-> FALSE, map |-> acc.map, va |-> a.va]
        ELSE [ok |-> r.ok, map |-> r.map, va |-> a.va]

load_strings(acc, strings) ==
    LET after[i \in 0 .. Len(strings)] == IF i = 0 THEN acc ELSE load_string(after[i - 1], strings[i])
    IN  after[Len(strings)]

\* The space for argv is allocated first (a word for every byte of it), its region
\* added last.
load_args_into_virtual_memory(acc, args) ==
    LET size == Len(args) * Word
        a == alloc(acc.va, size * Word, 1)
        strings == load_strings([ok |-> TRUE, map |-> acc.map, va |-> a.va], args)
        r == add_region(strings.map, Region(a.ptr, size, 0))
    IN  IF a.ptr = 0 THEN [ok |-> FALSE, map |-> acc.map, va |-> a.va]
        ELSE IF strings.ok THEN [ok |-> r.ok, map |-> r.map, va |-> strings.va]
        ELSE strings

load_env_into_virtual_memory(acc, env) == load_strings(acc, env)

\* What from_elf and exec do with an ELF file; v is the allocator there was.
load(v, headers, args, env) ==
    LET elf == load_elf_into_virtual_memory(headers)
        stack == add_region(elf.map, Stack)
        empty == [ok |-> TRUE, map |-> stack.map, va |-> BasicAlloc_from(elf.lower)]
        loaded == load_args_into_virtual_memory(empty, args)
    IN  IF ~elf.ok THEN [ok |-> FALSE, map |-> elf.map, va |-> v]
        ELSE IF ~stack.ok THEN [ok |-> FALSE, map |-> stack.map, va |-> v]
        ELSE IF ~loaded.ok THEN loaded
        ELSE load_env_into_virtual_memory(loaded, env)

-----------------------------------------------------------------------------
(* Interpreter scripts *)

Runs(path, args) == [path |-> path, args |-> args]

\* Mutant of interpreted: the arguments are appended with the first one.
interpreted_with_first(e) ==
    Runs(File[e.path].interpreter, <<File[e.path].interpreter>> \o File[e.path].opt_arg \o <<e.path>> \o e.args)
\* interpreter [optional-arg] pathname arg...
interpreted(e) ==
    Runs(File[e.path].interpreter,
         <<File[e.path].interpreter>> \o File[e.path].opt_arg \o <<e.path>>
           \o (IF e.args = <<>> THEN <<>> ELSE Tail(e.args)))

IsScript(path) == File[path].type = "SCRIPT" /\ File[path].interpreter \in Files

\* What runs in the end: exec calls itself for the interpreter, to MaxDepth.
resolved(path, args) ==
    LET level[d \in 0 .. MaxDepth] ==
            IF d = 0 THEN Runs(path, args)
            ELSE IF IsScript(level[d - 1].path) THEN interpreted(level[d - 1])
            ELSE level[d - 1]
    IN  level[MaxDepth]

-----------------------------------------------------------------------------
(* The system calls *)

Replaced(r, e, path, args, env) ==
    /\ regions' = r.map /\ virtual_allocator' = r.va
    /\ argv' = e.args
    /\ asked' = [program |-> e.path, path |-> path, args |-> args, env |-> env]
    /\ held' = {}

\* from_elf: the shell runs ELF files only; one that does not load is not started.
Init ==
    \E path \in Files, args \in Args, env \in Envs :
        /\ File[path].type = "ELF" /\ args # <<>>
        /\ LET r == load(BasicAlloc_from(0), File[path].headers, args, env)
           IN  r.ok /\ regions = r.map /\ virtual_allocator = r.va
        /\ argv = args /\ asked = [program |-> path, path |-> path, args |-> args, env |-> env]
        /\ held = {} /\ status = "running"

\* Mutant of Exec: a program that does not load is not terminated.
ExecGoesOn(path, args, env) ==
    LET e == resolved(path, args)
        r == load(virtual_allocator, File[e.path].headers, e.args, env)
    IN  /\ status = "running" /\ File[e.path].type = "ELF"
        /\ Replaced(r, e, path, args, env) /\ UNCHANGED status
\* The memory is cleared first; if the new program does not load there is no old
\* one to return to, and the process exits.
Exec(path, args, env) ==
    LET e == resolved(path, args)
        r == load(virtual_allocator, File[e.path].headers, e.args, env)
    IN  /\ status = "running" /\ File[e.path].type = "ELF"
        /\ Replaced(r, e, path, args, env)
        /\ status' = IF r.ok THEN "running" ELSE "exited"

\* Not an ELF file for this machine, not a script with an interpreter that exists,
\* or too many interpreters: -1.
ExecRefused(path, args) ==
    /\ status = "running" /\ File[resolved(path, args).path].type \in {"SCRIPT", "FOREIGN"}
    /\ UNCHANGED vars

\* A file too short for an ELF identification: from_bytes slices beyond its end.
ExecPanics(path, args) ==
    /\ status = "running" /\ File[resolved(path, args).path].type = "SHORT"
    /\ status' = "panic"
    /\ UNCHANGED <<regions, virtual_allocator, argv, asked, held>>

\* The outcome of add_region is not looked at.
malloc(m, v, size) ==
    LET a == alloc(v, size + Word, Word)
    IN  IF a.ptr = 0 THEN [map |-> m, va |-> a.va, ptr |-> 0]
        ELSE [map |-> add_region(m, Region(a.ptr, size + Word, size + Word)).map,
              va |-> a.va, ptr |-> a.ptr + Word]

\* Mutant of free: the virtual block stays allocated.
free_region_only(m, v, ptr) == [map |-> m \ try_map(m, ptr), va |-> v]
\* The size comes from the header of the region the pointer is in.
free(m, v, ptr) ==
    IF try_map(m, ptr) = {} THEN [map |-> m, va |-> v]
    ELSE LET r == CHOOSE r \in try_map(m, ptr) : TRUE
         IN  [map |-> m \ {r}, va |-> dealloc(v, ptr - Word, r.word)]

\* The old data, as long as they were and with their header, replace those of the
\* new region.
realloc(m, v, ptr, size) ==
    IF try_map(m, ptr) = {} THEN [map |-> m, va |-> v, ptr |-> 0]
    ELSE LET old == CHOOSE r \in try_map(m, ptr) : TRUE
             freed == free(m, v, ptr)
             new == malloc(freed.map, freed.va, size)
             at == try_map(new.map, new.ptr)
         IN  IF at = {} THEN [new EXCEPT !.ptr = 0]
             ELSE LET r == CHOOSE r \in at : TRUE
                  IN  [new EXCEPT !.map = (@ \ {r}) \cup {[old EXCEPT !.start = r.start]}]

Given(r, kept, size) ==
    /\ regions' = r.map /\ virtual_allocator' = r.va
    /\ held' = kept \cup (IF r.ptr = 0 THEN {} ELSE {[ptr |-> r.ptr, size |-> size]})
    /\ UNCHANGED <<status, argv, asked>>

Malloc(size) ==
    /\ status = "running" /\ Cardinality(held) < MaxHeld
    /\ Given(malloc(regions, virtual_allocator, size), held, size)

Free(b) ==
    LET r == free(regions, virtual_allocator, b.ptr)
    IN  /\ status = "running"
        /\ regions' = r.map /\ virtual_allocator' = r.va
        /\ held' = held \ {b}
        /\ UNCHANGED <<status, argv, asked>>

Realloc(b, size) ==
    /\ status = "running"
    /\ AnySize \/ size = b.size
    /\ Given(realloc(regions, virtual_allocator, b.ptr, size), held \ {b}, size)

Next ==
    \/ \E path \in Files, args \in Args :
          \/ \E env \in Envs \cup {asked.env} : Exec(path, args, env)
          \/ ExecRefused(path, args) \/ ExecPanics(path, args)
    \/ \E size \in Sizes : Malloc(size)
    \/ \E b \in held : Free(b) \/ \E size \in Sizes : Realloc(b, size)

Spec == Init /\ [][Next]_vars

-----------------------------------------------------------------------------
(* Properties *)

Running == status = "running"
\* The virtual heap goes up to the stack.
InHeap(r) == r.start \in virtual_allocator.base .. virtual_allocator.base + virtual_allocator.len
Segments == {Region(h.addr, h.len, 0) : h \in {x \in Range(File[asked.program].headers) : x.type = "LOAD"}}

\* What the proofs suppose of programs: their segments are not empty, do not hold the
\* null pointer and end below the stack; they ask for at least a byte, and realloc
\* keeps the size of a block.
SegmentsFit ==
    \A path \in Files : File[path].type = "ELF" =>
      \A h \in Range(File[path].headers) :
        h.type = "LOAD" => h.addr > 0 /\ h.len > 0 /\ h.addr + h.len + StackSize < Space
SizesKept == ~AnySize /\ 0 \notin Sizes
\* And of calls: no argument but the first names a script.
PlainArguments ==
    LET scripts == {path \in Files : IsScript(path)}
    IN  /\ \A args \in Args : \A i \in 2 .. Len(args) : args[i] \notin scripts
        /\ \A path \in scripts : \A i \in 1 .. Len(File[path].opt_arg) : File[path].opt_arg[i] \notin scripts

\* Types; the virtual heap has not outgrown its space and counts its blocks.
TypeOK ==
    /\ status \in {"running", "exited", "panic"}
    /\ \A r \in regions : r.start \in 0 .. Space - 1 /\ r.len \in Nat /\ r.word \in Nat
    /\ virtual_allocator.heap.next \in 0 .. virtual_allocator.len
    /\ virtual_allocator.heap.count = Cardinality(virtual_allocator.heap.live)
    /\ asked.program \in Files
    /\ \A b \in held : b.ptr \in 1 .. Space - 1 /\ b.size \in Sizes

\* Every pointer a program has from malloc or realloc leads to a region of its own,
\* all of the block's bytes in it and the header free() relies on before them.
PointersMapped ==
    Running => \A b \in held : Region(b.ptr - Word, b.size + Word, b.size + Word) \in regions

\* Virtual allocator and regions tell the same story: every block the allocator has
\* given out holds one region, every region between program and stack is in such a
\* block, and every pointer the program holds leads to one.  free() gives back both.
HeapMirrorsRegions ==
    /\ TypeOK /\ PointersMapped
    /\ Running =>
      LET live == virtual_allocator.heap.live
          mapped == {r \in regions : InHeap(r)}
          holds(b, r) == r.start = virtual_allocator.base + b.addr /\ r.len <= b.size
      IN  /\ Cardinality(live) = Cardinality(mapped)
          /\ \A b \in live : \E r \in mapped : holds(b, r)
          /\ \A r \in mapped : \E b \in live : holds(b, r)

\* A process that runs has a whole program: after an exec that failed half way it is
\* the old one or it is dead.  Besides segments and stack only the heap is mapped,
\* and no address is mapped twice.
ProgramIsWhole ==
    Running =>
      /\ Segments \cup {Stack} = {r \in regions : ~InHeap(r)}
      /\ \A r, s \in regions : r = s \/ ~overlaps_virtually_with(r, s)
      /\ \A s \in Range(argv) \cup Range(asked.env) : \E r \in regions : InHeap(r) /\ r.len = Length[s] + 1

\* The program that runs is the interpreter of the script that was asked for, or of
\* its interpreter: in argv every script follows its interpreter, and the arguments
\* of the call, without the first, come last ("interpreter [optional-arg] pathname
\* arg...").
InterpreterArguments ==
    Running =>
      /\ asked.args # <<>> => IsSuffix(Tail(asked.args), argv)
      /\ asked.program # asked.path =>
           /\ argv[1] = asked.program
           /\ \E i \in DOMAIN argv : argv[i] = asked.path /\ SubSeq(argv, i + 1, Len(argv)) = (IF asked.args = <<>> THEN <<>> ELSE Tail(asked.args))
           /\ \A i \in DOMAIN argv \ {1} : argv[i] \in Files /\ IsScript(argv[i]) =>
                LET before == i - 1 - Len(File[argv[i]].opt_arg) IN argv[before] = File[argv[i]].interpreter
=============================================================================
