-------------------------- MODULE MCProgramMemory --------------------------
(***************************************************************************)
(* An instance for TLC: two programs that load, three that do not (an      *)
(* overlap, an ELF interpreter, nothing to load), scripts (one whose       *)
(* interpreter is a script, one that is its own) and other files.          *)
(***************************************************************************)
EXTENDS ProgramMemory

Load(addr, len) == [type |-> "LOAD", addr |-> addr, len |-> len]
Header(type) == [type |-> type, addr |-> 0, len |-> 0]
Elf(headers) == [type |-> "ELF", headers |-> headers]
Script(interpreter, opt_arg) == [type |-> "SCRIPT", interpreter |-> interpreter, opt_arg |-> opt_arg]

MCFile ==
    [sh |-> Elf(<<Header("OTHER"), Load(1, 3), Load(4, 1)>>),
     cat |-> Elf(<<Load(4, 2), Load(1, 1)>>),
     twice |-> Elf(<<Load(1, 3), Load(3, 3)>>),
     dynamic |-> Elf(<<Load(1, 2), Header("INTERP")>>),
     nothing |-> Elf(<<Header("OTHER")>>),
     script |-> Script("sh", <<"-e">>),
     nested |-> Script("script", <<>>),
     itself |-> Script("itself", <<>>),
     orphan |-> Script("none", <<>>),
     image |-> [type |-> "FOREIGN"],
     short |-> [type |-> "SHORT"]]
MCFiles == DOMAIN MCFile
MCArgs == {<<>>, <<"prog", "x">>}
MCEnvs == {<<"/">>}
MCLength == [s \in MCFiles \cup {"prog", "x", "/", "-e"} |-> IF s \in {"x", "script"} THEN 2 ELSE 1]

\* The instance is one the theorems of ProgramMemoryProofs are about.
ASSUME InstanceIsProved == SegmentsFit /\ SizesKept /\ PlainArguments
=============================================================================
