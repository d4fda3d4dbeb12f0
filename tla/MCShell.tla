------------------------------ MODULE MCShell ------------------------------
(***************************************************************************)
(* A small instance of Shell for TLC: an image with one folder besides its *)
(* root and one file with two links.                                       *)
(***************************************************************************)
EXTENDS Shell, TLC

MCLength == [n \in {".", "..", "a", "wxy ", "wxy", "d", "f", "g", "dev", "hda"} |->
  CASE n \in {".", "a", "d", "f", "g"} -> 1 [] n = ".." -> 2 [] n \in {"dev", "hda", "wxy"} -> 3 [] OTHER -> 4]
MCTrimmed == [n \in DOMAIN MCLength \cup {""} |-> IF n = "wxy " THEN "wxy" ELSE n]

MCName == {"a"}
MCSources == {<<"", "dev", "hda">>, <<"", "dev", "hda", "a">>}
MCArgs == {<<"", "">>, <<"a">>, <<"wxy ">>, <<"f">>, <<"d", "g">>, <<"", "a", "f">>}
MCDotted == {<<"..", "f">>, <<"a", ".", "..", "f">>, <<"", "..", "a", "..", "..", "d", "g">>}

Entry(addr, size, name) == [addr |-> addr, size |-> size, name |-> name]
MCImage ==
  [folders |-> (2 :> [size |-> 48, entries |-> <<Entry(2, 12, "."), Entry(2, 12, ".."), Entry(3, 12, "d"), Entry(4, 12, "f")>>])
                 @@ (3 :> [size |-> 48, entries |-> <<Entry(3, 12, "."), Entry(2, 12, ".."), Entry(4, 24, "g")>>]),
   links |-> (2 :> 3) @@ (3 :> 2) @@ (4 :> 2) @@ (5 :> 0) @@ (6 :> 0)]
=============================================================================
