-------------------------- MODULE MCPkgTransaction --------------------------
(* PkgTransaction on a small instance: two packages that share a directory and *)
(* fight over a file, an upgrade that drops a file and adds one.                *)
EXTENDS PkgTransaction

CONSTANTS a, b, v1, v2, f, g, h, d, e

MCFilesOf ==
  [n \in {a, b} |-> [v \in {v1, v2} |->
     CASE n = a /\ v = v1 -> {f, g}
       [] n = a /\ v = v2 -> {g, h}
       [] n = b           -> {h}]]

MCDirsOf == [n \in {a, b} |-> [v \in {v1, v2} |-> IF n = a /\ v = v1 THEN {d, e} ELSE {e}]]

MCAvailable == {<<a, v1>>, <<a, v2>>, <<b, v1>>}

MCDirOf == [x \in {f, g, h} |-> IF x = h THEN e ELSE d]
=============================================================================
