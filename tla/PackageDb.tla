------------------------------ MODULE PackageDb ------------------------------
(***************************************************************************)
(* What libpkg promises of local.sqlite to whoever opens it: it changes by *)
(* whole packages.  A package is registered (a new one, or a version in    *)
(* place of another) or unregistered in one step; a file has one owner,    *)
(* and no package takes a file that another one owns, not even when the    *)
(* installation is forced.                                                 *)
(***************************************************************************)
EXTENDS Packages

VARIABLE pkgs     \* the database

Init == pkgs = EmptyDb

Register(n, v) == pkgs' = Registered(pkgs, n, v)

Unregister(n) ==
  /\ Installed(pkgs, n)
  /\ pkgs' = Unregistered(pkgs, n)

Next == \E n \in Names : Unregister(n) \/ \E v \in Versions : Register(n, v)

Spec == Init /\ [][Next]_pkgs
=============================================================================
