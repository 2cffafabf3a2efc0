------------------------------ MODULE Packages ------------------------------
(***************************************************************************)
(* The packages of an instance and the part of local.sqlite that says      *)
(* which of them are installed and who owns which file: tables packages,   *)
(* files and pkg_directories (libpkg/pkgdb.c), as a value.                 *)
(*                                                                         *)
(* A package is a name and a version; FilesOf and DirsOf are the files and *)
(* the directories its manifest lists.  A database is a record of          *)
(*   ver    the installed version of each name, or None                    *)
(*   owner  the name in the files table for each path, or None             *)
(* The rows of pkg_directories follow from ver, since a package's          *)
(* directories are shared and never refused.                               *)
(***************************************************************************)

CONSTANTS
  Names,          \* package names
  Versions,       \* package versions
  Files,          \* file paths
  Dirs,           \* directory paths
  None,           \* no version, no owner, no file
  FilesOf,        \* the files of each name and version
  DirsOf,         \* the @dir directories of each name and version
  DirOf           \* the directory a file is in

ASSUME PackagesAssumption ==
  /\ None \notin Names \cup Versions \cup (Names \X Versions)
  /\ FilesOf \in [Names -> [Versions -> SUBSET Files]]
  /\ DirsOf \in [Names -> [Versions -> SUBSET Dirs]]
  /\ DirOf \in [Files -> Dirs]
  /\ Files \cap Dirs = {}

Databases == [ver : [Names -> Versions \cup {None}], owner : [Files -> Names \cup {None}]]
EmptyDb == [ver |-> [n \in Names |-> None], owner |-> [f \in Files |-> None]]

Installed(d, n) == d.ver[n] # None
FilesOwned(d, n) == {f \in Files : d.owner[f] = n}

\* The directories the rows of pkg_directories give n
DirsListed(d, n) == IF Installed(d, n) THEN DirsOf[n][d.ver[n]] ELSE {}

\* Files of the package that the files table gives to another one
Conflicts(d, n, v) == {f \in FilesOf[n][v] : d.owner[f] \notin {n, None}}

\* Mutants: the rows of the replaced version are not cascaded away; a file in
\* conflict changes hands.
Registered_RowsKept(d, n, v) ==
  [ver   |-> [d.ver EXCEPT ![n] = v],
   owner |-> [f \in Files |-> IF f \in FilesOf[n][v] \ Conflicts(d, n, v) THEN n ELSE d.owner[f]]]
Registered_ConflictsTaken(d, n, v) ==
  [ver   |-> [d.ver EXCEPT ![n] = v],
   owner |-> [f \in Files |-> IF f \in FilesOf[n][v] THEN n
                              ELSE IF d.owner[f] = n THEN None ELSE d.owner[f]]]

\* pkgdb_register_pkg: INSERT OR REPLACE INTO packages takes the rows of the
\* version it replaces away with it; a file in conflict keeps its owner.
Registered(d, n, v) ==
  [ver   |-> [d.ver EXCEPT ![n] = v],
   owner |-> [f \in Files |-> IF f \in FilesOf[n][v] \ Conflicts(d, n, v) THEN n
                              ELSE IF d.owner[f] = n THEN None ELSE d.owner[f]]]

\* pkgdb_unregister_pkg
Unregistered(d, n) ==
  [ver   |-> [d.ver EXCEPT ![n] = None],
   owner |-> [f \in Files |-> IF d.owner[f] = n THEN None ELSE d.owner[f]]]

\* A row of the files table belongs to an installed package that lists the file.
Consistent(d) ==
  \A n \in Names : FilesOwned(d, n) \subseteq (IF Installed(d, n) THEN FilesOf[n][d.ver[n]] ELSE {})
=============================================================================
