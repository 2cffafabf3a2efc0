--------------------------- MODULE PkgConfigFile ---------------------------
(***************************************************************************)
(* The life of a configuration file: what installing, upgrading and        *)
(* deleting its package (libpkg/pkg_add.c, pkg_delete.c) do to it, while   *)
(* the administrator edits it.                                             *)
(*                                                                         *)
(* A package has releases, each with a version and its own text of the     *)
(* file, the vanilla text.  The local database keeps the vanilla text of   *)
(* the installed release, the origin of the next merge.  An upgrade is     *)
(* cut into the steps between which the program may die.  Every release    *)
(* lists the file as a configuration file.                                 *)
(***************************************************************************)
EXTENDS TextMerge, PkgVersion

CONSTANTS
  Releases,       \* 1 .. n, in the order they are made
  VersionOf,      \* the version of each
  Vanilla,        \* the vanilla text of each
  OwnLines,       \* the lines the administrator writes, none of a vanilla text
  MaxEdits,       \* bound on the changes of the administrator
  MaxDeaths,      \* bound on the number of times the program dies
  MaxDeletes      \* bound on the number of times the package is deleted

LinesOf(text) == {text[k] : k \in 1 .. Len(text)}
IsText(text) == text \in Seq(LinesOf(text))

ASSUME ConfigAssumption ==
  /\ Releases \subseteq Nat \ {0}
  /\ MaxEdits \in Nat /\ MaxDeaths \in Nat /\ MaxDeletes \in Nat
  /\ \A r \in Releases : IsText(Vanilla[r]) /\ LinesOf(Vanilla[r]) \cap OwnLines = {}

VARIABLES
  installed,      \* the release the database knows, 0 for none
  content,        \* the release whose vanilla text the database keeps, 0 for none
  live,           \* the file
  pkgnew,         \* the file beside it, with the suffix .pkgnew
  work,           \* the operation that runs
  \* what the program does not know:
  level,          \* the release whose text the file was last brought to
  own,            \* the lines the administrator has in the file
  removed,        \* the vanilla lines the administrator took out
  behind,         \* the next merge does not start from the text the file has: a
                  \* .pkgnew was left, or lines were taken out after an upgrade died
  raced,          \* the administrator changed the file while an operation ran
  edits, deaths, deletes

config == <<installed, content, live, pkgnew, work, level, own, removed, behind, raced,
            edits, deaths, deletes>>

None == [there |-> FALSE, text |-> <<>>]
Text(t) == [there |-> TRUE, text |-> t]
NoWork == [step |-> "none", release |-> 0, text |-> <<>>, status |-> "none", content |-> 0]

ConfigInit ==
  /\ installed = 0 /\ content = 0 /\ live = None /\ pkgnew = None /\ work = NoWork
  /\ level = 0 /\ own = {} /\ removed = {} /\ behind = FALSE /\ raced = FALSE
  /\ edits = 0 /\ deaths = 0 /\ deletes = 0

Idle == work.step = "none"

-----------------------------------------------------------------------------
(* The program.                                                            *)

\* do_extract: a text is written to a temporary file.
Writes(r, text, status) ==
  /\ work' = [step |-> "extracted", release |-> r, text |-> text, status |-> status, content |-> content]
  /\ UNCHANGED <<installed, content, live, pkgnew, level, own, removed, behind, raced,
                 edits, deaths, deletes>>

\* attempt_to_merge: the new vanilla text when there is no file, or it was not
\* changed since the installation; if not, the merge of both, if it may be merged
\* and there is no conflict; if not, the new text for a .pkgnew.
Untouched_Size ==    \* Mutant: the checksum is not compared.
  ~live.there \/ (installed # 0 /\ Len(live.text) = Len(Vanilla[content]))

Untouched == ~live.there \/ (installed # 0 /\ live.text = Vanilla[content])
Replace(r) == Untouched /\ Writes(r, Vanilla[r], "none")
Beside(r) == ~Untouched /\ Writes(r, Vanilla[r], "failed")

Merge(r) ==
  /\ ~Untouched
  /\ \E merged \in {Merge3(Vanilla[content], live.text, Vanilla[r])} :
       IF merged.failed THEN Writes(r, Vanilla[r], "failed") ELSE Writes(r, merged.out, "merged")

\* pkg_jobs_need_upgrade: the release that is offered has a higher version.
\* AUTOMERGE says whether files are merged.
Upgrade(r, automerge) ==
  /\ Idle /\ installed # 0 /\ VersionCmp(VersionOf[installed], VersionOf[r]) = -1
  /\ Replace(r) \/ (IF automerge THEN Merge(r) ELSE Beside(r))

Install(r) == Idle /\ installed = 0 /\ (Replace(r) \/ Beside(r))

\* pkgdb_update_config_file_content, in the transaction of the registration.
UpdateContent ==
  /\ work.step = "extracted"
  /\ work' = [work EXCEPT !.step = "updated", !.content = work.release]
  /\ UNCHANGED <<installed, content, live, pkgnew, level, own, removed, behind, raced,
                 edits, deaths, deletes>>

\* There is nothing of the administrator's in the file.
Pristine == ~live.there \/ (content # 0 /\ live.text = Vanilla[content])

\* pkg_extract_finalize: the file, or the .pkgnew beside it, is unlinked, and then
\* the temporary file is renamed to it.
Unlink ==
  /\ work.step = "updated" /\ work' = [work EXCEPT !.step = "unlinked"]
  /\ live' = (IF work.status = "failed" THEN live ELSE None)
  /\ pkgnew' = (IF work.status = "failed" THEN None ELSE pkgnew)
  /\ removed' = (IF work.status # "failed" /\ Pristine THEN {} ELSE removed)
  /\ behind' = (work.status = "failed" \/ (behind /\ ~Pristine))
  /\ UNCHANGED <<installed, content, level, own, raced, edits, deaths, deletes>>

Rename ==
  /\ work.step = "unlinked" /\ work' = [work EXCEPT !.step = "renamed"]
  /\ IF work.status = "failed"
       THEN pkgnew' = Text(work.text) /\ UNCHANGED <<live, level, removed>>
       ELSE /\ live' = Text(work.text) /\ level' = work.release
            /\ removed' = removed \cap LinesOf(Vanilla[work.release])
            /\ UNCHANGED pkgnew
  /\ UNCHANGED <<installed, content, own, behind, raced, edits, deaths, deletes>>

\* pkgdb_register_finale: the transaction is committed.
Commit ==
  /\ work.step = "renamed" /\ work' = NoWork
  /\ installed' = work.release /\ content' = work.content
  /\ UNCHANGED <<live, pkgnew, level, own, removed, behind, raced, edits, deaths, deletes>>

\* The file is deleted with the package, whatever is in it; a .pkgnew is not
\* the package's.
Delete ==
  /\ Idle /\ installed # 0 /\ deletes < MaxDeletes
  /\ installed' = 0 /\ content' = 0 /\ live' = None /\ deletes' = deletes + 1
  /\ level' = 0 /\ own' = {} /\ removed' = {} /\ behind' = FALSE /\ raced' = FALSE
  /\ UNCHANGED <<pkgnew, work, edits, deaths>>

\* The file is gone, with the lines of the administrator.
Gone ==
  /\ own' = {} /\ removed' = (IF level = 0 THEN {} ELSE LinesOf(Vanilla[level]))
  /\ behind' = (behind \/ level # installed)

\* The program dies: the transaction is rolled back when the database is opened
\* again, what was renamed stays, and what was only unlinked is gone.
Dies ==
  /\ ~Idle /\ deaths < MaxDeaths
  /\ work' = NoWork /\ deaths' = deaths + 1
  /\ IF live.there THEN UNCHANGED <<own, removed, behind>> ELSE Gone
  /\ UNCHANGED <<installed, content, live, pkgnew, level, raced, edits, deletes>>

-----------------------------------------------------------------------------
(* The administrator.                                                      *)

Edits ==
  /\ edits < MaxEdits /\ edits' = edits + 1
  /\ raced' = (raced \/ ~Idle)
  /\ UNCHANGED <<installed, content, pkgnew, work, deaths, deletes>>

AddLine(x, k) ==
  /\ x \notin own /\ live' = Text(InsertAt(live.text, k, x)) /\ own' = own \cup {x}
  /\ UNCHANGED <<level, removed, behind>>

DropLine(k) ==
  /\ live' = Text(RemoveAt(live.text, k))
  /\ own' = own \cap LinesOf(live'.text)
  /\ removed' = removed \cup (LinesOf(live.text) \ (LinesOf(live'.text) \cup OwnLines))
  /\ behind' = (behind \/ level # installed)
  /\ UNCHANGED level

DropFile == live' = None /\ Gone /\ UNCHANGED level

Edit ==
  /\ Edits
  /\ \/ \E x \in OwnLines, k \in 1 .. Len(live.text) + 1 : AddLine(x, k)
     \/ live.there /\ \E k \in 1 .. Len(live.text) : DropLine(k)
     \/ live.there /\ DropFile

\* The .pkgnew is taken over, with the own lines at its end.  One that is not of
\* the installed release settles nothing: the next merge starts from another text.
Resolve ==
  /\ Idle /\ pkgnew.there /\ behind
  /\ live' = Text(pkgnew.text \o SetToSeq(own)) /\ pkgnew' = None
  /\ level' = (CHOOSE r \in Releases : Vanilla[r] = pkgnew.text) /\ removed' = {}
  /\ behind' = (level' # installed) /\ raced' = FALSE
  /\ UNCHANGED <<installed, content, work, own, edits, deaths, deletes>>

ProgramStep == UpdateContent \/ Unlink \/ Rename \/ Commit \/ Delete \/ Dies
AdminStep == Edit \/ Resolve

-----------------------------------------------------------------------------
(* Properties.                                                             *)

ConfigTypeOK ==
  /\ installed \in Releases \cup {0} /\ content \in Releases \cup {0}
  /\ work.step \in {"none", "extracted", "updated", "unlinked", "renamed"}
  /\ work.status \in {"none", "merged", "failed"}
  /\ level \in Releases \cup {0} /\ own \subseteq OwnLines
  /\ behind \in BOOLEAN /\ raced \in BOOLEAN
  /\ edits \in 0 .. MaxEdits /\ deaths \in 0 .. MaxDeaths /\ deletes \in 0 .. MaxDeletes

\* Through any sequence of upgrades, with and without merging, that die and are
\* run again, the file holds exactly the lines the administrator put into it
\* besides vanilla lines.  (Not when he wrote to the file under a running upgrade,
\* or it died with the file unlinked.)
OwnLinesKept == live.there /\ ~raced => LinesOf(live.text) \cap OwnLines = own

\* The same; and unless a .pkgnew is waiting, or he took lines out between an
\* upgrade that died and the next, the other lines are the vanilla lines of the
\* release the file was last brought to without the ones he took out.  (Not for all
\* vanilla texts: a line that a release moves may come back after he took it out.)
ConfigKept ==
  /\ OwnLinesKept
  /\ live.there /\ ~raced /\ ~behind /\ level # 0 =>
       LinesOf(live.text) \ OwnLines = LinesOf(Vanilla[level]) \ removed
=============================================================================
