----------------------------- MODULE PkgRelease -----------------------------
(***************************************************************************)
(* The way of a release: `pkg repo` makes a catalogue of it, a client      *)
(* finds in the catalogue a version that is higher than the one it has,    *)
(* and the upgrade merges the configuration file.                          *)
(*                                                                         *)
(* The makers never read what the client does, and the client reads only   *)
(* the catalogues that were published, so that the client's steps are      *)
(* taken after the makers are done, from the list of what they published.  *)
(* A behaviour may also begin with a probe: a version or three texts, for  *)
(* which what the code computes is compared with what it should.           *)
(***************************************************************************)
EXTENDS PkgRepoCreate, PkgConfigFile

CONSTANTS
  Package,        \* the archive of the package with the configuration file
  Stocks,         \* for each creation, the directories it may find
  Probes          \* the probes

\* fts lists each archive of a directory once, and each creation follows a release.
ASSUME ReleaseAssumption ==
  /\ Package \in Archives /\ DOMAIN Stocks = Creations
  /\ 1 \in Releases /\ \A c \in Creations : c + 1 \in Releases
  /\ \A c \in Creations : \A s \in Stocks[c] : s \in Seq(Archives) /\ IsInjective(s)
  /\ \A p \in Probes : p[1] = "texts" => \A i \in 2 .. 4 : IsText(p[i])
  /\ \A p \in Probes : p[1] = "version" => IsVersion(p[2])

VARIABLES
  published,      \* the releases the catalogues of the makers offered
  seen,           \* the catalogue the client has, an index into published
  phase,          \* "make", "use" or "probe"
  probe           \* the probe, <<>> when there is none

vars == <<makers, config, published, seen, phase, probe>>

Init ==
  /\ CreateInit /\ ConfigInit /\ published = <<1>> /\ seen = 1
  /\ \/ phase = "make" /\ probe = <<>>
     \/ phase = "probe" /\ count = 1 /\ probe \in Probes

\* The package builder leaves the archives of another release.
Deposit ==
  /\ parent = "idle" /\ creation < MaxCreations
  /\ stock' \in Stocks[creation + 1] \ {stock}
  /\ UNCHANGED <<count, creation, parent, worker, offset, inode, path, file, lock, fds,
                 zombies, dlist, site, outcome, faults, hurt, crowded>>

\* The catalogue of creation c offers release c + 1, when it is in it.
Record ==
  /\ published' = IF site'.manifests > site.manifests /\ Package \in site'.offers
                    THEN Append(published, site'.manifests + 1) ELSE published
  /\ UNCHANGED <<config, seen, phase, probe>>

Make == phase = "make" /\ (Deposit \/ (CreateNext /\ (creation' = creation \/ stock \in Stocks[creation']))) /\ Record

\* The makers are done, and what they leave but the catalogues is forgotten.
Hand ==
  /\ phase = "make" /\ parent = "idle" /\ phase' = "use"
  /\ \A w \in Workers : ~(Alive(w) /\ worker[w].told)
  /\ stock' = <<>> /\ count' = 1 /\ creation' = 0 /\ parent' = "idle"
  /\ worker' = [w \in Workers |-> Nobody]
  /\ offset' = [c \in Creations |-> 0] /\ inode' = [c \in Creations |-> 0]
  /\ path' = 0 /\ file' = [c \in Creations |-> <<>>] /\ lock' = [c \in Creations |-> 0]
  /\ fds' = {} /\ zombies' = 0 /\ dlist' = <<>>
  /\ site' = [meta |-> 0, manifests |-> 0, digests |-> 0, offers |-> {}, listed |-> {}]
  /\ outcome' = "none" /\ faults' = 0 /\ hurt' = FALSE /\ crowded' = FALSE
  /\ UNCHANGED <<config, published, seen, probe>>

\* pkg update.
Update ==
  /\ phase = "use" /\ seen < Len(published)
  /\ seen' \in seen + 1 .. Len(published)
  /\ UNCHANGED <<makers, config, published, phase, probe>>

Use ==
  /\ phase = "use"
  /\ \/ \E automerge \in BOOLEAN : Upgrade(published[seen], automerge)
     \/ Install(published[seen])
     \/ ProgramStep \/ AdminStep
  /\ UNCHANGED <<makers, published, seen, phase, probe>>

Next == Make \/ Hand \/ Update \/ Use

Fairness ==
  /\ WF_vars(phase = "make" /\ parent # "idle" /\ ParentStep /\ Record)
  /\ \A w \in Workers : WF_vars(phase = "make" /\ WorkerStep(w) /\ Record)

Spec == Init /\ [][Next]_vars /\ Fairness

-----------------------------------------------------------------------------
(* Properties.                                                             *)

\* All variables have their types.
TypeOK ==
  /\ CreateTypeOK /\ ConfigTypeOK
  /\ published \in Seq(Releases) /\ seen \in 1 .. Len(published)
  /\ phase \in {"make", "use", "probe"}

\* Finding edits and applying them is right for the three texts of a probe, with
\* repeated lines and with lines of both sides: the edits found lead from the one
\* text to the other; a merge that reports no conflict has the insertions of
\* both sides and loses the deletions of neither; and there is no conflict where
\* one side changed nothing or both made the same text.
MergeFaithful ==
  phase = "probe" /\ probe[1] = "texts" => MergedRight(probe[2], probe[3], probe[4])

\* The comparison of versions is the order that the comment above get_component
\* documents, for the version of a probe and all the others, and so it is total
\* and transitive: the version an upgrade chooses does not depend on the order
\* in which versions are met.
VersionOrder ==
  phase = "probe" /\ probe[1] = "version" =>
    \A p \in Probes : p[1] = "version" => VersionCmp(probe[2], p[2]) = Documented(probe[2], p[2])
=============================================================================
