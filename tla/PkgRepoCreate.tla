--------------------------- MODULE PkgRepoCreate ---------------------------
(***************************************************************************)
(* `pkg repo`: libpkg/pkg_repo_create.c.  A parent shares the archives of  *)
(* a directory among worker processes.  Each appends the manifests of its  *)
(* archives to one file and sends a digest of each to the parent through a *)
(* socket; the parent sorts the digests and packs the files.               *)
(*                                                                         *)
(* The workers of one creation inherit one open file description: they     *)
(* share its offset, and its flock() excludes the workers of other         *)
(* creations but not each other.  Every manifest has the length 1, so that *)
(* an offset is a number of manifests.  Creations without -l (no list of   *)
(* files) and without -m (the default names) are modelled.                 *)
(***************************************************************************)
EXTENDS Integers, Sequences, FiniteSets, Functions

CONSTANTS
  Archives,       \* the packages there are, numbered by the order of origins
  MaxWorkers,     \* the largest WORKERS_COUNT
  MaxCreations,   \* bound on the number of times pkg repo is run
  MaxFaults,      \* bound on what goes wrong
  Capacity        \* the messages a socket holds

ASSUME CreateAssumption ==
  /\ Archives \subseteq Nat \ {0} /\ IsFiniteSet(Archives)
  /\ MaxWorkers \in Nat \ {0} /\ MaxCreations \in Nat \ {0}
  /\ MaxFaults \in Nat /\ Capacity \in Nat \ {0}

VARIABLES
  stock,          \* the archives of the directory, as fts_items lists them
  count,          \* WORKERS_COUNT
  creation,       \* the number of the last creation
  parent,         \* what the parent does next, "idle" when there is none
  worker,         \* the workers, of every creation
  offset,         \* of the description a creation has of the manifests file
  inode,          \* the manifests file a creation has open
  path,           \* the inode that is in the directory, 0 when there is none
  file,           \* what each inode holds
  lock,           \* the creation that holds the lock of an inode, 0 for none
  fds,            \* the sockets the parent still polls
  zombies,        \* the workers that ended and were not waited for
  dlist,          \* the digests the parent has
  site,           \* the archives of the catalogue in the directory
  outcome,        \* what the last creation returned
  faults,         \* how much has gone wrong
  hurt,           \* something went wrong in this creation
  crowded         \* workers that share a lock met workers of another creation

makers == <<stock, count, creation, parent, worker, offset, inode, path, file, lock,
            fds, zombies, dlist, site, outcome, faults, hurt, crowded>>

Creations == 1 .. MaxCreations
Workers == Creations \X (1 .. MaxWorkers)

Nobody == [pc |-> "none", todo |-> <<>>, told |-> FALSE, mpos |-> 0, sock |-> <<>>]
Hole == 0         \* the zeros before a write beyond the end of a file
End == [of |-> 0, pos |-> 0]

Alive(w) == worker[w].pc \notin {"none", "gone"}
Orphan(w) == Alive(w) /\ (w[1] # creation \/ parent = "idle")

\* A worker whose lock a sibling gave up, and one that has siblings.
Bare(w) == worker[w].pc \in {"seek", "write", "unlock"} /\ lock[inode[w[1]]] # w[1]
Shares(w) == \E v \in Workers \ {w} : Alive(v) /\ worker[v].told /\ v[1] = w[1]

NumWorkers == IF count < Len(stock) THEN count ELSE Len(stock)

CreateInit ==
  /\ stock = <<>> /\ count \in 1 .. MaxWorkers /\ creation = 0 /\ parent = "idle"
  /\ worker = [w \in Workers |-> Nobody]
  /\ offset = [c \in Creations |-> 0] /\ inode = [c \in Creations |-> 0]
  /\ path = 0 /\ file = [c \in Creations |-> <<>>] /\ lock = [c \in Creations |-> 0]
  /\ fds = {} /\ zombies = 0 /\ dlist = <<>>
  /\ site = [meta |-> 0, manifests |-> 0, digests |-> 0, offers |-> {}, listed |-> {}]
  /\ outcome = "none" /\ faults = 0 /\ hurt = FALSE /\ crowded = FALSE

-----------------------------------------------------------------------------
(* The parent.                                                             *)

\* The manifests file is made, or the one that is there is truncated, whoever
\* still writes to it.
Create ==
  /\ parent = "idle" /\ creation < MaxCreations /\ stock # <<>>
  /\ LET c == creation + 1
         i == IF path = 0 THEN c ELSE path
     IN  /\ creation' = c /\ path' = i
         /\ inode' = [inode EXCEPT ![c] = i] /\ file' = [file EXCEPT ![i] = <<>>]
  /\ crowded' = \E v \in Workers : Orphan(v) /\ worker[v].told /\ (Bare(v) \/ NumWorkers > 1 \/ Shares(v))
  /\ parent' = "fork" /\ dlist' = <<>> /\ fds' = {} /\ zombies' = 0 /\ hurt' = FALSE
  /\ outcome' = "none"
  /\ UNCHANGED <<stock, count, worker, offset, lock, site, faults>>

\* The archives of the first k workers: the first ones get one more when the
\* division leaves a remainder.
Before(k) ==
  LET tasks == Len(stock) \div NumWorkers
      remain == Len(stock) % NumWorkers
  IN  k * tasks + (IF k < remain THEN k ELSE remain)

Fork ==
  /\ parent = "fork" /\ Cardinality(fds) < NumWorkers
  /\ LET k == Cardinality(fds) + 1
         w == <<creation, k>>
     IN  /\ worker' = [worker EXCEPT ![w] =
                         [Nobody EXCEPT !.pc = "open",
                                        !.todo = SubSeq(stock, Before(k - 1) + 1, Before(k))]]
         /\ fds' = fds \cup {w}
  /\ UNCHANGED <<stock, count, creation, parent, offset, inode, path, file, lock,
                 zombies, dlist, site, outcome, faults, hurt, crowded>>

\* The start marker.
Mark ==
  /\ parent = "fork" /\ Cardinality(fds) = NumWorkers
  /\ worker' = [w \in Workers |-> IF w \in fds THEN [worker[w] EXCEPT !.told = TRUE] ELSE worker[w]]
  /\ parent' = "poll"
  /\ UNCHANGED <<stock, count, creation, offset, inode, path, file, lock, fds, zombies,
                 dlist, site, outcome, faults, hurt, crowded>>

Ended(w) == worker[w].sock = <<>> /\ ~Alive(w)

\* Mutant: the end marker is taken for a digest.
ReadDigest_Marker(w) ==
  /\ parent = "poll" /\ w \in fds /\ worker[w].sock # <<>>
  /\ dlist' = Append(dlist, Head(worker[w].sock))
  /\ worker' = [worker EXCEPT ![w].sock = Tail(@)]
  /\ UNCHANGED <<stock, count, creation, parent, offset, inode, path, file, lock, fds,
                 zombies, site, outcome, faults, hurt, crowded>>

ReadDigest(w) ==
  /\ parent = "poll" /\ w \in fds
  /\ worker[w].sock # <<>> /\ Head(worker[w].sock) # End
  /\ dlist' = Append(dlist, Head(worker[w].sock))
  /\ worker' = [worker EXCEPT ![w].sock = Tail(@)]
  /\ UNCHANGED <<stock, count, creation, parent, offset, inode, path, file, lock, fds,
                 zombies, site, outcome, faults, hurt, crowded>>

\* Mutant: only the end marker ends a socket.
ReadEnd_Marker(w) ==
  /\ parent = "poll" /\ w \in fds
  /\ worker[w].sock # <<>> /\ Head(worker[w].sock) = End
  /\ worker' = [worker EXCEPT ![w].sock = <<>>]
  /\ fds' = fds \ {w} /\ parent' = "wait"
  /\ UNCHANGED <<stock, count, creation, offset, inode, path, file, lock, zombies, dlist,
                 site, outcome, faults, hurt, crowded>>

\* The end marker or the end of the file: the socket is given up, and the parent
\* waits for a child to end, whichever it is and however it ended.
ReadEnd(w) ==
  /\ parent = "poll" /\ w \in fds
  /\ \/ Ended(w)
     \/ worker[w].sock # <<>> /\ Head(worker[w].sock) = End
  /\ worker' = [worker EXCEPT ![w].sock = <<>>]
  /\ fds' = fds \ {w} /\ parent' = "wait"
  /\ UNCHANGED <<stock, count, creation, offset, inode, path, file, lock, zombies, dlist,
                 site, outcome, faults, hurt, crowded>>

Wait ==
  /\ parent = "wait" /\ zombies > 0
  /\ zombies' = zombies - 1
  /\ parent' = IF fds = {} THEN "sort" ELSE "poll"
  /\ UNCHANGED <<stock, count, creation, worker, offset, inode, path, file, lock, fds,
                 dlist, site, outcome, faults, hurt, crowded>>

Sort ==
  /\ parent = "sort" /\ parent' = "meta"
  /\ \E order \in Bijection(DOMAIN dlist, DOMAIN dlist) :
       /\ dlist' = [k \in DOMAIN dlist |-> dlist[order[k]]]
       /\ \A k \in 1 .. Len(dlist) - 1 : dlist'[k].of <= dlist'[k + 1].of
  /\ UNCHANGED <<stock, count, creation, worker, offset, inode, path, file, lock, fds,
                 zombies, site, outcome, faults, hurt, crowded>>

\* The inode is let go of: nobody holds its lock or writes to it any more.
Writers(c, but) == {w \in Workers : w[1] = c /\ Alive(w) /\ w # but}
Unlocked(c, but) ==
  [i \in Creations |-> IF lock[i] = c /\ Writers(c, but) = {} THEN 0 ELSE lock[i]]

\* The parent is gone, and with it all that only it knew.
Leaves(result, workers) ==
  /\ parent' = "idle" /\ outcome' = result
  /\ worker' = [w \in Workers |-> IF workers[w].pc = "gone" THEN Nobody ELSE workers[w]]
  /\ fds' = {} /\ zombies' = 0 /\ dlist' = <<>> /\ hurt' = FALSE /\ crowded' = FALSE

\* The meta file is written and the manifests file is closed: pkg_create_repo
\* has succeeded.
WriteMeta ==
  /\ parent = "meta" /\ parent' = "pack meta"
  /\ worker' = [w \in Workers |-> IF worker[w].pc = "gone" THEN Nobody ELSE worker[w]]
  /\ lock' = Unlocked(creation, <<>>)
  /\ UNCHANGED <<stock, count, creation, offset, inode, path, file, fds, zombies, dlist,
                 site, outcome, faults, hurt, crowded>>

\* pkg_finish_repo packs the files one after the other, and unlinks each.
PackMeta ==
  /\ parent = "pack meta" /\ parent' = "pack manifests"
  /\ site' = [site EXCEPT !.meta = creation]
  /\ UNCHANGED <<stock, count, creation, worker, offset, inode, path, file, lock, fds,
                 zombies, dlist, outcome, faults, hurt, crowded>>

InUse(i) == \E w \in Workers : Alive(w) /\ inode[w[1]] = i
Unlinked == IF InUse(path) THEN file ELSE [file EXCEPT ![path] = <<>>]

PackManifests ==
  /\ parent = "pack manifests" /\ parent' = "pack digests"
  /\ site' = [site EXCEPT !.manifests = creation,
                          !.offers = {file[path][k] : k \in 1 .. Len(file[path])} \ {Hole}]
  /\ path' = 0 /\ file' = Unlinked
  /\ UNCHANGED <<stock, count, creation, worker, offset, inode, lock, fds, zombies, dlist,
                 outcome, faults, hurt, crowded>>

PackDigests ==
  /\ parent = "pack digests"
  /\ site' = [site EXCEPT !.digests = creation,
                          !.listed = {dlist[k].of : k \in 1 .. Len(dlist)}]
  /\ Leaves("ok", worker)
  /\ UNCHANGED <<stock, count, creation, offset, inode, path, file, lock, faults>>

ParentStep ==
  \/ Create \/ Fork \/ Mark \/ Wait \/ Sort \/ WriteMeta
  \/ PackMeta \/ PackManifests \/ PackDigests
  \/ parent = "poll" /\ \E w \in fds : ReadDigest(w) \/ ReadEnd(w)

-----------------------------------------------------------------------------
(* A worker.                                                               *)

Goes(w, pc) == worker' = [worker EXCEPT ![w].pc = pc]

\* Mutant: the lock is not waited for.
Lock_Unlocked(w) ==
  /\ worker[w].pc = "open" /\ worker[w].told /\ worker[w].todo # <<>>
  /\ Goes(w, "seek")
  /\ UNCHANGED <<offset, file, lock, zombies>>

\* A worker that was told to start takes its next archive, opens it, makes the
\* manifest, and then waits for the lock.
Lock(w) ==
  /\ worker[w].pc = "open" /\ worker[w].told /\ worker[w].todo # <<>>
  /\ lock[inode[w[1]]] \in {0, w[1]}
  /\ lock' = [lock EXCEPT ![inode[w[1]]] = w[1]]
  /\ Goes(w, "seek")
  /\ UNCHANGED <<offset, file, zombies>>

Seek(w) ==
  /\ worker[w].pc = "seek"
  /\ offset' = [offset EXCEPT ![w[1]] = Len(file[inode[w[1]]])]
  /\ worker' = [worker EXCEPT ![w].pc = "write", ![w].mpos = Len(file[inode[w[1]]])]
  /\ UNCHANGED <<file, lock, zombies>>

\* A text with a manifest written at an offset.
Written(text, at, a) ==
  [k \in 1 .. (IF at < Len(text) THEN Len(text) ELSE at + 1) |->
     IF k = at + 1 THEN a ELSE IF k <= Len(text) THEN text[k] ELSE Hole]

Write(w) ==
  /\ worker[w].pc = "write"
  /\ file' = [file EXCEPT ![inode[w[1]]] = Written(@, offset[w[1]], Head(worker[w].todo))]
  /\ offset' = [offset EXCEPT ![w[1]] = @ + 1]
  /\ Goes(w, "unlock")
  /\ UNCHANGED <<lock, zombies>>

Released(w) ==
  [i \in Creations |-> IF i = inode[w[1]] /\ lock[i] = w[1] THEN 0 ELSE lock[i]]

Unlock(w) ==
  /\ worker[w].pc = "unlock"
  /\ lock' = Released(w)
  /\ Goes(w, "send")
  /\ UNCHANGED <<offset, file, zombies>>

Send(w) ==
  /\ worker[w].pc = "send" /\ Len(worker[w].sock) < Capacity
  /\ worker' = [worker EXCEPT
       ![w].sock = Append(@, [of |-> Head(worker[w].todo), pos |-> worker[w].mpos]),
       ![w].todo = Tail(@), ![w].mpos = 0, ![w].pc = "open"]
  /\ UNCHANGED <<offset, file, lock, zombies>>

\* A worker without a parent leaves nothing behind.
Exits(w, sock) ==
  IF Orphan(w)
    THEN worker' = [worker EXCEPT ![w] = Nobody] /\ lock' = Unlocked(w[1], w) /\ UNCHANGED zombies
    ELSE worker' = [worker EXCEPT ![w] = [Nobody EXCEPT !.pc = "gone", !.sock = sock]]
         /\ zombies' = zombies + 1 /\ UNCHANGED lock

Finish(w) ==
  /\ worker[w].pc = "open" /\ worker[w].told /\ worker[w].todo = <<>>
  /\ Len(worker[w].sock) < Capacity
  /\ Exits(w, Append(worker[w].sock, End))
  /\ UNCHANGED <<offset, file>>

WorkerStep(w) ==
  /\ Lock(w) \/ Seek(w) \/ Write(w) \/ Unlock(w) \/ Send(w) \/ Finish(w)
  /\ UNCHANGED <<stock, count, creation, parent, inode, path, fds, dlist, site, outcome,
                 faults, hurt, crowded>>

-----------------------------------------------------------------------------
(* What goes wrong.                                                        *)

Hurts(w) == hurt' = (hurt \/ (w[1] = creation /\ parent # "idle"))

\* An archive that does not open is passed over without a word.
Skips(w) ==
  /\ worker[w].pc = "open" /\ worker[w].told /\ worker[w].todo # <<>>
  /\ worker' = [worker EXCEPT ![w].todo = Tail(@)]
  /\ UNCHANGED <<offset, file, lock, zombies>>

\* The digest cannot be made or the manifest cannot be written: the worker ends,
\* with an exit status nobody looks at.
GivesUp(w) ==
  /\ worker[w].pc \in {"open", "write"} /\ worker[w].told /\ worker[w].todo # <<>>
  /\ worker' = [worker EXCEPT ![w].pc = "open", ![w].todo = <<>>, ![w].mpos = 0]
  /\ lock' = IF worker[w].pc = "write" THEN Released(w) ELSE lock
  /\ UNCHANGED <<offset, file, zombies>>

Killed(w) ==
  /\ Alive(w)
  /\ Exits(w, worker[w].sock)
  /\ UNCHANGED <<offset, file>>

WorkerFault ==
  /\ \E w \in Workers : (Skips(w) \/ GivesUp(w) \/ Killed(w)) /\ Hurts(w)
  /\ UNCHANGED <<stock, count, creation, parent, inode, path, fds, dlist, site, outcome, crowded>>

\* fork or socketpair fails: the parent ends, and the workers it has made wait
\* for ever for the start marker, since each holds both ends of its socket.
ForkFails ==
  /\ parent = "fork" /\ Cardinality(fds) < NumWorkers
  /\ Leaves("failed", worker)
  /\ UNCHANGED <<stock, count, creation, offset, inode, path, file, lock, site>>

ParentKilled ==
  /\ parent # "idle"
  /\ Leaves("killed", worker)
  /\ lock' = Unlocked(creation, <<>>)
  /\ UNCHANGED <<stock, count, creation, offset, inode, path, file, site>>

\* The signature fails: what there is of the archive stays, and its raw file is
\* unlinked all the same.
PackFails ==
  /\ \/ parent = "pack meta" /\ site' = [site EXCEPT !.meta = 0] /\ UNCHANGED <<path, file>>
     \/ /\ parent = "pack manifests" /\ site' = [site EXCEPT !.manifests = 0, !.offers = {}]
        /\ path' = 0 /\ file' = Unlinked
     \/ /\ parent = "pack digests" /\ site' = [site EXCEPT !.digests = 0, !.listed = {}]
        /\ UNCHANGED <<path, file>>
  /\ Leaves("failed", worker)
  /\ UNCHANGED <<stock, count, creation, offset, inode, lock>>

CreateFault ==
  /\ faults < MaxFaults /\ faults' = faults + 1
  /\ WorkerFault \/ ForkFails \/ ParentKilled \/ PackFails

CreateNext == ParentStep \/ CreateFault \/ \E w \in Workers : WorkerStep(w)

-----------------------------------------------------------------------------
(* Properties.                                                             *)

ParentPcs == {"idle", "fork", "poll", "wait", "sort", "meta", "pack meta", "pack manifests",
              "pack digests"}
WorkerPcs == {"none", "open", "seek", "write", "unlock", "send", "gone"}
Digests == [of : Archives, pos : Nat]
Messages == Digests \cup {End}
WorkerStates ==
  [pc : WorkerPcs, todo : Seq(Archives), told : BOOLEAN, mpos : Nat, sock : Seq(Messages)]
Catalogues ==
  [meta : 0 .. MaxCreations, manifests : 0 .. MaxCreations, digests : 0 .. MaxCreations,
   offers : SUBSET Archives, listed : SUBSET Archives]

CreateTypeOK ==
  /\ stock \in Seq(Archives) /\ count \in 1 .. MaxWorkers /\ creation \in 0 .. MaxCreations
  /\ parent \in ParentPcs /\ worker \in [Workers -> WorkerStates]
  /\ offset \in [Creations -> Nat] /\ inode \in [Creations -> 0 .. MaxCreations]
  /\ path \in 0 .. MaxCreations /\ file \in [Creations -> Seq(Archives \cup {Hole})]
  /\ lock \in [Creations -> 0 .. MaxCreations]
  /\ fds \subseteq Workers /\ zombies \in Nat /\ dlist \in Seq(Digests)
  /\ site \in Catalogues /\ outcome \in {"none", "ok", "failed", "killed"}
  /\ faults \in 0 .. MaxFaults /\ hurt \in BOOLEAN /\ crowded \in BOOLEAN

Manifests == file[inode[creation]]
Held(a) == {k \in 1 .. Len(Manifests) : Manifests[k] = a}
Entries(a) == {k \in 1 .. Len(dlist) : dlist[k].of = a}

\* However the workers of a creation interleave, each digest the parent has is
\* of a package whose manifest is in the file, at the offset the digest says or
\* after it (two workers may have looked for the end at the same time).  When
\* the manifests are about to be packed, the digests are in order, and unless
\* something went wrong there is one of each archive, and its manifest is there,
\* once in the first creation; in a later one, the worker of a killed creation
\* may still write to the file, and the lock is needed.  The lock fails when
\* such workers share it, or the workers that meet one of them.
CatalogueTrue ==
  /\ parent # "idle" /\ inode[creation] = path /\ ~crowded =>
       \A k \in 1 .. Len(dlist) : \E i \in Held(dlist[k].of) : i > dlist[k].pos
  /\ parent = "pack meta" =>
       /\ \A k \in 1 .. Len(dlist) - 1 : dlist[k].of <= dlist[k + 1].of
       /\ ~hurt /\ ~crowded =>
            /\ \A k \in 1 .. Len(stock) : Cardinality(Entries(stock[k])) = 1 /\ Held(stock[k]) # {}
            /\ creation = 1 => Len(Manifests) = Len(stock)
  /\ outcome = "ok" => site.meta = site.manifests /\ site.manifests = site.digests

\* An orphan that waits for ever for room in its socket, of which it has both
\* ends, keeps the lock that a killed sibling took.
Stuck ==
  \E w \in Workers : Orphan(w) /\ Len(worker[w].sock) = Capacity /\ lock[inode[creation]] = w[1]

\* A creation ends, whatever fails, unless an earlier one left a worker that keeps
\* the lock for ever; and the workers that were told to start end, unless their
\* parent does first.
PublishEnds ==
  /\ (parent # "idle") ~> (parent = "idle" \/ Stuck)
  /\ \A w \in Workers : (Alive(w) /\ worker[w].told) ~> (~Alive(w) \/ Orphan(w) \/ Stuck)
=============================================================================
