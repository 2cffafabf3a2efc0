------------------------------ MODULE PkgFetch ------------------------------
(***************************************************************************)
(* Fetching packages into the cache: pkg_jobs_fetch (libpkg/pkg_jobs.c),   *)
(* pkg_repo_binary_try_fetch (libpkg/repo/binary/fetch.c) and              *)
(* pkg_fetch_file (libpkg/fetch.c).                                        *)
(*                                                                         *)
(* The catalogue gives the size and the checksum of a package, that is the *)
(* build it lists.  The cache has one file for each package and build, and *)
(* a host has the build of the publication it serves under the package's   *)
(* name.  A file grows block by block, is kept when the process stops, and *)
(* resumed by the next, perhaps from another host: its content is the      *)
(* sequence of the builds its blocks come from.  A package that is rebuilt  *)
(* keeps its version, and its name; one that is gone is "unavailable".     *)
(***************************************************************************)
EXTENDS RepoServer, Integers, Sequences, FiniteSetsExt

CONSTANTS
  Pkgs,           \* packages
  Builds,         \* builds
  BuildOf,        \* the build of each package in each publication
  Size,           \* the size of each build of a package, in blocks
  NoFile,
  Lists,          \* lists of hosts, in the order they are offered
  MaxRetry,       \* FETCH_RETRY
  FetchFaults     \* what may go wrong: "connect", "unavailable", "transfer", "stop"

ASSUME FetchAssumption ==
  /\ BuildOf \in [Pkgs -> [1 .. MaxPub -> Builds]]
  /\ Size \in [Pkgs -> [Builds -> Nat \ {0}]]
  /\ NoFile \notin Seq(Builds)
  /\ Pkgs # {} /\ Builds # {} /\ Lists # {}
  /\ \A l \in Lists : l.hosts \in Seq(Mirrors) /\ l.hosts # <<>> /\ l.type \in {"NONE", "HTTP", "SRV"}
  /\ \A l \in Lists : l.type = "NONE" => Len(l.hosts) = 1
  /\ MaxRetry \in Nat
  /\ FetchFaults \subseteq {"connect", "unavailable", "transfer", "stop"}

VARIABLES
  cache,          \* the files of the cache
  fpc,            \* where the process is
  list,           \* the mirrors of the repository
  wanted,         \* the packages to install, and
  listed,         \* the publication whose catalogue they were chosen from
  todo,           \* packages still to be fetched
  cur,            \* the package being fetched
  tried,          \* already_tried
  new,            \* fetched: the file has been written to by this call
  at,             \* the mirror's place in the list
  retry,
  source,         \* the build that is being sent
  asked,          \* history: the places in the list that have been asked
  why,            \* history: why the fetch failed
  skipped,        \* history: nothing was to be fetched, so nothing was looked at
  suspect         \* history: files left by a process that was stopped

fetchVars == <<cache, fpc, list, wanted, listed, todo, cur, tried, new, at, retry, source,
               asked, why, skipped, suspect>>
session == <<list, wanted, listed>>
host == <<at, retry, source, asked>>

\* The file of p that the catalogue asks for
Wanted(p) == BuildOf[p][listed]
File(p) == cache[p][Wanted(p)]
Length(f) == IF f = NoFile THEN 0 ELSE Len(f)
Whole(p, b, f) == f = [i \in 1 .. Size[p][b] |-> b]
WithFile(p, f) == [cache EXCEPT ![p][Wanted(p)] = f]

FetchTypeOK ==
  /\ cache \in [Pkgs -> [Builds -> Seq(Builds) \cup {NoFile}]]
  /\ fpc \in {"idle", "measure", "next", "stat", "connect", "transfer", "size", "checksum", "failed", "ready"}
  /\ list \in Lists /\ wanted \subseteq Pkgs /\ listed \in 0 .. MaxPub
  /\ todo \subseteq wanted /\ cur \in Pkgs
  /\ tried \in BOOLEAN /\ new \in BOOLEAN
  /\ at \in DOMAIN list.hosts /\ retry \in 0 .. MaxRetry /\ source \in Builds
  /\ asked \subseteq DOMAIN list.hosts
  /\ why \in {"none", "retries", "unavailable", "transfer", "mismatch"}
  /\ skipped \in BOOLEAN /\ suspect \subseteq Pkgs \X Builds

FetchFails(what) == storm /\ strikes = "cache" /\ what \in FetchFaults

NoPkg == CHOOSE p \in Pkgs : TRUE
NoBuild == CHOOSE b \in Builds : TRUE
NoList == CHOOSE l \in Lists : TRUE

FetchInit ==
  /\ cache = [p \in Pkgs |-> [b \in Builds |-> NoFile]]
  /\ list = NoList
  /\ fpc = "idle" /\ wanted = {} /\ listed = 0 /\ todo = {} /\ cur = NoPkg
  /\ tried = FALSE /\ new = FALSE /\ at = 1 /\ retry = 0 /\ source = NoBuild
  /\ asked = {} /\ why = "none" /\ skipped = FALSE /\ suspect = {}

\* pkg_fetch_file_to_fd is left.
NoHost == at' = 1 /\ retry' = 0 /\ source' = NoBuild /\ asked' = {}

\* The command is over.
Over ==
  /\ fpc' = "idle" /\ list' = NoList /\ wanted' = {} /\ listed' = 0 /\ todo' = {}
  /\ cur' = NoPkg /\ tried' = FALSE /\ new' = FALSE /\ NoHost /\ why' = "none" /\ skipped' = FALSE

-----------------------------------------------------------------------------
(* pkg_jobs_fetch.                                                         *)

\* A session of install: it has read the catalogue of publication k, and will be given
\* the hosts l.
Begin(w, k, l) ==
  /\ fpc = "idle" /\ fpc' = "measure"
  /\ list' = l /\ wanted' = w /\ listed' = k
  /\ UNCHANGED <<world, cache, todo, cur, tried, new, host, why, skipped, suspect>>

ToDownload == MapThenSumSet(LAMBDA p : Size[p][Wanted(p)] - Length(File(p)), wanted)

Measure ==
  /\ fpc = "measure"
  /\ IF ToDownload = 0
     THEN fpc' = "ready" /\ skipped' = TRUE /\ UNCHANGED todo
     ELSE fpc' = "next" /\ todo' = wanted /\ UNCHANGED skipped
  /\ UNCHANGED <<world, cache, session, cur, tried, new, host, why, suspect>>

\* pkg_repo_binary_try_fetch, for the next package of the list of jobs
Take(p) ==
  /\ fpc = "next" /\ p \in todo /\ fpc' = "stat"
  /\ cur' = p
  /\ UNCHANGED <<world, cache, session, todo, tried, new, host, why, skipped, suspect>>

AllFetched ==
  /\ fpc = "next" /\ todo = {} /\ fpc' = "ready"
  /\ UNCHANGED <<world, cache, session, todo, cur, tried, new, host, why, skipped, suspect>>

\* The packages are installed, and the command ends.
Finish ==
  /\ fpc = "ready" /\ Over
  /\ UNCHANGED <<world, cache, suspect>>

-----------------------------------------------------------------------------
(* pkg_repo_binary_try_fetch and pkg_fetch_file.                           *)

\* A file that is too short is resumed, one that is long enough is checked.
Stat ==
  /\ fpc = "stat"
  /\ IF Length(File(cur)) >= Size[cur][Wanted(cur)]
     THEN fpc' = "size" /\ UNCHANGED <<cache, retry>>
     ELSE /\ fpc' = "connect"
          /\ cache' = WithFile(cur, IF File(cur) = NoFile THEN <<>> ELSE File(cur))
          /\ retry' = MaxRetry
  /\ UNCHANGED <<world, session, todo, cur, tried, new, at, source, asked, why, skipped, suspect>>

Sent(m) == BuildOf[cur][served[m]]

Connect ==
  /\ fpc = "connect" /\ fpc' = "transfer"
  /\ source' = Sent(list.hosts[at])
  /\ Size[cur][source'] >= Len(File(cur))
  /\ asked' = asked \cup {at}
  /\ UNCHANGED <<world, cache, session, todo, cur, tried, new, at, retry, why, skipped, suspect>>

\* Mutant: an SRV list is treated as an HTTP one.
NextHost_Second ==
  IF list.type # "NONE" /\ Len(list.hosts) > 1 THEN 2 ELSE 1

\* Mutant: the end of the list is not looked for.
NextHost_Unbounded == IF list.type = "SRV" THEN (IF at < Len(list.hosts) THEN at + 1 ELSE 1) ELSE at + 1

NextHost ==
  CASE list.type = "NONE" -> at
    [] list.type = "SRV"  -> IF at < Len(list.hosts) THEN at + 1 ELSE 1
    [] list.type = "HTTP" -> IF Len(list.hosts) > 1 THEN 2 ELSE 1

\* A host does not answer, or not with what was asked for: the next one is tried.
ConnectFails ==
  /\ fpc = "connect"
  /\ FetchFails("connect") \/ Size[cur][Sent(list.hosts[at])] < Len(File(cur))
  /\ asked' = asked \cup {at}
  /\ IF retry <= 1
     THEN fpc' = "failed" /\ why' = "retries" /\ UNCHANGED <<at, retry>>
     ELSE at' = NextHost /\ retry' = retry - 1 /\ UNCHANGED <<fpc, why>>
  /\ UNCHANGED <<world, cache, session, todo, cur, tried, new, source, skipped, suspect>>

Unavailable ==
  /\ FetchFails("unavailable")
  /\ fpc = "connect" /\ fpc' = "failed"
  /\ why' = "unavailable" /\ asked' = asked \cup {at}
  /\ UNCHANGED <<world, cache, session, todo, cur, tried, new, at, retry, source, skipped, suspect>>

Transfer ==
  /\ fpc = "transfer"
  /\ Len(File(cur)) < Size[cur][source]
  /\ cache' = WithFile(cur, Append(File(cur), source))
  /\ new' = TRUE
  /\ UNCHANGED <<world, fpc, session, todo, cur, tried, host, why, skipped, suspect>>

\* All has been sent, or the host says so.
Transferred ==
  /\ fpc = "transfer" /\ fpc' = "size"
  /\ Len(File(cur)) = Size[cur][source] \/ FetchFails("transfer")
  /\ new' = TRUE /\ NoHost
  /\ UNCHANGED <<world, cache, session, todo, cur, tried, why, skipped, suspect>>

TransferFails ==
  /\ FetchFails("transfer")
  /\ fpc = "transfer" /\ fpc' = "failed"
  /\ why' = "transfer"
  /\ UNCHANGED <<world, cache, session, todo, cur, tried, new, host, skipped, suspect>>

\* Once more, from the start
Again ==
  /\ cache' = WithFile(cur, NoFile)
  /\ fpc' = "stat" /\ tried' = TRUE /\ new' = FALSE
  /\ UNCHANGED why

Mismatch ==
  /\ fpc' = "failed" /\ why' = "mismatch"
  /\ UNCHANGED <<cache, tried, new>>

CheckSize ==
  /\ fpc = "size"
  /\ IF Length(File(cur)) = Size[cur][Wanted(cur)] THEN fpc' = "checksum" /\ UNCHANGED <<cache, tried, new, why>>
     ELSE IF tried THEN Mismatch ELSE Again
  /\ UNCHANGED <<world, session, todo, cur, host, skipped, suspect>>

\* Mutant: what was fetched is not checked.
CheckSum_Trusting ==
  /\ fpc = "checksum"
  /\ IF Whole(cur, Wanted(cur), File(cur)) \/ new
     THEN fpc' = "next" /\ todo' = todo \ {cur} /\ cur' = NoPkg
          /\ tried' = FALSE /\ new' = FALSE
          /\ suspect' = suspect \ {<<cur, Wanted(cur)>>}
          /\ UNCHANGED <<cache, why>>
     ELSE /\ IF tried \/ new THEN Mismatch ELSE Again
          /\ UNCHANGED <<todo, cur, suspect>>
  /\ UNCHANGED <<world, session, host, skipped>>

CheckSum ==
  /\ fpc = "checksum"
  /\ IF Whole(cur, Wanted(cur), File(cur))
     THEN fpc' = "next" /\ todo' = todo \ {cur} /\ cur' = NoPkg
          /\ tried' = FALSE /\ new' = FALSE
          /\ suspect' = suspect \ {<<cur, Wanted(cur)>>}
          /\ UNCHANGED <<cache, why>>
     ELSE /\ IF tried \/ new THEN Mismatch ELSE Again
          /\ UNCHANGED <<todo, cur, suspect>>
  /\ UNCHANGED <<world, session, host, skipped>>

\* Mutant: the file is kept.
Failed_Kept ==
  /\ fpc = "failed" /\ Over
  /\ suspect' = suspect \ {<<cur, Wanted(cur)>>}
  /\ UNCHANGED <<world, cache>>

\* The file is removed and the command ends.
Failed ==
  /\ fpc = "failed" /\ Over
  /\ cache' = WithFile(cur, NoFile)
  /\ suspect' = suspect \ {<<cur, Wanted(cur)>>}
  /\ UNCHANGED world

\* SIGINT or SIGKILL
Stopped ==
  /\ FetchFails("stop") /\ fpc # "idle" /\ Over
  /\ suspect' = IF fpc \in {"connect", "transfer", "size", "checksum", "failed"}
                THEN suspect \cup {<<cur, Wanted(cur)>>} ELSE suspect
  /\ UNCHANGED <<world, cache>>

FetchStep ==
  \/ Measure \/ AllFetched \/ Finish \/ \E p \in Pkgs : Take(p)
  \/ Stat \/ Connect \/ ConnectFails \/ Transfer \/ Transferred \/ CheckSize \/ CheckSum \/ Failed

FetchFault == Unavailable \/ TransferFails \/ Stopped

-----------------------------------------------------------------------------
(* Properties.                                                             *)

\* A file that is not being fetched is the build it is named for, all of it, unless a
\* process was stopped while it fetched it.
CacheSound ==
  \A p \in Pkgs, b \in Builds :
    LET f == cache[p][b] IN
    \/ f = NoFile \/ Whole(p, b, f)
    \/ <<p, b>> \in suspect
    \/ p = cur /\ fpc \in {"connect", "transfer", "size", "checksum", "failed"} /\ b = Wanted(p)

\* What is installed is what the catalogue lists, but when the sizes made it look as if
\* nothing was to be fetched.
UsedAsListed ==
  fpc = "ready" => \/ \A p \in wanted : Whole(p, Wanted(p), File(p))
                   \/ skipped /\ \E p \in wanted : <<p, Wanted(p)>> \in suspect

\* With as many tries as there are mirrors every mirror has been tried before fetching
\* fails for want of an answer, unless the list is an HTTP one of more than two.
MirrorsTried ==
  why = "retries" /\ MaxRetry >= Len(list.hosts) /\ (list.type # "HTTP" \/ Len(list.hosts) <= 2)
    => asked = DOMAIN list.hosts

\* "Mirrors are tried in the order listed until a download succeeds": with as many tries
\* as there are mirrors, fetching does not fail for want of an answer before all have
\* been asked.
ListedMirrorsTried ==
  why = "retries" /\ list.type = "HTTP" /\ MaxRetry >= Len(list.hosts) => asked = DOMAIN list.hosts
=============================================================================
