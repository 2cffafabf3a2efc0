----------------------------- MODULE RepoUpdate -----------------------------
(***************************************************************************)
(* The update of a repository's catalogue: pkg_repo_binary_update          *)
(* (libpkg/repo/binary/update.c), with pkg_repo_fetch_meta and             *)
(* pkg_repo_fetch_remote_extract_fd (libpkg/pkg_repo.c) and what it needs  *)
(* of repo/binary/init.c.                                                  *)
(*                                                                         *)
(* The catalogue is one SQLite file.  It is renamed, a new one is made and *)
(* filled in its place, and the old one is deleted, or brought back when   *)
(* something fails or SIGINT arrives.  Whether to fetch at all is decided  *)
(* by the modification time of the .meta file, or of the catalogue.        *)
(*                                                                         *)
(* The rows of a transaction appear at its end; SQLite's journals are left *)
(* out.  A fetch has the publication of any host: the order in which hosts *)
(* are tried is in PkgFetch.  Updates run one after the other.             *)
(***************************************************************************)
EXTENDS RepoServer

CONSTANTS
  None,
  HasMeta,        \* the repository has a meta file
  UpdateFaults    \* what may go wrong: "meta", "site", "db", "interrupt", "kill"

\* A catalogue: whether it has its tables, the publication of its packages (0: there
\* are none yet) and its modification time.  A .meta file: its time and whether it loads.
Catalogues == [ready : BOOLEAN, pub : 0 .. MaxPub, mtime : Times]
MetaFiles == [mtime : Times, loads : BOOLEAN]

ASSUME UpdateAssumption ==
  /\ None \notin Catalogues /\ None \notin MetaFiles
  /\ HasMeta \in BOOLEAN
  /\ UpdateFaults \subseteq {"meta", "site", "db", "interrupt", "kill"}

VARIABLES
  cat,            \* <repo>.sqlite, or None
  temp,           \* <repo>.sqlite-pkgtemp, or None
  meta,           \* <repo>.meta, or None
  upc,            \* where the update is
  t,              \* *mtime: the time that the hosts are asked about
  gotMeta,        \* got_meta
  moved,          \* path is not NULL
  armed,          \* rollback_repo is registered for SIGINT
  fetched,        \* the publication packagesite was of
  rc,
  found,          \* history: the catalogue the update found
  newest,         \* history: the publication of the last update that went well
  blemish,        \* history: what the times on disk suffer from since then
  wrote           \* history: this update has written .meta

updateVars == <<cat, temp, meta, upc, t, gotMeta, moved, armed, fetched, rc, found, newest, blemish, wrote>>
disk == <<cat, temp, meta>>
local == <<t, gotMeta, moved, armed, fetched, rc, found>>
history == <<newest, blemish, wrote>>

UpdateTypeOK ==
  /\ cat \in Catalogues \cup {None} /\ temp \in Catalogues \cup {None}
  /\ meta \in MetaFiles \cup {None}
  /\ upc \in {"idle", "meta", "metaWrite", "site", "move", "arm", "create", "schema", "open", "rows",
              "restore", "rename", "unlinkTemp", "disarm", "stamp", "stampMeta"}
  /\ t \in Times /\ gotMeta \in BOOLEAN /\ moved \in BOOLEAN /\ armed \in BOOLEAN
  /\ fetched \in 0 .. MaxPub /\ rc \in {"none", "ok", "uptodate", "fatal"}
  /\ found \in Catalogues \cup {None} /\ newest \in 0 .. MaxPub
  /\ blemish \subseteq {"killed", "failed", "lagging", "late", "stale", "untimed"} /\ wrote \in BOOLEAN

UpdateInit ==
  /\ cat = None /\ temp = None /\ meta = None
  /\ upc = "idle" /\ t = 0 /\ gotMeta = FALSE /\ moved = FALSE /\ armed = FALSE
  /\ fetched = 0 /\ rc = "none" /\ found = None /\ newest = 0
  /\ blemish = {} /\ wrote = FALSE

Fails(what) == storm /\ strikes = "catalogue" /\ what \in UpdateFaults

\* pkg_repo_binary_open: what a reader accepts, and the update itself.
OpensAs(c) == c # None /\ c.ready /\ (meta # None => meta.loads)
Opens == OpensAs(cat)

\* The publication a reader finds, 0 for an empty catalogue or none.
Listed == IF Opens THEN cat.pub ELSE 0

\* The process is gone.
Gone ==
  /\ upc' = "idle" /\ t' = 0 /\ gotMeta' = FALSE /\ moved' = FALSE /\ armed' = FALSE
  /\ fetched' = 0 /\ rc' = "none" /\ found' = None /\ wrote' = FALSE

-----------------------------------------------------------------------------
(* Fetching.                                                               *)

StartTime(force) ==
  CASE force \/ ~Opens -> 0
    [] ~force /\ Opens /\ meta # None -> meta.mtime
    [] ~force /\ Opens /\ meta = None -> cat.mtime

Start(force) ==
  /\ upc = "idle" /\ upc' = "meta"
  /\ t' = StartTime(force)
  /\ gotMeta' = (Opens /\ meta # None)
  /\ found' = cat
  /\ blemish' = IF t' = 0 THEN blemish \cup {"untimed"} ELSE blemish
  /\ UNCHANGED <<world, disk, moved, armed, fetched, rc, newest, wrote>>

\* pkg_fetch_file_to_fd: the file of host m is newer than the time asked about.
Newer(m) == PublishedAt(served[m]) > t

\* No meta file is to be had, or none that is newer: go on without.
MetaKept ==
  /\ upc = "meta" /\ upc' = "site"
  /\ ~HasMeta \/ Fails("site") \/ \E m \in Mirrors : ~Newer(m)
  /\ UNCHANGED <<world, disk, local, history>>

\* .meta is truncated before the signature of what was fetched is looked at.
MetaTruncated ==
  /\ upc = "meta" /\ upc' = "metaWrite"
  /\ HasMeta /\ \E m \in Mirrors : Newer(m)
  /\ meta' = [mtime |-> Now, loads |-> FALSE]
  /\ wrote' = TRUE
  /\ UNCHANGED <<world, cat, temp, local, newest, blemish>>

MetaWritten ==
  /\ upc = "metaWrite" /\ upc' = "site"
  /\ meta' = [mtime |-> Now, loads |-> TRUE]
  /\ UNCHANGED <<world, cat, temp, local, history>>

\* It is removed; or, for a public key and for a file that does not load, left.
MetaRejected ==
  /\ Fails("meta")
  /\ upc = "metaWrite" /\ upc' = "site"
  /\ meta' \in {None} \cup [mtime : {Now}, loads : BOOLEAN]
  /\ UNCHANGED <<world, cat, temp, local, history>>

SiteNotNewer(m) ==
  /\ upc = "site" /\ ~Newer(m) /\ upc' = "disarm"
  /\ rc' = "uptodate" /\ fetched' = served[m]
  /\ UNCHANGED <<world, disk, t, gotMeta, moved, armed, found, history>>

\* Not to be had, or its signature is wrong.
SiteFails ==
  /\ Fails("site")
  /\ upc = "site" /\ upc' = "restore"
  /\ rc' = "fatal"
  /\ UNCHANGED <<world, disk, t, gotMeta, moved, armed, fetched, found, history>>

\* Mutant: any publication will do.
SiteFetched_Any(m) ==
  /\ upc = "site" /\ upc' = "move"
  /\ fetched' = served[m] /\ t' = PublishedAt(served[m])
  /\ UNCHANGED <<world, disk, gotMeta, moved, armed, rc, found, history>>

SiteFetched(m) ==
  /\ upc = "site" /\ Newer(m) /\ upc' = "move"
  /\ fetched' = served[m] /\ t' = PublishedAt(served[m])
  /\ UNCHANGED <<world, disk, gotMeta, moved, armed, rc, found, history>>

-----------------------------------------------------------------------------
(* Rebuilding.                                                             *)

\* The name of the old catalogue is taken by the new one.
Move ==
  /\ upc = "move" /\ upc' = "arm"
  /\ moved' = TRUE
  /\ temp' = IF cat = None THEN temp ELSE cat
  /\ cat' = None
  /\ UNCHANGED <<world, meta, t, gotMeta, armed, fetched, rc, found, history>>

Arm ==
  /\ upc = "arm" /\ upc' = "create"
  /\ armed' = TRUE
  /\ UNCHANGED <<world, disk, t, gotMeta, moved, fetched, rc, found, history>>

Create ==
  /\ upc = "create" /\ upc' = "schema"
  /\ cat' = [ready |-> FALSE, pub |-> 0, mtime |-> Now]
  /\ UNCHANGED <<world, temp, meta, local, history>>

Schema ==
  /\ upc = "schema" /\ upc' = "open"
  /\ cat' = [cat EXCEPT !.ready = TRUE]
  /\ UNCHANGED <<world, temp, meta, local, history>>

GiveUp ==
  /\ upc' = "restore" /\ rc' = "fatal"
  /\ UNCHANGED <<world, disk, t, gotMeta, moved, armed, fetched, found, history>>

Open ==
  /\ upc = "open" /\ Opens
  /\ upc' = "rows"
  /\ UNCHANGED <<world, disk, local, history>>

\* A .meta that does not load.
OpenFails == upc = "open" /\ ~Opens /\ GiveUp

\* The table that marks the update, or a row, cannot be written, or a package is not
\* for this system.
DbFails ==
  /\ Fails("db")
  /\ upc \in {"create", "schema", "rows"}
  /\ GiveUp

Commit ==
  /\ upc = "rows" /\ upc' = "unlinkTemp"
  /\ cat' = [cat EXCEPT !.pub = fetched, !.mtime = Now]
  /\ rc' = "ok"
  /\ UNCHANGED <<world, temp, meta, t, gotMeta, moved, armed, fetched, found, history>>

-----------------------------------------------------------------------------
(* cleanup:, and the end of pkg_repo_binary_update.                        *)

\* "restore the previous db in case of failures"
Restore ==
  /\ upc = "restore" /\ upc' = "rename"
  /\ cat' = None
  /\ UNCHANGED <<world, temp, meta, local, history>>

\* Mutant: the old catalogue is deleted before it could be renamed.
Rename_Unlinked ==
  /\ upc = "rename" /\ upc' = "unlinkTemp"
  /\ temp' = IF moved THEN None ELSE temp
  /\ UNCHANGED <<world, cat, meta, local, history>>

Rename ==
  /\ upc = "rename" /\ upc' = "unlinkTemp"
  /\ IF moved THEN cat' = temp /\ temp' = None ELSE UNCHANGED <<cat, temp>>
  /\ UNCHANGED <<world, meta, local, history>>

UnlinkTemp ==
  /\ upc = "unlinkTemp" /\ upc' = "disarm"
  /\ temp' = IF moved THEN None ELSE temp
  /\ UNCHANGED <<world, cat, meta, local, history>>

\* A .meta that was written keeps the local time, beside a catalogue of an earlier update.
LeftBehind(c, why) == IF wrote /\ OpensAs(c) THEN {why} ELSE {}

\* The end, unless all went well.
Disarm ==
  /\ upc = "disarm"
  /\ IF rc = "ok"
     THEN /\ upc' = "stamp" /\ armed' = FALSE
          /\ UNCHANGED <<t, gotMeta, moved, fetched, rc, found, blemish, wrote>>
     ELSE /\ Gone
          /\ blemish' = blemish \cup LeftBehind(cat, IF rc = "uptodate" THEN "lagging" ELSE "failed")
  /\ UNCHANGED <<world, disk, newest>>

\* Mutant: the catalogue keeps the local time.
Stamp_Kept ==
  /\ upc = "stamp" /\ upc' = "stampMeta"
  /\ UNCHANGED <<world, disk, local, history>>

Stamp ==
  /\ upc = "stamp" /\ upc' = "stampMeta"
  /\ cat' = [cat EXCEPT !.mtime = t]
  /\ UNCHANGED <<world, temp, meta, local, history>>

\* A .meta that the update did not find keeps its time.  When packagesite is of a host
\* that was behind the site the catalogue passes for newer than it is; when an earlier
\* update has left it, or the site went on, for older.
MetaBlemish ==
  IF gotMeta \/ meta = None THEN {}
  ELSE {why \in {"lagging", "stale"} : IF why = "stale" THEN meta.mtime < t ELSE meta.mtime > t + 1}

\* Mutant: without the time of the catalogue.
StampMeta_Kept ==
  /\ upc = "stampMeta"
  /\ newest' = fetched
  /\ blemish' = MetaBlemish
  /\ Gone
  /\ UNCHANGED <<world, disk>>

\* What went wrong before is got over, but for the time of a .meta that was not found.
StampMeta ==
  /\ upc = "stampMeta"
  /\ meta' = IF gotMeta /\ meta # None THEN [meta EXCEPT !.mtime = t] ELSE meta
  /\ newest' = fetched
  /\ blemish' = MetaBlemish
  /\ Gone
  /\ UNCHANGED <<world, cat, temp>>

-----------------------------------------------------------------------------
(* Signals.                                                                *)

\* The handler of SIGINT runs rollback_repo; once one is installed SIGINT does nothing
\* when nothing is registered.
Interrupt ==
  /\ Fails("interrupt") /\ armed
  /\ cat' = temp /\ temp' = None
  /\ Gone
  /\ blemish' = blemish \cup LeftBehind(temp, "failed")
                        \cup (IF temp = None /\ cat # None THEN {"late"} ELSE {})
  /\ UNCHANGED <<world, meta, newest>>

\* SIGKILL anywhere, and SIGINT as long as no handler is installed.
Kill ==
  /\ Fails("kill") /\ upc # "idle"
  /\ Gone
  /\ blemish' = IF moved \/ wrote THEN blemish \cup {"killed"} ELSE blemish
  /\ UNCHANGED <<world, disk, newest>>

UpdateStep ==
  \/ MetaKept \/ MetaTruncated \/ MetaWritten
  \/ \E m \in Mirrors : SiteNotNewer(m) \/ SiteFetched(m)
  \/ Move \/ Arm \/ Create \/ Schema \/ Open \/ OpenFails \/ Commit
  \/ Restore \/ Rename \/ UnlinkTemp \/ Disarm \/ Stamp \/ StampMeta

UpdateFault == MetaRejected \/ SiteFails \/ DbFails \/ Interrupt \/ Kill

-----------------------------------------------------------------------------
(* Properties.                                                             *)

\* An update that fails or is interrupted once it has touched the catalogue leaves the
\* one it found, unless it was killed, or interrupted when the old one was gone.
Restored ==
  [][/\ upc # "idle" /\ upc # "stampMeta" /\ upc' = "idle"
     /\ moved /\ blemish' \cap {"killed", "late"} = {}
     => cat' = found]_<<world, updateVars>>

\* The times on disk say more than the catalogue has: since the last update that went
\* well one was killed at work, or has written .meta and then failed, or, with that last
\* one, was given a packagesite by a host that was behind the site.
Misled == blemish \cap {"killed", "failed", "lagging"} # {}

\* A catalogue that is reported to be up to date is no older than what the host has, and
\* opens, but for a .meta that was just rejected and left, unless the update is misled.
UpToDateIsTrue ==
  rc = "uptodate" /\ ~Misled => cat # None /\ cat.pub >= fetched /\ (wrote \/ Opens)

\* An update that asks for something newer than a time does not go back to an older
\* publication, whatever times earlier updates have left, unless the time is that of
\* a .meta which an update that went well found there, older, and left as it was.
NeverBack == [][newest' < newest => blemish \cap {"untimed", "stale"} # {}]_<<world, updateVars>>
=============================================================================
