-------------------------- MODULE RepoUpdateProofs --------------------------
(***************************************************************************)
(* What an update leaves of the catalogue: a failed one the catalogue it   *)
(* found, and none an older one.  The theorems are about the specification *)
(* of RepoClient, for any hosts, publications and faults.                  *)
(***************************************************************************)
EXTENDS RepoClient, TLAPS

-----------------------------------------------------------------------------
(* The inductive invariant.                                                *)

\* Where the update asks the hosts, and where it builds the new catalogue.
Asking == {"meta", "metaWrite", "site", "move"}
Building == {"arm", "create", "schema", "open", "rows"}
Ending == {"disarm", "stamp", "stampMeta"}

\* How the local variables of the code go with the place the update has come to.
Control ==
  /\ moved => upc \notin {"idle"} \cup Asking
  /\ upc \in Building => moved
  /\ armed => moved
  /\ upc \in {"idle"} \cup Asking \cup Building <=> rc = "none"
  /\ upc \in {"restore", "rename"} => rc = "fatal"
  /\ rc = "uptodate" => upc = "disarm" /\ ~moved
  /\ rc = "ok" => moved /\ upc \in {"unlinkTemp"} \cup Ending
  /\ upc \in {"stamp", "stampMeta"} => rc = "ok"
  /\ upc = "idle" => ~wrote
  /\ upc = "metaWrite" => wrote

\* The temporary name is free when the update has used it.
Cleaned ==
  /\ upc \in Ending /\ moved => temp = None
  /\ upc = "unlinkTemp" /\ moved /\ rc = "fatal" => temp = None

\* What the new catalogue is like so far.
Built ==
  /\ upc \in {"schema", "open", "rows"} \/ rc = "ok" => cat # None
  /\ upc \in {"open", "rows"} \/ rc = "ok" => cat.ready
  /\ upc = "rows" \/ rc = "ok" => (meta # None => meta.loads)
  /\ rc = "ok" => cat.pub = fetched
  /\ upc \in {"move"} \cup Building \/ rc = "ok" => t = PublishedAt(fetched)
  /\ upc = "stampMeta" => cat.mtime = t

\* Where the catalogue is that the update found, as long as no process was killed.
Kept ==
  "killed" \notin blemish =>
    /\ upc \in {"idle"} \cup Asking => temp = None
    /\ upc \in Asking => cat = found
    /\ upc \in Building => temp = found
    /\ upc \in {"restore", "rename"} => temp = IF moved THEN found ELSE None
    /\ upc = "unlinkTemp" /\ rc = "ok" => temp = found
    /\ upc \in {"unlinkTemp", "disarm"} /\ ~moved => temp = None
    /\ upc \in {"unlinkTemp", "disarm"} /\ rc = "fatal" /\ moved => cat = found

\* A catalogue that opens does not pass for newer than the next publication but one.
InStep(c) ==
  OpensAs(c) => (IF meta = None THEN c.mtime ELSE meta.mtime) <= PublishedAt(c.pub) + 1

\* What the update asks about, and what it finds, as long as it is not misled; and what
\* it will leave if it has not written .meta.
Timed ==
  ~Misled =>
    /\ ~wrote /\ (~moved \/ (rc = "fatal" /\ upc \in {"unlinkTemp", "disarm"})) => InStep(cat)
    /\ ~wrote /\ (upc \in Building \cup {"restore", "rename"} \/ (upc = "unlinkTemp" /\ rc = "ok")) /\ moved
         => InStep(temp)
    /\ upc \in {"meta", "metaWrite", "site"} /\ t # 0 =>
         cat # None /\ t <= PublishedAt(cat.pub) + 1 /\ (wrote \/ Opens)
    /\ rc = "uptodate" => cat # None /\ cat.pub >= fetched /\ (wrote \/ Opens)

\* No host is ahead of the site, and no time is behind the last update that went well.
Ages ==
  /\ \A m \in Mirrors : served[m] <= served[Origin]
  /\ newest <= served[Origin] /\ fetched <= served[Origin]
  /\ "stale" \notin blemish /\ meta # None => meta.mtime >= PublishedAt(newest)
  /\ blemish \cap {"untimed", "stale"} = {} =>
       /\ cat # None => cat.mtime >= PublishedAt(newest)
       /\ temp # None => temp.mtime >= PublishedAt(newest)
       /\ upc \in {"meta", "metaWrite", "site"} => t >= PublishedAt(newest)
       /\ upc \in {"move"} \cup Building \/ rc = "ok" => fetched >= newest

\* The publications have times, and every host one of them.
LEMMA TimesOfPublications ==
  ASSUME ServerTypeOK
  PROVE  /\ 0 \in Times /\ Now \in Times /\ 0 \in 0 .. MaxPub /\ \A k \in 0 .. MaxPub : PublishedAt(k) \in Times
         /\ \A m \in Mirrors : served[m] \in 0 .. MaxPub /\ PublishedAt(served[m]) \in Times
  BY ServerAssumption DEF ServerTypeOK, Now, Times, PublishedAt

-----------------------------------------------------------------------------
(* The steps of an update keep the parts of the invariant.                 *)

\* A step of the update, and all of the invariant.
UpdateMove == (\E force \in BOOLEAN : Start(force)) \/ UpdateStep \/ UpdateFault

UpdateInv ==
  /\ ServerTypeOK /\ UpdateTypeOK
  /\ Control /\ Cleaned /\ Built /\ Kept /\ Timed /\ Ages

\* Each step of an update leaves the local variables as they belong to the next place.
LEMMA ControlStep ==
  ASSUME Control, UpdateMove
  PROVE  Control'
<1> USE DEF Control, Asking, Building, Ending
<1>1. ASSUME NEW force \in BOOLEAN, Start(force)
       PROVE  Control'
  BY <1>1 DEF Start, StartTime, Opens, OpensAs, disk
<1>2. CASE MetaKept
  BY <1>2 DEF MetaKept, disk, local, history
<1>3. CASE MetaTruncated
  BY <1>3 DEF MetaTruncated, local
<1>4. CASE MetaWritten
  BY <1>4 DEF MetaWritten, local, history
<1>5. CASE MetaRejected
  BY <1>5 DEF MetaRejected, local, history
<1>6. ASSUME NEW m \in Mirrors, SiteNotNewer(m)
       PROVE  Control'
  BY <1>6 DEF SiteNotNewer, disk, history
<1>7. CASE SiteFails
  BY <1>7 DEF SiteFails, disk, history
<1>8. ASSUME NEW m \in Mirrors, SiteFetched(m)
       PROVE  Control'
  BY <1>8 DEF SiteFetched, disk, history
<1>9. CASE Move
  BY <1>9 DEF Move, history
<1>10. CASE Arm
  BY <1>10 DEF Arm, disk, history
<1>11. CASE Create
  BY <1>11 DEF Create, local, history
<1>12. CASE Schema
  BY <1>12 DEF Schema, local, history
<1>13. CASE Open
  BY <1>13 DEF Open, disk, local, history
<1>14. CASE OpenFails
  BY <1>14 DEF OpenFails, GiveUp, disk, history
<1>15. CASE DbFails
  BY <1>15 DEF DbFails, GiveUp, disk, history
<1>16. CASE Commit
  BY <1>16 DEF Commit, history
<1>17. CASE Restore
  BY <1>17 DEF Restore, local, history
<1>18. CASE Rename
  BY <1>18 DEF Rename, local, history
<1>19. CASE UnlinkTemp
  BY <1>19 DEF UnlinkTemp, local, history
<1>20. CASE Disarm
  BY <1>20 DEF Disarm, Gone, LeftBehind, disk, history
<1>21. CASE Stamp
  BY <1>21 DEF Stamp, local, history
<1>22. CASE StampMeta
  BY <1>22 DEF StampMeta, Gone, MetaBlemish
<1>23. CASE Interrupt
  BY <1>23 DEF Interrupt, Gone, LeftBehind
<1>24. CASE Kill
  BY <1>24 DEF Kill, Gone, disk
<1> QED  BY <1>1, <1>2, <1>3, <1>4, <1>5, <1>6, <1>7, <1>8, <1>9, <1>10, <1>11, <1>12, <1>13, <1>14,
          <1>15, <1>16, <1>17, <1>18, <1>19, <1>20, <1>21, <1>22, <1>23, <1>24 DEF UpdateMove,
          UpdateStep, UpdateFault

\* The temporary name is freed before it is needed again.
LEMMA CleanedStep ==
  ASSUME Control, Cleaned, UpdateMove
  PROVE  Cleaned'
<1> USE DEF Control, Cleaned, Asking, Building, Ending
<1>1. ASSUME NEW force \in BOOLEAN, Start(force)
       PROVE  Cleaned'
  BY <1>1 DEF Start, StartTime, Opens, OpensAs, disk
<1>2. CASE MetaKept
  BY <1>2 DEF MetaKept, disk, local, history
<1>3. CASE MetaTruncated
  BY <1>3 DEF MetaTruncated, local
<1>4. CASE MetaWritten
  BY <1>4 DEF MetaWritten, local, history
<1>5. CASE MetaRejected
  BY <1>5 DEF MetaRejected, local, history
<1>6. ASSUME NEW m \in Mirrors, SiteNotNewer(m)
       PROVE  Cleaned'
  BY <1>6 DEF SiteNotNewer, disk, history
<1>7. CASE SiteFails
  BY <1>7 DEF SiteFails, disk, history
<1>8. ASSUME NEW m \in Mirrors, SiteFetched(m)
       PROVE  Cleaned'
  BY <1>8 DEF SiteFetched, disk, history
<1>9. CASE Move
  BY <1>9 DEF Move, history
<1>10. CASE Arm
  BY <1>10 DEF Arm, disk, history
<1>11. CASE Create
  BY <1>11 DEF Create, local, history
<1>12. CASE Schema
  BY <1>12 DEF Schema, local, history
<1>13. CASE Open
  BY <1>13 DEF Open, disk, local, history
<1>14. CASE OpenFails
  BY <1>14 DEF OpenFails, GiveUp, disk, history
<1>15. CASE DbFails
  BY <1>15 DEF DbFails, GiveUp, disk, history
<1>16. CASE Commit
  BY <1>16 DEF Commit, history
<1>17. CASE Restore
  BY <1>17 DEF Restore, local, history
<1>18. CASE Rename
  BY <1>18 DEF Rename, local, history
<1>19. CASE UnlinkTemp
  BY <1>19 DEF UnlinkTemp, local, history
<1>20. CASE Disarm
  BY <1>20 DEF Disarm, Gone, LeftBehind, disk, history
<1>21. CASE Stamp
  BY <1>21 DEF Stamp, local, history
<1>22. CASE StampMeta
  BY <1>22 DEF StampMeta, Gone, MetaBlemish
<1>23. CASE Interrupt
  BY <1>23 DEF Interrupt, Gone, LeftBehind
<1>24. CASE Kill
  BY <1>24 DEF Kill, Gone, disk
<1> QED  BY <1>1, <1>2, <1>3, <1>4, <1>5, <1>6, <1>7, <1>8, <1>9, <1>10, <1>11, <1>12, <1>13, <1>14,
          <1>15, <1>16, <1>17, <1>18, <1>19, <1>20, <1>21, <1>22, <1>23, <1>24 DEF UpdateMove,
          UpdateStep, UpdateFault

\* Each step of an update keeps the types.
LEMMA TypeStep ==
  ASSUME ServerTypeOK, UpdateTypeOK, Control, Built, UpdateMove
  PROVE  UpdateTypeOK'
<1> USE DEF UpdateTypeOK, Control, Built
<1>1. ASSUME NEW force \in BOOLEAN, Start(force)
       PROVE  UpdateTypeOK'
  BY <1>1, TimesOfPublications DEF Start, StartTime, Opens, OpensAs, Catalogues, MetaFiles, disk
<1>2. CASE MetaKept
  BY <1>2, TimesOfPublications DEF MetaKept, disk, local, history
<1>3. CASE MetaTruncated
  BY <1>3, TimesOfPublications DEF MetaTruncated, MetaFiles, local
<1>4. CASE MetaWritten
  BY <1>4, TimesOfPublications DEF MetaWritten, MetaFiles, local, history
<1>5. CASE MetaRejected
  BY <1>5, TimesOfPublications DEF MetaRejected, MetaFiles, local, history
<1>6. ASSUME NEW m \in Mirrors, SiteNotNewer(m)
       PROVE  UpdateTypeOK'
  BY <1>6, TimesOfPublications DEF SiteNotNewer, disk, history
<1>7. CASE SiteFails
  BY <1>7, TimesOfPublications DEF SiteFails, disk, history
<1>8. ASSUME NEW m \in Mirrors, SiteFetched(m)
       PROVE  UpdateTypeOK'
  BY <1>8, TimesOfPublications DEF SiteFetched, disk, history
<1>9. CASE Move
  BY <1>9, TimesOfPublications DEF Move, history
<1>10. CASE Arm
  BY <1>10, TimesOfPublications DEF Arm, disk, history
<1>11. CASE Create
  BY <1>11, TimesOfPublications DEF Create, Catalogues, local, history
<1>12. CASE Schema
  BY <1>12, TimesOfPublications DEF Schema, Catalogues, local, history
<1>13. CASE Open
  BY <1>13, TimesOfPublications DEF Open, disk, local, history
<1>14. CASE OpenFails
  BY <1>14, TimesOfPublications DEF OpenFails, GiveUp, disk, history
<1>15. CASE DbFails
  BY <1>15, TimesOfPublications DEF DbFails, GiveUp, disk, history
<1>16. CASE Commit
  BY <1>16, TimesOfPublications DEF Commit, Catalogues, history
<1>17. CASE Restore
  BY <1>17, TimesOfPublications DEF Restore, local, history
<1>18. CASE Rename
  BY <1>18, TimesOfPublications DEF Rename, local, history
<1>19. CASE UnlinkTemp
  BY <1>19, TimesOfPublications DEF UnlinkTemp, local, history
<1>20. CASE Disarm
  BY <1>20, TimesOfPublications DEF Disarm, Gone, LeftBehind, disk, history
<1>21. CASE Stamp
  BY <1>21, TimesOfPublications DEF Stamp, Catalogues, local, history
<1>22. CASE StampMeta
  BY <1>22, TimesOfPublications DEF StampMeta, Gone, MetaBlemish, MetaFiles
<1>23. CASE Interrupt
  BY <1>23, TimesOfPublications DEF Interrupt, Gone, LeftBehind
<1>24. CASE Kill
  BY <1>24, TimesOfPublications DEF Kill, Gone, disk
<1> QED  BY <1>1, <1>2, <1>3, <1>4, <1>5, <1>6, <1>7, <1>8, <1>9, <1>10, <1>11, <1>12, <1>13, <1>14,
          <1>15, <1>16, <1>17, <1>18, <1>19, <1>20, <1>21, <1>22, <1>23, <1>24 DEF UpdateMove,
          UpdateStep, UpdateFault

\* The new catalogue grows in the order of the code: file, schema, rows, time.
LEMMA BuiltStep ==
  ASSUME ServerTypeOK, UpdateTypeOK, Control, Built, UpdateMove
  PROVE  Built'
<1> USE DEF UpdateTypeOK, Control, Built, Asking, Building, Ending, Catalogues
<1>1. ASSUME NEW force \in BOOLEAN, Start(force)
       PROVE  Built'
  BY <1>1, UpdateAssumption, TimesOfPublications DEF Start, StartTime, Opens, OpensAs, disk
<1>2. CASE MetaKept
  BY <1>2, UpdateAssumption, TimesOfPublications DEF MetaKept, disk, local, history
<1>3. CASE MetaTruncated
  BY <1>3, UpdateAssumption, TimesOfPublications DEF MetaTruncated, local
<1>4. CASE MetaWritten
  BY <1>4, UpdateAssumption, TimesOfPublications DEF MetaWritten, local, history
<1>5. CASE MetaRejected
  BY <1>5, UpdateAssumption, TimesOfPublications DEF MetaRejected, local, history
<1>6. ASSUME NEW m \in Mirrors, SiteNotNewer(m)
       PROVE  Built'
  BY <1>6, UpdateAssumption, TimesOfPublications DEF SiteNotNewer, disk, history
<1>7. CASE SiteFails
  BY <1>7, UpdateAssumption, TimesOfPublications DEF SiteFails, disk, history
<1>8. ASSUME NEW m \in Mirrors, SiteFetched(m)
       PROVE  Built'
  BY <1>8, UpdateAssumption, TimesOfPublications DEF SiteFetched, disk, history
<1>9. CASE Move
  BY <1>9, UpdateAssumption, TimesOfPublications DEF Move, history
<1>10. CASE Arm
  BY <1>10, UpdateAssumption, TimesOfPublications DEF Arm, disk, history
<1>11. CASE Create
  <2>1. cat' \in Catalogues
    BY <1>11, TimesOfPublications DEF Create, Catalogues
  <2> QED  BY <1>11, <2>1, UpdateAssumption DEF Create, local, history
<1>12. CASE Schema
  BY <1>12, UpdateAssumption, TimesOfPublications DEF Schema, local, history
<1>13. CASE Open
  BY <1>13, UpdateAssumption, TimesOfPublications DEF Open, Opens, OpensAs, disk, local, history
<1>14. CASE OpenFails
  BY <1>14, UpdateAssumption, TimesOfPublications DEF OpenFails, GiveUp, disk, history
<1>15. CASE DbFails
  BY <1>15, UpdateAssumption, TimesOfPublications DEF DbFails, GiveUp, disk, history
<1>16. CASE Commit
  BY <1>16, UpdateAssumption, TimesOfPublications DEF Commit, history
<1>17. CASE Restore
  BY <1>17, UpdateAssumption, TimesOfPublications DEF Restore, local, history
<1>18. CASE Rename
  BY <1>18, UpdateAssumption, TimesOfPublications DEF Rename, local, history
<1>19. CASE UnlinkTemp
  BY <1>19, UpdateAssumption, TimesOfPublications DEF UnlinkTemp, local, history
<1>20. CASE Disarm
  BY <1>20, UpdateAssumption, TimesOfPublications DEF Disarm, Gone, LeftBehind, disk, history
<1>21. CASE Stamp
  BY <1>21, UpdateAssumption, TimesOfPublications DEF Stamp, local, history
<1>22. CASE StampMeta
  BY <1>22, UpdateAssumption, TimesOfPublications DEF StampMeta, Gone, MetaBlemish
<1>23. CASE Interrupt
  BY <1>23, UpdateAssumption, TimesOfPublications DEF Interrupt, Gone, LeftBehind
<1>24. CASE Kill
  BY <1>24, UpdateAssumption, TimesOfPublications DEF Kill, Gone, disk
<1> QED  BY <1>1, <1>2, <1>3, <1>4, <1>5, <1>6, <1>7, <1>8, <1>9, <1>10, <1>11, <1>12, <1>13, <1>14,
          <1>15, <1>16, <1>17, <1>18, <1>19, <1>20, <1>21, <1>22, <1>23, <1>24 DEF UpdateMove,
          UpdateStep, UpdateFault

\* The catalogue that was found is under its own name or under the temporary one.
LEMMA KeptStep ==
  ASSUME UpdateTypeOK, Control, Cleaned, Built, Kept, UpdateMove
  PROVE  Kept'
<1> USE DEF UpdateTypeOK, Control, Cleaned, Built, Kept, Asking, Building, Ending
<1>1. ASSUME NEW force \in BOOLEAN, Start(force)
       PROVE  Kept'
  BY <1>1 DEF Start, StartTime, Opens, OpensAs, disk
<1>2. CASE MetaKept
  BY <1>2 DEF MetaKept, disk, local, history
<1>3. CASE MetaTruncated
  BY <1>3 DEF MetaTruncated, local
<1>4. CASE MetaWritten
  BY <1>4 DEF MetaWritten, local, history
<1>5. CASE MetaRejected
  BY <1>5 DEF MetaRejected, local, history
<1>6. ASSUME NEW m \in Mirrors, SiteNotNewer(m)
       PROVE  Kept'
  BY <1>6 DEF SiteNotNewer, disk, history
<1>7. CASE SiteFails
  BY <1>7 DEF SiteFails, disk, history
<1>8. ASSUME NEW m \in Mirrors, SiteFetched(m)
       PROVE  Kept'
  BY <1>8 DEF SiteFetched, disk, history
<1>9. CASE Move
  BY <1>9 DEF Move, history
<1>10. CASE Arm
  BY <1>10 DEF Arm, disk, history
<1>11. CASE Create
  BY <1>11 DEF Create, local, history
<1>12. CASE Schema
  BY <1>12 DEF Schema, local, history
<1>13. CASE Open
  BY <1>13 DEF Open, disk, local, history
<1>14. CASE OpenFails
  BY <1>14 DEF OpenFails, GiveUp, disk, history
<1>15. CASE DbFails
  BY <1>15 DEF DbFails, GiveUp, disk, history
<1>16. CASE Commit
  BY <1>16 DEF Commit, history
<1>17. CASE Restore
  BY <1>17 DEF Restore, local, history
<1>18. CASE Rename
  BY <1>18 DEF Rename, local, history
<1>19. CASE UnlinkTemp
  BY <1>19 DEF UnlinkTemp, local, history
<1>20. CASE Disarm
  BY <1>20 DEF Disarm, Gone, LeftBehind, disk, history
<1>21. CASE Stamp
  BY <1>21 DEF Stamp, local, history
<1>22. CASE StampMeta
  BY <1>22 DEF StampMeta, Gone, MetaBlemish
<1>23. CASE Interrupt
  BY <1>23 DEF Interrupt, Gone, LeftBehind
<1>24. CASE Kill
  BY <1>24 DEF Kill, Gone, disk
<1> QED  BY <1>1, <1>2, <1>3, <1>4, <1>5, <1>6, <1>7, <1>8, <1>9, <1>10, <1>11, <1>12, <1>13, <1>14,
          <1>15, <1>16, <1>17, <1>18, <1>19, <1>20, <1>21, <1>22, <1>23, <1>24 DEF UpdateMove,
          UpdateStep, UpdateFault

\* No step leaves a catalogue that passes for newer than it is, but those that mislead.
LEMMA TimedStep ==
  ASSUME ServerTypeOK, UpdateTypeOK, Control, Cleaned, Built, Kept, Timed, UpdateMove
  PROVE  Timed'
<1> USE UpdateAssumption
    DEF Control, Cleaned, Built, Kept, Timed, InStep, Opens, OpensAs, Misled, Asking, Building, Ending,
        UpdateTypeOK, Catalogues, MetaFiles, Times, PublishedAt
<1>1. ASSUME NEW force \in BOOLEAN, Start(force)
      PROVE  Timed'
  BY <1>1 DEF Start, StartTime, disk
<1>2. CASE MetaKept
  BY <1>2 DEF MetaKept, disk, local, history
<1>3. CASE MetaTruncated
  BY <1>3 DEF MetaTruncated, local
<1>4. CASE MetaWritten
  BY <1>4 DEF MetaWritten, local, history
<1>5. CASE MetaRejected
  BY <1>5 DEF MetaRejected, local, history
<1>6. ASSUME NEW m \in Mirrors, SiteNotNewer(m)
      PROVE  Timed'
  BY <1>6 DEF SiteNotNewer, Newer, ServerTypeOK, disk, history
<1>7. CASE SiteFails
  BY <1>7 DEF SiteFails, disk, history
<1>8. ASSUME NEW m \in Mirrors, SiteFetched(m)
      PROVE  Timed'
  BY <1>8 DEF SiteFetched, disk, history
<1>9. CASE Move
  BY <1>9 DEF Move, history
<1>10. CASE Arm
  BY <1>10 DEF Arm, disk, history
<1>11. CASE Create
  BY <1>11 DEF Create, local, history
<1>12. CASE Schema
  BY <1>12 DEF Schema, local, history
<1>13. CASE Open
  BY <1>13 DEF Open, disk, local, history
<1>14. CASE OpenFails
  BY <1>14 DEF OpenFails, GiveUp, disk, history
<1>15. CASE DbFails
  BY <1>15 DEF DbFails, GiveUp, disk, history
<1>16. CASE Commit
  BY <1>16 DEF Commit, history
<1>17. CASE Restore
  BY <1>17 DEF Restore, local, history
<1>18. CASE Rename
  BY <1>18 DEF Rename, local, history
<1>19. CASE UnlinkTemp
  BY <1>19 DEF UnlinkTemp, local, history
<1>20. CASE Disarm
  BY <1>20 DEF Disarm, Gone, LeftBehind, disk
<1>21. CASE Stamp
  BY <1>21 DEF Stamp, local, history
<1>22. CASE StampMeta
  BY <1>22 DEF StampMeta, Gone, MetaBlemish
<1>23. CASE Interrupt
  BY <1>23 DEF Interrupt, Gone, LeftBehind
<1>24. CASE Kill
  BY <1>24 DEF Kill, Gone, disk
<1> HIDE DEF Control, Cleaned, Built, Kept, Timed, UpdateTypeOK
<1> QED  BY <1>1, <1>2, <1>3, <1>4, <1>5, <1>6, <1>7, <1>8, <1>9, <1>10, <1>11, <1>12, <1>13, <1>14,
          <1>15, <1>16, <1>17, <1>18, <1>19, <1>20, <1>21, <1>22, <1>23, <1>24 DEF UpdateMove,
          UpdateStep, UpdateFault

\* No step leaves a time behind that of the last update that went well.
LEMMA AgesStep ==
  ASSUME ServerTypeOK, UpdateTypeOK, Control, Cleaned, Built, Ages, UpdateMove
  PROVE  Ages'
<1> USE DEF Control, Cleaned, Built, Ages, Asking, Building, Ending
<1>1. ASSUME NEW force \in BOOLEAN, Start(force)
       PROVE  Ages'
  BY <1>1, ServerAssumption DEF Start, StartTime, Opens, OpensAs, disk, world
<1>2. CASE MetaKept
  BY <1>2, ServerAssumption DEF MetaKept, disk, local, history, world
<1>3. CASE MetaTruncated
  BY <1>3, ServerAssumption DEF MetaTruncated, Now, PublishedAt, ServerTypeOK, UpdateTypeOK, Times,
      Catalogues, MetaFiles, local, world
<1>4. CASE MetaWritten
  BY <1>4, ServerAssumption DEF MetaWritten, Now, PublishedAt, ServerTypeOK, UpdateTypeOK, Times,
      Catalogues, MetaFiles, local, history, world
<1>5. CASE MetaRejected
  BY <1>5, ServerAssumption DEF MetaRejected, Now, PublishedAt, ServerTypeOK, UpdateTypeOK, Times,
      Catalogues, MetaFiles, local, history, world
<1>6. ASSUME NEW m \in Mirrors, SiteNotNewer(m)
       PROVE  Ages'
  BY <1>6, ServerAssumption DEF SiteNotNewer, disk, history, world
<1>7. CASE SiteFails
  BY <1>7, ServerAssumption DEF SiteFails, disk, history, world
<1>8. ASSUME NEW m \in Mirrors, SiteFetched(m)
       PROVE  Ages'
  BY <1>8, ServerAssumption DEF SiteFetched, Newer, PublishedAt, ServerTypeOK, UpdateTypeOK, Times,
      disk, history, world
<1>9. CASE Move
  BY <1>9, ServerAssumption DEF Move, history, world
<1>10. CASE Arm
  BY <1>10, ServerAssumption DEF Arm, disk, history, world
<1>11. CASE Create
  BY <1>11, ServerAssumption DEF Create, Now, PublishedAt, ServerTypeOK, UpdateTypeOK, Times,
      Catalogues, MetaFiles, local, history, world
<1>12. CASE Schema
  BY <1>12, ServerAssumption DEF Schema, local, history, world
<1>13. CASE Open
  BY <1>13, ServerAssumption DEF Open, disk, local, history, world
<1>14. CASE OpenFails
  BY <1>14, ServerAssumption DEF OpenFails, GiveUp, disk, history, world
<1>15. CASE DbFails
  BY <1>15, ServerAssumption DEF DbFails, GiveUp, disk, history, world
<1>16. CASE Commit
  BY <1>16, ServerAssumption DEF Commit, Now, PublishedAt, ServerTypeOK, UpdateTypeOK, Times,
      Catalogues, MetaFiles, history, world
<1>17. CASE Restore
  BY <1>17, ServerAssumption DEF Restore, local, history, world
<1>18. CASE Rename
  BY <1>18, ServerAssumption DEF Rename, local, history, world
<1>19. CASE UnlinkTemp
  BY <1>19, ServerAssumption DEF UnlinkTemp, local, history, world
<1>20. CASE Disarm
  BY <1>20, ServerAssumption DEF Disarm, Gone, LeftBehind, ServerTypeOK, PublishedAt, UpdateTypeOK, disk,
      history, world
<1>21. CASE Stamp
  BY <1>21, ServerAssumption DEF Stamp, Now, PublishedAt, ServerTypeOK, UpdateTypeOK, Times,
      Catalogues, MetaFiles, local, history, world
<1>22. CASE StampMeta
  BY <1>22, ServerAssumption DEF StampMeta, Gone, MetaBlemish, Now, PublishedAt, ServerTypeOK,
      UpdateTypeOK, Times, Catalogues, MetaFiles, world
<1>23. CASE Interrupt
  BY <1>23, ServerAssumption DEF Interrupt, Gone, LeftBehind, ServerTypeOK, PublishedAt, UpdateTypeOK, world
<1>24. CASE Kill
  BY <1>24, ServerAssumption DEF Kill, Gone, ServerTypeOK, PublishedAt, UpdateTypeOK, disk, world
<1> QED  BY <1>1, <1>2, <1>3, <1>4, <1>5, <1>6, <1>7, <1>8, <1>9, <1>10, <1>11, <1>12, <1>13, <1>14,
          <1>15, <1>16, <1>17, <1>18, <1>19, <1>20, <1>21, <1>22, <1>23, <1>24 DEF UpdateMove,
          UpdateStep, UpdateFault

\* A step of the update keeps the whole invariant: the parts together.
LEMMA UpdateInvMove ==
  ASSUME UpdateInv, UpdateMove
  PROVE  UpdateInv'
<1>1. UNCHANGED world
  BY DEF UpdateMove, UpdateStep, UpdateFault, Start, MetaKept, MetaTruncated, MetaWritten,
      MetaRejected,
         SiteNotNewer, SiteFails, SiteFetched, Move, Arm, Create, Schema, Open, OpenFails, DbFails, GiveUp,
         Commit, Restore, Rename, UnlinkTemp, Disarm, Stamp, StampMeta, Interrupt, Kill
<1>2. ServerTypeOK'
  BY <1>1 DEF UpdateInv, ServerTypeOK, world
<1>3. UpdateTypeOK'
  BY TypeStep DEF UpdateInv
<1>4. Control' /\ Cleaned' /\ Built'
  BY ControlStep, CleanedStep, BuiltStep DEF UpdateInv
<1>5. Kept' /\ Timed' /\ Ages'
  BY KeptStep, TimedStep, AgesStep DEF UpdateInv
<1> QED  BY <1>2, <1>3, <1>4, <1>5 DEF UpdateInv

-----------------------------------------------------------------------------
(* The other steps, and the first state.                                   *)

\* At the start there is no catalogue, and one publication on the site.
LEMMA InitUpdateInv ==
  ASSUME ServerInit, UpdateInit
  PROVE  UpdateInv
<1>1. ServerTypeOK
  <2>1. 1 \in 1 .. MaxPub /\ 0 \in 0 .. MaxStorms
    BY ServerAssumption
  <2> QED  BY <2>1 DEF ServerInit, ServerTypeOK
<1>2. UpdateTypeOK
  <2>1. 0 \in Times /\ 0 \in 0 .. MaxPub
    BY ServerAssumption DEF Times
  <2> QED  BY <2>1 DEF UpdateInit, UpdateTypeOK
<1>3. Control /\ Cleaned /\ Built /\ Kept /\ Timed
  BY DEF UpdateInit, Control, Cleaned, Built, Kept, Timed, InStep, OpensAs, Opens, Asking, Building,
         Ending
<1>4. Ages
  BY <1>1, ServerAssumption DEF ServerInit, UpdateInit, Ages, Building, ServerTypeOK, PublishedAt
<1> QED  BY <1>1, <1>2, <1>3, <1>4 DEF UpdateInv

\* Publishing and mirroring leave the update alone, and the site stays ahead.
LEMMA WorldStep ==
  ASSUME UpdateInv, World, UNCHANGED updateVars
  PROVE  UpdateInv'
<1> USE DEF UpdateInv
<1>1. ServerTypeOK' /\ served[Origin] <= served'[Origin] /\ \A m \in Mirrors : served'[m] <= served'[Origin]
  <2> USE ServerAssumption DEF ServerTypeOK, Ages
  <2>1. CASE Publish
    BY <2>1 DEF Publish
  <2>2. ASSUME NEW m \in Mirrors, Sync(m)
        PROVE  ServerTypeOK' /\ served[Origin] <= served'[Origin] /\ \A n \in Mirrors : served'[n] <= served'[Origin]
    BY <2>2 DEF Sync
  <2>3. CASE Brew
    BY <2>3 DEF Brew
  <2>4. CASE Pass
    BY <2>4 DEF Pass
  <2> QED  BY <2>1, <2>2, <2>3, <2>4 DEF World, Serve
<1>2. UpdateTypeOK' /\ Control' /\ Cleaned' /\ Built' /\ Kept' /\ Timed'
  BY DEF updateVars, UpdateTypeOK, Control, Cleaned, Built, Kept, Timed, InStep, OpensAs,
         Opens, Misled
<1>3. Ages'
  <2>1. newest <= served'[Origin] /\ fetched <= served'[Origin]
    BY <1>1, ServerAssumption DEF ServerTypeOK, UpdateTypeOK, Ages
  <2> QED  BY <1>1, <2>1 DEF updateVars, Ages
<1> QED  BY <1>1, <1>2, <1>3

\* The invariant is about the world and the update only.
LEMMA Unchanged ==
  ASSUME UpdateInv, UNCHANGED <<world, updateVars>>
  PROVE  UpdateInv'
<1>1. ServerTypeOK' /\ UpdateTypeOK' /\ Control' /\ Cleaned'
  BY DEF UpdateInv, world, updateVars, ServerTypeOK, UpdateTypeOK, Control, Cleaned
<1>2. Built' /\ Kept' /\ Timed' /\ Ages'
  BY DEF UpdateInv, world, updateVars, Built, Kept, Timed, InStep, OpensAs, Opens, Misled, Ages
<1> QED  BY <1>1, <1>2 DEF UpdateInv

\* Fetching packages publishes nothing.
LEMMA FetchKeepsWorld ==
  ASSUME (\E w \in Requests : Install(w)) \/ FetchStep \/ FetchFault
  PROVE  UNCHANGED world
BY DEF Install, Begin, FetchStep, FetchFault, Measure, AllFetched, Finish, Take, Stat, Connect,
       ConnectFails, Transfer, Transferred, CheckSize, CheckSum, Failed, Unavailable, TransferFails, Stopped

\* A step of the machine is one of the update, of the world, or neither.
LEMMA ClientSteps ==
  ASSUME [ClientNext]_clientVars
  PROVE  \/ UpdateMove
         \/ World /\ UNCHANGED updateVars
         \/ UNCHANGED <<world, updateVars>>
BY FetchKeepsWorld DEF ClientNext, clientVars, Update, UpdateMove

\* Every step of the machine keeps the invariant.
LEMMA UpdateInvStep ==
  ASSUME UpdateInv, [ClientNext]_clientVars
  PROVE  UpdateInv'
BY ClientSteps, UpdateInvMove, WorldStep, Unchanged

\* The files of the catalogue and the local variables of pkg_repo_binary_update go
\* together as the invariant says, whatever is published, mirrored, lost or killed.
THEOREM UpdateInvariant == Spec => []UpdateInv
<1>1. ClientInit => UpdateInv
  BY InitUpdateInv DEF ClientInit
<1>2. UpdateInv /\ [ClientNext]_clientVars => UpdateInv'
  BY UpdateInvStep
<1> QED  BY <1>1, <1>2, PTL DEF Spec

-----------------------------------------------------------------------------
(* The theorems.                                                           *)

\* What is reported to be up to date is, unless the times on disk mislead: an update was
\* killed, failed with .meta written, or took packagesite from a host behind the site.
THEOREM UpToDate == Spec => []UpToDateIsTrue
<1>1. UpdateInv => UpToDateIsTrue
  BY DEF UpdateInv, UpToDateIsTrue, Timed
<1> QED  BY <1>1, UpdateInvariant, PTL

\* An update that fails after it has moved the catalogue leaves the one it found.
THEOREM FailedUpdateRestores == Spec => Restored
<1> DEFINE Back ==
      /\ upc # "idle" /\ upc # "stampMeta" /\ upc' = "idle"
      /\ moved /\ blemish' \cap {"killed", "late"} = {}
      => cat' = found
<1>1. ASSUME UpdateInv, UpdateMove
      PROVE  Back
  <2> SUFFICES ASSUME upc # "idle", upc # "stampMeta", upc' = "idle", moved,
                      blemish' \cap {"killed", "late"} = {}
               PROVE  cat' = found
    OBVIOUS
  <2>1. Disarm \/ Interrupt \/ Kill
    BY <1>1 DEF UpdateMove, UpdateStep, UpdateFault, Start, MetaKept, MetaTruncated, MetaWritten,
        MetaRejected,
         SiteNotNewer, SiteFails, SiteFetched, Move, Arm, Create, Schema, Open, OpenFails, DbFails, GiveUp,
         Commit, Restore, Rename, UnlinkTemp, Stamp, StampMeta
  <2>2. CASE Disarm
    BY <1>1, <2>2 DEF UpdateInv, UpdateTypeOK, Control, Kept, Disarm, Gone, disk, history, Asking,
        Building
  <2>3. CASE Interrupt
    <3>1. temp = None => cat = None
      BY <2>3 DEF Interrupt
    <3> QED  BY <1>1, <2>3, <3>1 DEF UpdateInv, UpdateTypeOK, Control, Cleaned, Built, Kept,
                  Interrupt, Gone, Asking, Building, Ending
  <2>4. CASE Kill
    BY <2>4 DEF Kill
  <2> QED  BY <2>1, <2>2, <2>3, <2>4
<1>2. ASSUME UNCHANGED upc  PROVE Back
  BY <1>2
<1>3. UpdateInv /\ [ClientNext]_clientVars => [Back]_<<world, updateVars>>
  BY <1>1, <1>2, ClientSteps DEF updateVars
<1> QED  BY <1>3, UpdateInvariant, PTL DEF Spec, Restored

\* The catalogue does not go back, whichever mirror answers.
THEOREM NeverBackToOlder == Spec => NeverBack
<1> DEFINE Ahead == newest' < newest => blemish \cap {"untimed", "stale"} # {}
<1>1. ASSUME UpdateInv, UpdateMove
      PROVE  Ahead
  <2>1. CASE StampMeta
    BY <1>1, <2>1 DEF UpdateInv, UpdateTypeOK, Control, Ages, StampMeta
  <2>2. CASE ~StampMeta
    <3>1. UNCHANGED newest
      BY <1>1, <2>2 DEF UpdateMove, UpdateStep, UpdateFault, Start, MetaKept, MetaTruncated,
          MetaWritten, MetaRejected,
         SiteNotNewer, SiteFails, SiteFetched, Move, Arm, Create, Schema, Open, OpenFails, DbFails, GiveUp,
         Commit, Restore, Rename, UnlinkTemp, Disarm, Stamp, Interrupt, Kill, history
    <3> QED  BY <1>1, <3>1 DEF UpdateInv, UpdateTypeOK
  <2> QED  BY <2>1, <2>2
<1>2. UpdateInv /\ UNCHANGED newest => Ahead
  BY DEF UpdateInv, UpdateTypeOK
<1>3. UpdateInv /\ [ClientNext]_clientVars => [Ahead]_<<world, updateVars>>
  BY <1>1, <1>2, ClientSteps DEF updateVars
<1> QED  BY <1>3, UpdateInvariant, PTL DEF Spec, NeverBack
=============================================================================
