--------------------------- MODULE PkgFetchProofs ---------------------------
(***************************************************************************)
(* What is fetched is what the catalogue lists, what stays in the cache is *)
(* what its name says, and fetching fails for want of an answer only when  *)
(* every mirror of an SRV list, or of an HTTP list of two, has been asked. *)
(* The theorems are about the specification of RepoClient, for any         *)
(* packages, builds, hosts, requests and faults.                           *)
(***************************************************************************)
EXTENDS RepoUpdateProofs, FiniteSetTheorems

-----------------------------------------------------------------------------
(* The inductive invariant.                                                *)

\* Where a package is being fetched, and where its file may be anything.
Trying == {"stat", "connect", "transfer", "size", "checksum", "failed"}
Partial == {"connect", "transfer", "size", "checksum", "failed"}

\* A session has a request and a catalogue, and is about one of its packages.
Session ==
  /\ fpc # "idle" => wanted \in Requests /\ listed \in 1 .. MaxPub
  /\ fpc \in Trying => cur \in todo
  /\ fpc \in {"idle", "measure", "ready"} => todo = {}
  /\ skipped => fpc = "ready"

\* The file that is written to has been opened.
Opened == fpc \in {"connect", "transfer"} => File(cur) # NoFile

\* What is no longer to be fetched is there.
Fetched ==
  fpc \notin {"idle", "measure"} /\ ~skipped =>
    \A p \in wanted \ todo : Whole(p, Wanted(p), File(p))

\* The places of the list that are asked, one for each retry: all of an SRV list in
\* their order, and over again; the first and then the second of an HTTP list.
Places(l, n, i, s) ==
  CASE l.type = "SRV" ->
         \/ s = DOMAIN l.hosts
         \/ s = 1 .. n /\ i = n + 1
    [] l.type = "HTTP" ->
         IF n = 0 THEN i = 1 /\ s = {}
         ELSE /\ i = IF Len(l.hosts) > 1 THEN 2 ELSE 1
              /\ s = IF n = 1 THEN {1} ELSE {1, i}
    [] l.type = "NONE" -> i = 1 /\ s \subseteq {1}

Asked ==
  /\ fpc # "failed" => why = "none"
  /\ fpc \in {"idle", "measure", "next", "stat", "size", "checksum", "ready"} =>
       at = 1 /\ asked = {}
  /\ fpc = "connect" /\ MaxRetry > 0 => retry > 0 /\ Places(list, MaxRetry - retry, at, asked)

FetchInv ==
  /\ FetchTypeOK /\ Session /\ Opened
  /\ CacheSound /\ Fetched /\ Asked
  /\ MirrorsTried /\ UsedAsListed

-----------------------------------------------------------------------------
(* Files.                                                                  *)

\* What the catalogue says of a package, and what the cache has of it.
LEMMA Files ==
  ASSUME FetchTypeOK, listed \in 1 .. MaxPub, NEW p \in Pkgs
  PROVE  /\ Wanted(p) \in Builds /\ Size[p][Wanted(p)] \in Nat \ {0}
         /\ File(p) \in Seq(Builds) \cup {NoFile} /\ Length(File(p)) \in Nat
<1>1. Wanted(p) \in Builds
  <2>1. BuildOf[p] \in [1 .. MaxPub -> Builds]
    BY FetchAssumption
  <2> QED  BY <2>1 DEF Wanted
<1>2. Size[p][Wanted(p)] \in Nat \ {0}
  BY <1>1, FetchAssumption
<1>3. File(p) \in Seq(Builds) \cup {NoFile}
  BY <1>1 DEF FetchTypeOK, File
<1>4. Length(File(p)) \in Nat
  BY <1>3 DEF Length
<1> QED  BY <1>1, <1>2, <1>3, <1>4

\* Writing the file of one package leaves all others.
LEMMA OtherFiles ==
  ASSUME FetchTypeOK, listed \in 1 .. MaxPub, NEW p \in Pkgs, NEW f \in Seq(Builds) \cup {NoFile},
         cache' = WithFile(p, f)
  PROVE  /\ cache' \in [Pkgs -> [Builds -> Seq(Builds) \cup {NoFile}]]
         /\ cache'[p][Wanted(p)] = f
         /\ \A q \in Pkgs, b \in Builds : q # p \/ b # Wanted(p) => cache'[q][b] = cache[q][b]
<1>1. Wanted(p) \in Builds
  BY Files
<1> QED  BY <1>1 DEF FetchTypeOK, WithFile

\* The package that a session is at.
LEMMA Current ==
  ASSUME FetchTypeOK, Session, fpc \in Trying
  PROVE  /\ cur \in Pkgs /\ listed \in 1 .. MaxPub /\ Wanted(cur) \in Builds
         /\ Size[cur][Wanted(cur)] \in Nat \ {0}
         /\ File(cur) \in Seq(Builds) \cup {NoFile} /\ Length(File(cur)) \in Nat
<1>1. cur \in Pkgs /\ listed \in 1 .. MaxPub
  BY DEF FetchTypeOK, Session, Trying
<1> QED  BY <1>1, Files

\* The defaults are of their types.
LEMMA Defaults == NoList \in Lists /\ NoPkg \in Pkgs /\ NoBuild \in Builds /\ 0 \in 0 .. MaxRetry
<1>1. NoList \in Lists
  BY FetchAssumption DEF NoList
<1>2. NoPkg \in Pkgs
  BY FetchAssumption DEF NoPkg
<1>3. NoBuild \in Builds
  BY FetchAssumption DEF NoBuild
<1>4. 0 \in 0 .. MaxRetry
  BY FetchAssumption
<1> QED  BY <1>1, <1>2, <1>3, <1>4

\* The hosts that there are.
LEMMA Hosts ==
  ASSUME FetchTypeOK
  PROVE  /\ list.hosts \in Seq(Mirrors) /\ Len(list.hosts) \in Nat \ {0}
         /\ DOMAIN list.hosts = 1 .. Len(list.hosts)
         /\ list.type \in {"NONE", "HTTP", "SRV"}
BY FetchAssumption DEF FetchTypeOK

\* What the catalogue of an update lists is a publication.
LEMMA ListedType ==
  ASSUME UpdateTypeOK
  PROVE  Listed \in 0 .. MaxPub
BY ServerAssumption DEF UpdateTypeOK, Listed, Opens, OpensAs, Catalogues

\* The command is over: the variables have their first values, and those are of their types.
LEMMA OverType ==
  ASSUME Over
  PROVE  /\ fpc' = "idle" /\ list' \in Lists /\ wanted' \subseteq Pkgs /\ listed' \in 0 .. MaxPub
         /\ todo' \subseteq wanted' /\ cur' \in Pkgs /\ tried' = FALSE /\ new' = FALSE
         /\ at' \in DOMAIN list'.hosts /\ retry' \in 0 .. MaxRetry /\ source' \in Builds
         /\ asked' = {} /\ why' = "none" /\ skipped' = FALSE
<1>1. NoList \in Lists /\ NoPkg \in Pkgs /\ NoBuild \in Builds
  BY Defaults
<1>2. 1 \in DOMAIN NoList.hosts
  BY <1>1, FetchAssumption
<1> QED  BY <1>1, <1>2, FetchAssumption, ServerAssumption DEF Over, NoHost

-----------------------------------------------------------------------------
(* Sums.                                                                   *)

\* A set of numbers that has 0, and the next number of each it has, has them all.
LEMMA SetInduction ==
  ASSUME NEW S \in SUBSET Nat, 0 \in S, \A n \in S : n + 1 \in S
  PROVE  S = Nat
<1> DEFINE R == OpToRel(<, Nat)
<1> SUFFICES ASSUME Nat \ S # {}  PROVE FALSE
  OBVIOUS
<1>1. PICK m \in Nat \ S : \A k \in Nat \ S : ~(<<k, m>> \in R)
  <2>1. IsWellFoundedOn(R, Nat)
    BY NatLessThanWellFounded
  <2> HIDE DEF R
  <2> QED  BY <2>1, WFMin
<1>2. m # 0 /\ m - 1 \in Nat
  OBVIOUS
<1>3. <<m - 1, m>> \in R
  BY <1>2 DEF OpToRel
<1>4. m - 1 \in S
  BY <1>1, <1>2, <1>3
<1>5. (m - 1) + 1 \in S
  BY <1>4
<1> QED  BY <1>5, <1>2

\* The element of a set that a sum takes next, and the sums of the subsets of S.
First(s) == CHOOSE x \in s : TRUE
Sums(it, g, S) == it = [s \in S |-> IF s = {} THEN 0 ELSE g[First(s)] + it[s \ {First(s)}]]
Small(S, n) == {s \in SUBSET S : Cardinality(s) <= n}

LEMMA FirstOf ==
  ASSUME NEW S, IsFiniteSet(S), NEW s \in SUBSET S, s # {}
  PROVE  /\ First(s) \in s /\ IsFiniteSet(s) /\ Cardinality(s) \in Nat \ {0}
         /\ s \ {First(s)} \in SUBSET S /\ Cardinality(s \ {First(s)}) = Cardinality(s) - 1
<1>1. First(s) \in s
  BY DEF First
<1>2. IsFiniteSet(s) /\ Cardinality(s) \in Nat
  BY FS_Subset, FS_CardinalityType
<1>3. Cardinality(s) # 0
  BY <1>2, FS_EmptySet
<1>4. Cardinality(s \ {First(s)}) = Cardinality(s) - 1
  BY <1>1, <1>2, FS_RemoveElement
<1> QED  BY <1>1, <1>2, <1>3, <1>4

\* The subsets of a finite set have sums.
LEMMA SumsExist ==
  ASSUME NEW S, IsFiniteSet(S), NEW g
  PROVE  \E it : Sums(it, g, SUBSET S)
<1> DEFINE Good == {n \in Nat : \E it : Sums(it, g, Small(S, n))}
<1>1. 0 \in Good
  <2> DEFINE z == [s \in Small(S, 0) |-> 0]
  <2>1. \A s \in Small(S, 0) : s = {}
    BY FS_Subset, FS_EmptySet, FS_CardinalityType DEF Small
  <2>2. Sums(z, g, Small(S, 0))
    BY <2>1 DEF Sums
  <2> QED  BY <2>2
<1>2. ASSUME NEW n \in Good
      PROVE  n + 1 \in Good
  <2>1. PICK it : Sums(it, g, Small(S, n))
    OBVIOUS
  <2> DEFINE next == [s \in Small(S, n + 1) |->
                        IF s = {} THEN 0 ELSE g[First(s)] + it[s \ {First(s)}]]
  <2>2. \A s \in Small(S, n) : s \in Small(S, n + 1) /\ next[s] = it[s]
    <3>1. \A s \in Small(S, n) : s \in Small(S, n + 1)
      BY FS_Subset, FS_CardinalityType DEF Small
    <3> QED  BY <2>1, <3>1 DEF Sums
  <2>3. \A s \in Small(S, n + 1) : s # {} => s \ {First(s)} \in Small(S, n)
    BY FirstOf DEF Small
  <2>4. Sums(next, g, Small(S, n + 1))
    BY <2>2, <2>3 DEF Sums
  <2> QED  BY <2>4
<1>3. Good = Nat
  <2> HIDE DEF Good
  <2>1. Good \in SUBSET Nat
    BY DEF Good
  <2> QED  BY <1>1, <1>2, <2>1, SetInduction
<1>4. Small(S, Cardinality(S)) = SUBSET S
  <2>1. \A s \in SUBSET S : Cardinality(s) <= Cardinality(S)
    BY FS_Subset
  <2> QED  BY <2>1 DEF Small
<1>5. Cardinality(S) \in Good
  <2> HIDE DEF Good
  <2> QED  BY <1>3, FS_CardinalityType
<1> QED  BY <1>4, <1>5

\* A sum of naturals is 0 only when all of them are.
LEMMA NoSum ==
  ASSUME NEW S, IsFiniteSet(S), NEW g, \A x \in S : g[x] \in Nat,
         NEW it, Sums(it, g, SUBSET S), it[S] = 0
  PROVE  \A x \in S : g[x] = 0
<1> DEFINE P(s) == it[s] \in Nat /\ (it[s] = 0 => \A x \in s : g[x] = 0)
<1> DEFINE Good == {n \in Nat : \A s \in SUBSET S : Cardinality(s) = n => P(s)}
<1>1. 0 \in Good
  <2>1. ASSUME NEW s \in SUBSET S, Cardinality(s) = 0
        PROVE  s = {}
    BY <2>1, FirstOf
  <2>2. it[{}] = 0
    BY DEF Sums
  <2> QED  BY <2>1, <2>2
<1>2. ASSUME NEW n \in Good
      PROVE  n + 1 \in Good
  <2>1. ASSUME NEW s \in SUBSET S, Cardinality(s) = n + 1
        PROVE  P(s)
    <3> DEFINE r == s \ {First(s)}
    <3>1. s # {}
      <4>1. n \in Nat /\ n + 1 # 0
        OBVIOUS
      <4>2. Cardinality({}) = 0
        BY FS_EmptySet
      <4> QED  BY <2>1, <4>1, <4>2
    <3>2. First(s) \in s /\ r \in SUBSET S /\ Cardinality(r) = n
      BY <2>1, <3>1, FirstOf
    <3>3. P(r)
      BY <3>2
    <3>4. it[s] = g[First(s)] + it[r] /\ g[First(s)] \in Nat
      BY <3>1, <3>2 DEF Sums
    <3> QED  BY <3>2, <3>3, <3>4
  <2> QED  BY <2>1
<1>3. Good = Nat
  <2> HIDE DEF Good
  <2>1. Good \in SUBSET Nat
    BY DEF Good
  <2> QED  BY <1>1, <1>2, <2>1, SetInduction
<1> QED  BY <1>3, FS_CardinalityType

-----------------------------------------------------------------------------
(* The steps of a session keep the parts of the invariant.                 *)

\* A step of a session.
FetchMove == (\E w \in Requests : Install(w)) \/ FetchStep \/ FetchFault

\* A session keeps its request until it is over.
LEMMA SessionStep ==
  ASSUME FetchTypeOK, UpdateTypeOK, Session, FetchMove
  PROVE  Session'
<1> USE DEF Session, Trying, session, host
<1>1. ASSUME NEW w \in Requests, Install(w)
      PROVE  Session'
  <2>1. listed' = Listed /\ Listed > 0 /\ wanted' = w /\ fpc' = "measure" /\ fpc = "idle"
    BY <1>1 DEF Install, Begin, AtRest
  <2>2. Listed \in 1 .. MaxPub
    BY <2>1, ListedType, ServerAssumption
  <2>3. UNCHANGED <<todo, skipped>>
    BY <1>1 DEF Install, Begin
  <2> QED  BY <2>1, <2>2, <2>3
<1>2. CASE Measure
  BY <1>2 DEF Measure
<1>3. CASE AllFetched
  BY <1>3 DEF AllFetched
<1>4. CASE Finish
  BY <1>4 DEF Finish, Over, NoHost
<1>5. ASSUME NEW p \in Pkgs, Take(p)
      PROVE  Session'
  BY <1>5 DEF Take
<1>6. CASE Stat
  BY <1>6 DEF Stat
<1>7. CASE Connect
  BY <1>7 DEF Connect
<1>8. CASE ConnectFails
  BY <1>8 DEF ConnectFails
<1>9. CASE Transfer
  BY <1>9 DEF Transfer
<1>10. CASE Transferred
  BY <1>10 DEF Transferred, NoHost
<1>11. CASE CheckSize
  BY <1>11 DEF CheckSize, Again, Mismatch
<1>12. CASE CheckSum
  BY <1>12 DEF CheckSum, Again, Mismatch
<1>13. CASE Failed
  BY <1>13 DEF Failed, Over, NoHost
<1>14. CASE Unavailable
  BY <1>14 DEF Unavailable
<1>15. CASE TransferFails
  BY <1>15 DEF TransferFails
<1>16. CASE Stopped
  BY <1>16 DEF Stopped, Over, NoHost
<1> QED  BY <1>1, <1>2, <1>3, <1>4, <1>5, <1>6, <1>7, <1>8, <1>9, <1>10, <1>11, <1>12, <1>13, <1>14,
   <1>15, <1>16 DEF FetchMove, FetchStep, FetchFault

\* The variables keep their types.
LEMMA FetchTypeStep ==
  ASSUME ServerTypeOK, UpdateTypeOK, FetchTypeOK, Session, Opened, Asked, FetchMove
  PROVE  FetchTypeOK'
<1> USE DEF FetchTypeOK, Session, Trying, session, host
<1>1. ASSUME NEW w \in Requests, Install(w)
      PROVE  FetchTypeOK'
  <2>1. \A l \in Lists : 1 \in DOMAIN l.hosts
    BY FetchAssumption
  <2>2. PICK l \in Lists : Begin(w, Listed, l)
    BY <1>1 DEF Install
  <2>3. at' \in DOMAIN list'.hosts /\ asked' \subseteq DOMAIN list'.hosts
    BY <1>1, <2>1, <2>2 DEF Install, Begin, Asked, AtRest
  <2>4. wanted' \subseteq Pkgs /\ listed' \in 0 .. MaxPub
    BY <1>1, <2>2, ListedType, ClientAssumption DEF Begin
  <2>5. todo' \subseteq wanted'
    BY <1>1, <2>2 DEF Install, Begin, AtRest
  <2> QED  BY <2>2, <2>3, <2>4, <2>5 DEF Begin
<1>2. CASE Measure
  BY <1>2 DEF Measure
<1>3. CASE AllFetched
  BY <1>3 DEF AllFetched
<1>4. CASE Finish
  BY <1>4, OverType DEF Finish
<1>5. ASSUME NEW p \in Pkgs, Take(p)
      PROVE  FetchTypeOK'
  BY <1>5 DEF Take
<1>6. CASE Stat
  <2>1. CASE Length(File(cur)) >= Size[cur][Wanted(cur)]
    BY <1>6, <2>1 DEF Stat
  <2>2. CASE ~(Length(File(cur)) >= Size[cur][Wanted(cur)])
    <3>1. (IF File(cur) = NoFile THEN <<>> ELSE File(cur)) \in Seq(Builds) \cup {NoFile}
      BY <1>6, Current DEF Stat
    <3>2. cache' \in [Pkgs -> [Builds -> Seq(Builds) \cup {NoFile}]]
      BY <1>6, <2>2, <3>1, Current, OtherFiles DEF Stat
    <3>3. MaxRetry \in 0 .. MaxRetry
      BY FetchAssumption
    <3> QED  BY <1>6, <2>2, <3>2, <3>3 DEF Stat
  <2> QED  BY <2>1, <2>2
<1>7. CASE Connect
  <2>1. Sent(list.hosts[at]) \in Builds
    <3>1. cur \in Pkgs /\ list.hosts[at] \in Mirrors
      BY <1>7, Current, Hosts DEF Connect
    <3>2. served[list.hosts[at]] \in 1 .. MaxPub
      BY <3>1 DEF ServerTypeOK
    <3>3. BuildOf[cur] \in [1 .. MaxPub -> Builds]
      BY <3>1, FetchAssumption
    <3> QED  BY <3>2, <3>3 DEF Sent
  <2> QED  BY <1>7, <2>1 DEF Connect
<1>8. CASE ConnectFails
  <2>1. NextHost \in DOMAIN list.hosts
    BY Hosts DEF NextHost
  <2>2. ~(retry <= 1) => retry - 1 \in 0 .. MaxRetry
    BY FetchAssumption
  <2>3. at' \in DOMAIN list'.hosts /\ retry' \in 0 .. MaxRetry /\ asked' \subseteq DOMAIN list'.hosts
    BY <1>8, <2>1, <2>2 DEF ConnectFails
  <2> QED  BY <1>8, <2>3 DEF ConnectFails
<1>9. CASE Transfer
  <2>1. Append(File(cur), source) \in Seq(Builds)
    <3>1. File(cur) \in Seq(Builds) \cup {NoFile} /\ Length(File(cur)) \in Nat
      BY <1>9, Current DEF Transfer
    <3>2. Len(File(cur)) < Size[cur][source]
      BY <1>9 DEF Transfer
    <3>3. File(cur) # NoFile
      BY <1>9 DEF Transfer, Opened
    <3> QED  BY <3>1, <3>3
  <2>2. cache' \in [Pkgs -> [Builds -> Seq(Builds) \cup {NoFile}]]
    BY <1>9, <2>1, Current, OtherFiles DEF Transfer
  <2> QED  BY <1>9, <2>2 DEF Transfer
<1>10. CASE Transferred
  <2>1. 1 \in DOMAIN list.hosts /\ NoBuild \in Builds /\ 0 \in 0 .. MaxRetry
    BY Hosts, Defaults
  <2> QED  BY <1>10, <2>1 DEF Transferred, NoHost
<1>11. CASE CheckSize
  <2>1. CASE Again
    BY <1>11, <2>1, Current, OtherFiles DEF CheckSize, Again
  <2>2. CASE UNCHANGED cache
    BY <1>11, <2>2 DEF CheckSize, Again, Mismatch
  <2> QED  BY <1>11, <2>1, <2>2 DEF CheckSize, Mismatch
<1>12. CASE CheckSum
  <2>1. NoPkg \in Pkgs
    BY FetchAssumption DEF NoPkg
  <2>2. CASE Again
    BY <1>12, <2>2, Current, OtherFiles DEF CheckSum, Again
  <2>3. CASE UNCHANGED cache
    BY <1>12, <2>1, <2>3 DEF CheckSum, Again, Mismatch
  <2> QED  BY <1>12, <2>2, <2>3 DEF CheckSum, Mismatch
<1>13. CASE Failed
  <2>1. cache' \in [Pkgs -> [Builds -> Seq(Builds) \cup {NoFile}]]
    BY <1>13, Current, OtherFiles DEF Failed
  <2> QED  BY <1>13, <2>1, OverType DEF Failed
<1>14. CASE Unavailable
  BY <1>14 DEF Unavailable
<1>15. CASE TransferFails
  BY <1>15 DEF TransferFails
<1>16. CASE Stopped
  <2>1. suspect' \subseteq Pkgs \X Builds
    <3>1. fpc \in Partial => cur \in Pkgs /\ Wanted(cur) \in Builds
      BY Current DEF Partial
    <3> QED  BY <1>16, <3>1 DEF Stopped, Partial
  <2> QED  BY <1>16, <2>1, OverType DEF Stopped
<1> QED  BY <1>1, <1>2, <1>3, <1>4, <1>5, <1>6, <1>7, <1>8, <1>9, <1>10, <1>11, <1>12, <1>13, <1>14,
   <1>15, <1>16 DEF FetchMove, FetchStep, FetchFault

\* A file that is written to is there.
LEMMA OpenedStep ==
  ASSUME FetchTypeOK, Session, Opened, FetchMove
  PROVE  Opened'
<1> USE DEF Opened, Trying, session, host
<1>1. ASSUME NEW w \in Requests, Install(w)
      PROVE  Opened'
  BY <1>1 DEF Install, Begin, session, host
<1>2. CASE Measure
  BY <1>2 DEF Measure
<1>3. CASE AllFetched
  BY <1>3 DEF AllFetched
<1>4. CASE Finish
  BY <1>4 DEF Finish, Over, NoHost
<1>5. ASSUME NEW p \in Pkgs, Take(p)
      PROVE  Opened'
  BY <1>5 DEF Take
<1>6. CASE Stat
  <2>1. UNCHANGED <<cur, listed>>
    BY <1>6 DEF Stat
  <2>2. CASE Length(File(cur)) >= Size[cur][Wanted(cur)]
    BY <1>6, <2>2 DEF Stat
  <2>3. CASE ~(Length(File(cur)) >= Size[cur][Wanted(cur)])
    <3> DEFINE g == IF File(cur) = NoFile THEN <<>> ELSE File(cur)
    <3>1. cur \in Pkgs /\ listed \in 1 .. MaxPub /\ File(cur) \in Seq(Builds) \cup {NoFile}
      BY <1>6, Current DEF Stat
    <3>2. <<>> \in Seq(Builds) /\ <<>> # NoFile
      <4>1. NoFile \notin Seq(Builds)
        BY FetchAssumption
      <4>2. <<>> \in Seq(Builds)
        OBVIOUS
      <4> QED  BY <4>1, <4>2
    <3>3. g \in Seq(Builds) \cup {NoFile} /\ g # NoFile
      BY <3>1, <3>2
    <3>4. cache' = WithFile(cur, g)
      BY <1>6, <2>3 DEF Stat
    <3> HIDE DEF g
    <3>5. cache'[cur][Wanted(cur)] = g
      BY <3>1, <3>3, <3>4, OtherFiles
    <3>6. File(cur)' = cache'[cur][Wanted(cur)]
      BY <2>1 DEF File, Wanted
    <3> QED  BY <3>3, <3>5, <3>6
  <2> QED  BY <2>2, <2>3
<1>7. CASE Connect
  BY <1>7 DEF Connect, File, Wanted
<1>8. CASE ConnectFails
  BY <1>8 DEF ConnectFails, File, Wanted
<1>9. CASE Transfer
  <2>1. UNCHANGED <<cur, listed>>
    BY <1>9 DEF Transfer
  <2> DEFINE g == Append(File(cur), source)
  <2>2. g \in Seq(Builds) /\ cur \in Pkgs /\ listed \in 1 .. MaxPub
    BY <1>9, Current DEF Transfer, Opened, FetchTypeOK
  <2>3. cache' = WithFile(cur, g)
    BY <1>9 DEF Transfer
  <2> HIDE DEF g
  <2>4. cache'[cur][Wanted(cur)] = g
    BY <2>2, <2>3, OtherFiles
  <2>5. File(cur)' = cache'[cur][Wanted(cur)]
    BY <2>1 DEF File, Wanted
  <2> QED  BY <2>2, <2>4, <2>5, FetchAssumption
<1>10. CASE Transferred
  BY <1>10 DEF Transferred, NoHost
<1>11. CASE CheckSize
  BY <1>11 DEF CheckSize, Again, Mismatch
<1>12. CASE CheckSum
  BY <1>12 DEF CheckSum, Again, Mismatch
<1>13. CASE Failed
  BY <1>13 DEF Failed, Over, NoHost
<1>14. CASE Unavailable
  BY <1>14 DEF Unavailable
<1>15. CASE TransferFails
  BY <1>15 DEF TransferFails
<1>16. CASE Stopped
  BY <1>16 DEF Stopped, Over, NoHost
<1> QED  BY <1>1, <1>2, <1>3, <1>4, <1>5, <1>6, <1>7, <1>8, <1>9, <1>10, <1>11, <1>12, <1>13, <1>14,
   <1>15, <1>16 DEF FetchMove, FetchStep, FetchFault

\* The cache stays as it is; the file that was being fetched is still, or is whole, or
\* is left suspect.
LEMMA CacheKept ==
  ASSUME CacheSound, UNCHANGED cache, suspect \ {<<cur, Wanted(cur)>>} \subseteq suspect',
         \/ fpc \notin Partial /\ suspect \subseteq suspect'
         \/ UNCHANGED <<cur, listed>> /\ fpc' \in Partial
         \/ <<cur, Wanted(cur)>> \in suspect'
         \/ Whole(cur, Wanted(cur), File(cur))
  PROVE  CacheSound'
<1> SUFFICES ASSUME NEW p \in Pkgs, NEW b \in Builds
             PROVE  \/ cache'[p][b] = NoFile \/ Whole(p, b, cache'[p][b])
                    \/ <<p, b>> \in suspect'
                    \/ p = cur' /\ fpc' \in Partial /\ b = Wanted(p)'
  BY DEF CacheSound, Partial, Whole
<1>1. \/ cache[p][b] = NoFile \/ Whole(p, b, cache[p][b])
      \/ <<p, b>> \in suspect
      \/ p = cur /\ fpc \in Partial /\ b = Wanted(p)
  BY DEF CacheSound, Partial
<1>2. CASE p # cur \/ b # Wanted(cur)
  BY <1>1, <1>2
<1>3. CASE p = cur /\ b = Wanted(cur)
  BY <1>1, <1>3 DEF Wanted, File
<1> QED  BY <1>2, <1>3

\* One file is written, or removed.
LEMMA CacheChanged ==
  ASSUME FetchTypeOK, CacheSound, cur \in Pkgs, listed \in 1 .. MaxPub,
         NEW g \in Seq(Builds) \cup {NoFile}, cache' = WithFile(cur, g),
         suspect \ {<<cur, Wanted(cur)>>} \subseteq suspect',
         g = NoFile \/ (UNCHANGED <<cur, listed>> /\ fpc' \in Partial)
  PROVE  CacheSound'
<1> SUFFICES ASSUME NEW p \in Pkgs, NEW b \in Builds
             PROVE  \/ cache'[p][b] = NoFile \/ Whole(p, b, cache'[p][b])
                    \/ <<p, b>> \in suspect'
                    \/ p = cur' /\ fpc' \in Partial /\ b = Wanted(p)'
  BY DEF CacheSound, Partial, Whole
<1>1. \/ cache[p][b] = NoFile \/ Whole(p, b, cache[p][b])
      \/ <<p, b>> \in suspect
      \/ p = cur /\ fpc \in Partial /\ b = Wanted(p)
  BY DEF CacheSound, Partial
<1>2. CASE p # cur \/ b # Wanted(cur)
  <2>1. cache'[p][b] = cache[p][b]
    BY <1>2, OtherFiles
  <2> QED  BY <1>1, <1>2, <2>1
<1>3. CASE p = cur /\ b = Wanted(cur)
  <2>1. cache'[p][b] = g
    BY <1>3, OtherFiles
  <2> QED  BY <1>3, <2>1 DEF Wanted
<1> QED  BY <1>2, <1>3

\* What the cache has stays sound.
LEMMA CacheStep ==
  ASSUME FetchTypeOK, Session, Opened, CacheSound, FetchMove
  PROVE  CacheSound'
<1> USE DEF Trying, Partial, session, host
<1>1. ASSUME NEW w \in Requests, Install(w)
      PROVE  CacheSound'
  BY <1>1, CacheKept DEF Install, Begin, session, host
<1>2. CASE Measure
  BY <1>2, CacheKept DEF Measure
<1>3. CASE AllFetched
  BY <1>3, CacheKept DEF AllFetched
<1>4. CASE Finish
  BY <1>4, CacheKept DEF Finish, Over, NoHost
<1>5. ASSUME NEW p \in Pkgs, Take(p)
      PROVE  CacheSound'
  BY <1>5, CacheKept DEF Take
<1>6. CASE Stat
  <2>1. CASE Length(File(cur)) >= Size[cur][Wanted(cur)]
    BY <1>6, <2>1, CacheKept DEF Stat
  <2>2. CASE ~(Length(File(cur)) >= Size[cur][Wanted(cur)])
    <3> DEFINE g == IF File(cur) = NoFile THEN <<>> ELSE File(cur)
    <3>1. g \in Seq(Builds) \cup {NoFile} /\ cur \in Pkgs /\ listed \in 1 .. MaxPub
      BY <1>6, Current DEF Stat
    <3>2. cache' = WithFile(cur, g) /\ UNCHANGED <<cur, listed, suspect>> /\ fpc' = "connect"
      BY <1>6, <2>2 DEF Stat
    <3> HIDE DEF g
    <3> QED  BY <3>1, <3>2, CacheChanged
  <2> QED  BY <2>1, <2>2
<1>7. CASE Connect
  BY <1>7, CacheKept DEF Connect
<1>8. CASE ConnectFails
  BY <1>8, CacheKept DEF ConnectFails
<1>9. CASE Transfer
  <2> DEFINE g == Append(File(cur), source)
  <2>1. g \in Seq(Builds) /\ cur \in Pkgs /\ listed \in 1 .. MaxPub
    BY <1>9, Current DEF Transfer, Opened, FetchTypeOK
  <2>2. cache' = WithFile(cur, g) /\ UNCHANGED <<fpc, cur, listed, suspect>> /\ fpc = "transfer"
    BY <1>9 DEF Transfer
  <2> HIDE DEF g
  <2> QED  BY <2>1, <2>2, CacheChanged
<1>10. CASE Transferred
  BY <1>10, CacheKept DEF Transferred, NoHost
<1>11. CASE CheckSize
  <2>1. CASE Again
    BY <1>11, <2>1, Current, CacheChanged DEF CheckSize, Again
  <2>2. CASE UNCHANGED cache /\ fpc' \in Partial
    BY <1>11, <2>2, CacheKept DEF CheckSize
  <2> QED  BY <1>11, <2>1, <2>2 DEF CheckSize, Mismatch
<1>12. CASE CheckSum
  <2>1. CASE Whole(cur, Wanted(cur), File(cur))
    BY <1>12, <2>1, CacheKept DEF CheckSum
  <2>2. CASE Again /\ UNCHANGED suspect
    BY <1>12, <2>2, Current, CacheChanged DEF CheckSum, Again
  <2>3. CASE Mismatch /\ UNCHANGED <<cur, suspect>>
    BY <1>12, <2>3, CacheKept DEF CheckSum, Mismatch
  <2> QED  BY <1>12, <2>1, <2>2, <2>3 DEF CheckSum
<1>13. CASE Failed
  BY <1>13, Current, CacheChanged DEF Failed
<1>14. CASE Unavailable
  BY <1>14, CacheKept DEF Unavailable
<1>15. CASE TransferFails
  BY <1>15, CacheKept DEF TransferFails
<1>16. CASE Stopped
  BY <1>16, CacheKept DEF Stopped, Over, NoHost
<1> QED  BY <1>1, <1>2, <1>3, <1>4, <1>5, <1>6, <1>7, <1>8, <1>9, <1>10, <1>11, <1>12, <1>13, <1>14,
   <1>15, <1>16 DEF FetchMove, FetchStep, FetchFault

\* What has been fetched is there, while the session goes on with another package.
LEMMA FetchedKept ==
  ASSUME FetchTypeOK, Session, Fetched, fpc \in {"next"} \cup Trying, ~skipped,
         UNCHANGED <<wanted, listed>>, todo \subseteq todo',
         \/ UNCHANGED cache
         \/ fpc \in Trying /\ \E g \in Seq(Builds) \cup {NoFile} : cache' = WithFile(cur, g)
  PROVE  Fetched'
<1> SUFFICES ASSUME NEW p \in wanted \ todo'  PROVE Whole(p, Wanted(p), cache'[p][Wanted(p)])
  BY DEF Fetched, Whole, File, Wanted
<1>1. Whole(p, Wanted(p), cache[p][Wanted(p)])
  BY DEF Fetched, Trying, File
<1>2. CASE UNCHANGED cache
  BY <1>1, <1>2
<1>3. ASSUME NEW g \in Seq(Builds) \cup {NoFile}, fpc \in Trying, cache' = WithFile(cur, g)
      PROVE  Whole(p, Wanted(p), cache'[p][Wanted(p)])
  <2>1. p \in Pkgs /\ p # cur /\ cur \in Pkgs /\ listed \in 1 .. MaxPub
    BY <1>3, Current DEF Session, FetchTypeOK
  <2>2. cache'[p][Wanted(p)] = cache[p][Wanted(p)]
    BY <1>3, <2>1, Files, OtherFiles
  <2> QED  BY <1>1, <2>2
<1> QED  BY <1>2, <1>3

\* What has been fetched stays.
LEMMA FetchedStep ==
  ASSUME FetchTypeOK, Session, Opened, Fetched, FetchMove
  PROVE  Fetched'
<1> USE DEF Session, Trying, session, host
<1>1. ASSUME NEW w \in Requests, Install(w)
      PROVE  Fetched'
  BY <1>1 DEF Install, Begin, Fetched
<1>2. CASE Measure
  <2>1. fpc' # "ready" => todo' = wanted'
    BY <1>2 DEF Measure, session
  <2> QED  BY <1>2, <2>1 DEF Measure, Fetched
<1>3. CASE AllFetched
  BY <1>3, FetchedKept DEF AllFetched
<1>4. CASE Finish
  BY <1>4 DEF Finish, Over, Fetched
<1>5. ASSUME NEW p \in Pkgs, Take(p)
      PROVE  Fetched'
  BY <1>5, FetchedKept DEF Take
<1>6. CASE Stat
  <2>1. CASE UNCHANGED cache
    BY <1>6, <2>1, FetchedKept DEF Stat
  <2>2. CASE ~(Length(File(cur)) >= Size[cur][Wanted(cur)])
    <3> DEFINE g == IF File(cur) = NoFile THEN <<>> ELSE File(cur)
    <3>1. g \in Seq(Builds) \cup {NoFile} /\ cache' = WithFile(cur, g)
      BY <1>6, <2>2, Current DEF Stat
    <3> HIDE DEF g
    <3> QED  BY <1>6, <3>1, FetchedKept DEF Stat
  <2> QED  BY <1>6, <2>1, <2>2 DEF Stat
<1>7. CASE Connect
  BY <1>7, FetchedKept DEF Connect
<1>8. CASE ConnectFails
  BY <1>8, FetchedKept DEF ConnectFails
<1>9. CASE Transfer
  <2> DEFINE g == Append(File(cur), source)
  <2>1. g \in Seq(Builds) /\ cache' = WithFile(cur, g)
    BY <1>9, Current DEF Transfer, Opened, FetchTypeOK
  <2> HIDE DEF g
  <2> QED  BY <1>9, <2>1, FetchedKept DEF Transfer
<1>10. CASE Transferred
  BY <1>10, FetchedKept DEF Transferred, NoHost
<1>11. CASE CheckSize
  <2>1. UNCHANGED cache \/ cache' = WithFile(cur, NoFile)
    BY <1>11 DEF CheckSize, Again, Mismatch
  <2> QED  BY <1>11, <2>1, FetchedKept DEF CheckSize
<1>12. CASE CheckSum
  <2>1. CASE Whole(cur, Wanted(cur), File(cur))
    <3>1. UNCHANGED <<cache, wanted, listed, skipped>> /\ todo' = todo \ {cur}
      BY <1>12, <2>1 DEF CheckSum
    <3>2. ~skipped /\ \A p \in wanted \ todo : Whole(p, Wanted(p), File(p))
      BY <1>12 DEF CheckSum, Fetched
    <3>3. \A p \in wanted \ todo' : Whole(p, Wanted(p), File(p))
      BY <2>1, <3>1, <3>2
    <3> QED  BY <3>1, <3>3 DEF Fetched, Whole, File, Wanted
  <2>2. CASE (Again \/ Mismatch) /\ UNCHANGED todo
    <3>1. UNCHANGED cache \/ cache' = WithFile(cur, NoFile)
      BY <2>2 DEF Again, Mismatch
    <3> QED  BY <1>12, <2>2, <3>1, FetchedKept DEF CheckSum
  <2> QED  BY <1>12, <2>1, <2>2 DEF CheckSum
<1>13. CASE Failed
  BY <1>13 DEF Failed, Over, Fetched
<1>14. CASE Unavailable
  BY <1>14, FetchedKept DEF Unavailable
<1>15. CASE TransferFails
  BY <1>15, FetchedKept DEF TransferFails
<1>16. CASE Stopped
  BY <1>16 DEF Stopped, Over, Fetched
<1> QED  BY <1>1, <1>2, <1>3, <1>4, <1>5, <1>6, <1>7, <1>8, <1>9, <1>10, <1>11, <1>12, <1>13, <1>14,
   <1>15, <1>16 DEF FetchMove, FetchStep, FetchFault

\* One more place has been asked.
LEMMA NextPlace ==
  ASSUME FetchTypeOK, NEW k \in Nat, Places(list, k, at, asked)
  PROVE  Places(list, k + 1, NextHost, asked \cup {at})
<1> USE Hosts DEF NextHost
<1>1. CASE list.type = "SRV"
  <2>1. CASE asked = DOMAIN list.hosts
    BY <1>1, <2>1 DEF Places, FetchTypeOK
  <2>2. CASE asked = 1 .. k /\ at = k + 1
    <3>1. asked \cup {at} = 1 .. k + 1 /\ at \in 1 .. Len(list.hosts)
      BY <2>2 DEF FetchTypeOK
    <3>2. CASE at < Len(list.hosts)
      BY <1>1, <2>2, <3>1, <3>2 DEF Places
    <3>3. CASE at = Len(list.hosts)
      BY <1>1, <2>2, <3>1, <3>3 DEF Places
    <3> QED  BY <3>1, <3>2, <3>3
  <2> QED  BY <1>1, <2>1, <2>2 DEF Places
<1>2. CASE list.type = "HTTP"
  <2>1. CASE k = 0
    BY <1>2, <2>1 DEF Places
  <2>2. CASE k = 1
    BY <1>2, <2>2 DEF Places
  <2>3. CASE k > 1
    <3>1. asked = {1, at} /\ at = IF Len(list.hosts) > 1 THEN 2 ELSE 1
      BY <1>2, <2>3 DEF Places
    <3>2. NextHost = at /\ asked \cup {at} = {1, NextHost}
      BY <1>2, <3>1
    <3> QED  BY <1>2, <2>3, <3>1, <3>2 DEF Places
  <2> QED  BY <2>1, <2>2, <2>3
<1>3. CASE list.type = "NONE"
  BY <1>3 DEF Places
<1> QED  BY <1>1, <1>2, <1>3

\* The last try.
LEMMA LastPlace ==
  ASSUME FetchTypeOK, MaxRetry \in Nat, MaxRetry >= Len(list.hosts),
         Places(list, MaxRetry - 1, at, asked),
         UNCHANGED list, asked' = asked \cup {at}
  PROVE  MirrorsTried'
<1> USE Hosts DEF MirrorsTried
<1>1. CASE list.type = "SRV"
  <2>1. CASE asked = DOMAIN list.hosts
    BY <1>1, <2>1 DEF FetchTypeOK
  <2>2. CASE asked = 1 .. MaxRetry - 1 /\ at = MaxRetry - 1 + 1
    <3>1. at = Len(list.hosts) /\ at = MaxRetry
      BY <2>2 DEF FetchTypeOK
    <3> QED  BY <1>1, <2>2, <3>1
  <2> QED  BY <1>1, <2>1, <2>2 DEF Places
<1>2. CASE list.type = "HTTP"
  <2>1. CASE Len(list.hosts) = 1
    <3>1. asked' = {1}
      BY <1>2, <2>1 DEF Places
    <3>2. DOMAIN list.hosts = {1}
      BY <2>1
    <3> QED  BY <1>2, <3>1, <3>2
  <2>2. CASE Len(list.hosts) = 2
    <3>1. asked' = {1, 2}
      BY <1>2, <2>2 DEF Places
    <3>2. DOMAIN list.hosts = {1, 2}
      BY <2>2
    <3> QED  BY <1>2, <3>1, <3>2
  <2>3. Len(list.hosts) <= 2 => Len(list.hosts) = 1 \/ Len(list.hosts) = 2
    <3>1. \A k \in Nat \ {0} : k <= 2 => k = 1 \/ k = 2
      OBVIOUS
    <3> QED  BY <3>1, Hosts
  <2>4. CASE Len(list.hosts) <= 2
    <3> HIDE DEF MirrorsTried
    <3> QED  BY <2>1, <2>2, <2>3, <2>4
  <2>5. CASE ~(Len(list.hosts) <= 2)
    BY <1>2, <2>5
  <2> HIDE DEF MirrorsTried
  <2> QED  BY <2>4, <2>5
<1>3. CASE list.type = "NONE"
  <2>1. DOMAIN list.hosts = {1}
    BY <1>3, FetchAssumption DEF FetchTypeOK
  <2>2. asked' = {1}
    BY <1>3 DEF Places
  <2> QED  BY <2>1, <2>2
<1> QED  BY <1>1, <1>2, <1>3

\* The places are asked one after the other.
LEMMA AskedStep ==
  ASSUME FetchTypeOK, Session, Asked, MirrorsTried, FetchMove
  PROVE  (Asked /\ MirrorsTried)'
<1> USE DEF session, host
<1>1. ASSUME NEW w \in Requests, Install(w)
      PROVE  (Asked /\ MirrorsTried)'
  BY <1>1 DEF Install, Begin, session, host, Asked, MirrorsTried
<1>2. CASE Measure
  BY <1>2 DEF Measure, Asked, MirrorsTried
<1>3. CASE AllFetched
  BY <1>3 DEF AllFetched, Asked, MirrorsTried
<1>4. CASE Finish
  BY <1>4 DEF Finish, Over, NoHost, Asked, MirrorsTried
<1>5. ASSUME NEW p \in Pkgs, Take(p)
      PROVE  (Asked /\ MirrorsTried)'
  BY <1>5 DEF Take, Asked, MirrorsTried
<1>6. CASE Stat
  <2>1. CASE fpc' = "connect"
    <3>1. /\ retry' = MaxRetry /\ MaxRetry \in Nat /\ UNCHANGED <<list, at, asked, why>>
          /\ at = 1 /\ asked = {} /\ why = "none"
      BY <1>6, <2>1, FetchAssumption DEF Stat, Asked
    <3>2. Places(list', 0, at', asked')
      <4>1. 1 .. 0 = {} /\ 0 + 1 = 1
        OBVIOUS
      <4> QED  BY <3>1, <4>1, Hosts DEF Places
    <3>3. MaxRetry - retry' = 0
      BY <3>1
    <3> QED  BY <2>1, <3>1, <3>2, <3>3 DEF Asked, MirrorsTried
  <2> QED  BY <1>6, <2>1 DEF Stat, Asked, MirrorsTried
<1>7. CASE Connect
  BY <1>7 DEF Connect, Asked, MirrorsTried
<1>8. CASE ConnectFails
  <2>1. MaxRetry \in Nat /\ retry \in 0 .. MaxRetry /\ why = "none" /\ asked' = asked \cup {at}
    BY <1>8, FetchAssumption DEF ConnectFails, Asked, FetchTypeOK
  <2>2. CASE retry <= 1
    <3>1. fpc' = "failed"
      BY <1>8, <2>2 DEF ConnectFails
    <3>2. CASE MaxRetry >= Len(list.hosts)
      <4>1. MaxRetry > 0
        BY <2>1, <3>2, Hosts
      <4>2. retry = 1 /\ Places(list, MaxRetry - 1, at, asked)
        BY <1>8, <2>1, <2>2, <4>1 DEF ConnectFails, Asked
      <4> QED  BY <1>8, <2>1, <3>1, <3>2, <4>2, LastPlace DEF ConnectFails, Asked
    <3>3. CASE ~(MaxRetry >= Len(list.hosts))
      BY <1>8, <3>1, <3>3 DEF ConnectFails, Asked, MirrorsTried
    <3> QED  BY <3>2, <3>3
  <2>3. CASE ~(retry <= 1)
    <3>1. fpc' = "connect" /\ retry' = retry - 1 /\ at' = NextHost /\ UNCHANGED <<list, why>>
      BY <1>8, <2>3 DEF ConnectFails
    <3>2. MaxRetry - retry \in Nat /\ Places(list, MaxRetry - retry, at, asked)
      BY <1>8, <2>1, <2>3 DEF ConnectFails, Asked
    <3>3. Places(list', (MaxRetry - retry) + 1, at', asked')
      BY <2>1, <3>1, <3>2, NextPlace
    <3>4. (MaxRetry - retry) + 1 = MaxRetry - retry' /\ retry' > 0
      BY <2>1, <2>3, <3>1
    <3> QED  BY <2>1, <3>1, <3>3, <3>4 DEF Asked, MirrorsTried
  <2> QED  BY <2>2, <2>3
<1>9. CASE Transfer
  BY <1>9 DEF Transfer, Asked, MirrorsTried
<1>10. CASE Transferred
  BY <1>10 DEF Transferred, NoHost, Asked, MirrorsTried
<1>11. CASE CheckSize
  BY <1>11 DEF CheckSize, Again, Mismatch, Asked, MirrorsTried
<1>12. CASE CheckSum
  BY <1>12 DEF CheckSum, Again, Mismatch, Asked, MirrorsTried
<1>13. CASE Failed
  BY <1>13 DEF Failed, Over, NoHost, Asked, MirrorsTried
<1>14. CASE Unavailable
  BY <1>14 DEF Unavailable, Asked, MirrorsTried
<1>15. CASE TransferFails
  BY <1>15 DEF TransferFails, Asked, MirrorsTried
<1>16. CASE Stopped
  BY <1>16 DEF Stopped, Over, NoHost, Asked, MirrorsTried
<1> QED  BY <1>1, <1>2, <1>3, <1>4, <1>5, <1>6, <1>7, <1>8, <1>9, <1>10, <1>11, <1>12, <1>13, <1>14,
   <1>15, <1>16 DEF FetchMove, FetchStep, FetchFault

\* When nothing is to be fetched, all of it is there, unless a file is suspect.
LEMMA NothingToFetch ==
  ASSUME FetchTypeOK, CacheSound, wanted \in Requests, listed \in 1 .. MaxPub,
         fpc = "measure", ToDownload = 0
  PROVE  \/ \A p \in wanted : Whole(p, Wanted(p), File(p))
         \/ \E p \in wanted : <<p, Wanted(p)>> \in suspect
<1> SUFFICES ASSUME \A p \in wanted : <<p, Wanted(p)>> \notin suspect
             PROVE  \A p \in wanted : Whole(p, Wanted(p), File(p))
  OBVIOUS
<1> DEFINE Missing(p) == Size[p][Wanted(p)] - Length(File(p))
<1> DEFINE g == [p \in wanted |-> Missing(p)]
<1>1. wanted \subseteq Pkgs /\ IsFiniteSet(wanted)
  BY ClientAssumption
<1>2. ASSUME NEW p \in wanted
      PROVE  File(p) = NoFile \/ Whole(p, Wanted(p), File(p))
  BY <1>1, Files DEF CacheSound, File
<1>3. ASSUME NEW p \in wanted
      PROVE  g[p] \in Nat /\ (g[p] = 0 => Whole(p, Wanted(p), File(p)))
  <2>1. Wanted(p) \in Builds /\ Size[p][Wanted(p)] \in Nat \ {0}
    BY <1>1, Files
  <2>2. CASE File(p) = NoFile
    BY <2>1, <2>2 DEF Length
  <2>3. CASE Whole(p, Wanted(p), File(p)) /\ File(p) # NoFile
    <3>1. Length(File(p)) = Size[p][Wanted(p)]
      BY <2>1, <2>3 DEF Length, Whole
    <3> QED  BY <2>1, <2>3, <3>1
  <2> QED  BY <1>2, <2>2, <2>3
<1> DEFINE Sum(it) == it = [s \in SUBSET wanted |->
                              IF s = {} THEN 0 ELSE Missing(First(s)) + it[s \ {First(s)}]]
<1>4. \A it : Sum(it) <=> Sums(it, g, SUBSET wanted)
  <2>1. \A s \in SUBSET wanted : s # {} => g[First(s)] = Missing(First(s))
    BY DEF First
  <2> HIDE DEF g, Missing
  <2> QED  BY <2>1 DEF Sums
<1>5. ToDownload = (CHOOSE it : Sum(it))[wanted]
  BY DEF ToDownload, MapThenSumSet, MapThenFoldSet, First
<1> HIDE DEF g
<1>6. Sum(CHOOSE it : Sum(it))
  <2>1. \E it : Sum(it)
    BY <1>1, <1>4, SumsExist
  <2> QED  BY <2>1
<1>7. \A p \in wanted : g[p] = 0
  BY <1>1, <1>3, <1>4, <1>5, <1>6, NoSum
<1> QED  BY <1>3, <1>7

\* What is about to be installed.
LEMMA ReadyStep ==
  ASSUME FetchTypeOK, Session, CacheSound, Fetched, UsedAsListed, FetchMove, Fetched', Session'
  PROVE  UsedAsListed'
<1> SUFFICES ASSUME fpc' = "ready"  PROVE UsedAsListed'
  BY DEF UsedAsListed
<1>1. CASE ~skipped'
  BY <1>1 DEF Fetched, Session, UsedAsListed
<1>2. CASE skipped'
  <2>1. Measure /\ ToDownload = 0
    BY <1>2 DEF Session, FetchMove, FetchStep, FetchFault, Install, Begin, Measure, AllFetched,
         Finish,
         Take, Stat, Connect, ConnectFails, Transfer, Transferred, CheckSize, CheckSum, Again,
         Mismatch, Failed, Unavailable, TransferFails, Stopped, Over
  <2>2. \/ \A p \in wanted : Whole(p, Wanted(p), File(p))
        \/ \E p \in wanted : <<p, Wanted(p)>> \in suspect
    BY <2>1, NothingToFetch DEF Measure, Session
  <2>3. UNCHANGED <<wanted, listed, cache, suspect>>
    BY <2>1 DEF Measure, session
  <2> QED  BY <1>2, <2>2, <2>3 DEF UsedAsListed, Whole, File, Wanted
<1> QED  BY <1>1, <1>2

-----------------------------------------------------------------------------
(* The other steps, and the first state.                                   *)

\* The invariant of a session needs that of the update for the publication it starts from.
LEMMA FetchInvMove ==
  ASSUME UpdateInv, FetchInv, FetchMove
  PROVE  FetchInv'
<1> USE DEF UpdateInv, FetchInv
<1>1. FetchTypeOK' /\ Session' /\ Opened'
  BY FetchTypeStep, SessionStep, OpenedStep
<1>2. CacheSound' /\ Fetched' /\ (Asked /\ MirrorsTried)'
  BY CacheStep, FetchedStep, AskedStep
<1>3. UsedAsListed'
  BY <1>1, <1>2, ReadyStep
<1> QED  BY <1>1, <1>2, <1>3

\* What others do is nothing to a session.
LEMMA FetchUnchanged ==
  ASSUME FetchInv, UNCHANGED fetchVars
  PROVE  FetchInv'
<1>1. FetchTypeOK' /\ Session' /\ Opened'
  BY DEF FetchInv, fetchVars, FetchTypeOK, Session, Opened, File, Wanted
<1>2. CacheSound' /\ Fetched'
  BY DEF FetchInv, fetchVars, CacheSound, Fetched, Whole, File, Wanted
<1>3. Asked' /\ MirrorsTried' /\ UsedAsListed'
  BY DEF FetchInv, fetchVars, Asked, MirrorsTried, UsedAsListed, Whole, File, Wanted
<1> QED  BY <1>1, <1>2, <1>3 DEF FetchInv

LEMMA InitFetchInv ==
  ASSUME FetchInit
  PROVE  FetchInv
<1>1. NoList \in Lists /\ NoPkg \in Pkgs /\ NoBuild \in Builds
  BY Defaults
<1>2. 1 \in DOMAIN NoList.hosts
  BY <1>1, FetchAssumption
<1>3. FetchTypeOK
  <2>1. 0 \in 0 .. MaxRetry /\ 0 \in 0 .. MaxPub
    BY FetchAssumption, ServerAssumption
  <2>2. cache \in [Pkgs -> [Builds -> Seq(Builds) \cup {NoFile}]]
    BY DEF FetchInit
  <2> QED  BY <1>1, <1>2, <2>1, <2>2 DEF FetchInit, FetchTypeOK
<1>4. Session /\ Opened /\ CacheSound /\ Fetched /\ Asked /\ MirrorsTried /\ UsedAsListed
  BY DEF FetchInit, Session, Trying, Opened, CacheSound, Fetched, Asked, MirrorsTried, UsedAsListed
<1> QED  BY <1>3, <1>4 DEF FetchInv

\* The invariant of sessions.
THEOREM FetchInvariant == Spec => []FetchInv
<1>1. ClientInit => FetchInv
  BY InitFetchInv DEF ClientInit
<1>2. UpdateInv /\ FetchInv /\ [ClientNext]_clientVars => FetchInv'
  BY FetchInvMove, FetchUnchanged DEF ClientNext, clientVars, FetchMove
<1> QED  BY <1>1, <1>2, UpdateInvariant, PTL DEF Spec

-----------------------------------------------------------------------------
(* The theorems.                                                           *)

\* The variables of the machine keep their types.
THEOREM ClientTypes == Spec => []TypeOK
<1>1. UpdateInv /\ FetchInv => TypeOK
  BY DEF UpdateInv, FetchInv, TypeOK
<1> QED  BY <1>1, UpdateInvariant, FetchInvariant, PTL

\* A file in the cache is all of the build it is named for, whatever stopped or failed,
\* unless a process was stopped while it fetched it.
THEOREM TheCacheIsSound == Spec => []CacheSound
<1>1. FetchInv => CacheSound
  BY DEF FetchInv
<1> QED  BY <1>1, FetchInvariant, PTL

\* Fetching does not fail for want of an answer before it has asked every mirror, but for
\* those behind the second of an HTTP list.
THEOREM AllMirrorsTried == Spec => []MirrorsTried
<1>1. FetchInv => MirrorsTried
  BY DEF FetchInv
<1> QED  BY <1>1, FetchInvariant, PTL

\* What is installed is what the catalogue lists.  When nothing was to be fetched the
\* sizes of the files have added up, which they also do for a file that is too long and
\* others that are too short: only a file left by a process that was stopped can be.
THEOREM InstalledAsListed == Spec => []UsedAsListed
<1>1. FetchInv => UsedAsListed
  BY DEF FetchInv
<1> QED  BY <1>1, FetchInvariant, PTL
=============================================================================
