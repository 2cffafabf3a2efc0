----------------------------- MODULE RepoServer -----------------------------
(***************************************************************************)
(* A repository as its clients see it: a site and its mirrors, each with   *)
(* the catalogue, the meta file and the packages of one publication.       *)
(* Publications are numbered.  Those who publish are not part of this      *)
(* code: the module is what libpkg/fetch.c may find at the other end.      *)
(*                                                                         *)
(* In a storm anything may go wrong with a command; otherwise nothing      *)
(* does.  A behaviour has storms that strike the catalogue, or storms that *)
(* strike the cache: the state of the one is not that of the other, and    *)
(* the product would be large.                                             *)
(***************************************************************************)
EXTENDS Naturals

CONSTANTS
  Mirrors,        \* the hosts
  Origin,         \* the one that is published to
  MaxPub,         \* bound on the number of publications
  MaxStorms       \* bound on the number of storms

ASSUME ServerAssumption == Origin \in Mirrors /\ MaxPub \in Nat \ {0} /\ MaxStorms \in Nat

VARIABLES
  served,         \* the publication each host has
  strikes,        \* what storms strike: "catalogue" or "cache"
  storm,          \* something may go wrong with the present command
  storms          \* how many storms there have been

world == <<served, strikes, storm, storms>>

\* The modification time of the files of publication k, and the local time: it
\* lies between two publications, since the clocks agree.
PublishedAt(k) == 2 * k
Now == 2 * served[Origin] + 1
Times == 0 .. 2 * MaxPub + 1

ServerTypeOK ==
  /\ served \in [Mirrors -> 1 .. MaxPub]
  /\ strikes \in {"catalogue", "cache"} /\ storm \in BOOLEAN /\ storms \in 0 .. MaxStorms

ServerInit ==
  /\ served = [m \in Mirrors |-> 1]
  /\ strikes \in {"catalogue", "cache"} /\ storm = FALSE /\ storms = 0

Publish ==
  /\ served[Origin] < MaxPub
  /\ served' = [served EXCEPT ![Origin] = @ + 1]
  /\ UNCHANGED <<strikes, storm, storms>>

Sync(m) ==
  /\ served[m] < served[Origin]
  /\ served' = [served EXCEPT ![m] = served[Origin]]
  /\ UNCHANGED <<strikes, storm, storms>>

Serve == Publish \/ \E m \in Mirrors : Sync(m)

\* The site is finished with publishing and its mirrors have followed.
Settled == \A m \in Mirrors : served[m] = MaxPub

Brew ==
  /\ ~storm /\ storms < MaxStorms
  /\ storm' = TRUE /\ storms' = storms + 1
  /\ UNCHANGED <<served, strikes>>

Pass == storm /\ storm' = FALSE /\ UNCHANGED <<served, strikes, storms>>
=============================================================================
