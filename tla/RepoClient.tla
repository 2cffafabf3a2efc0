----------------------------- MODULE RepoClient -----------------------------
(***************************************************************************)
(* A machine and the repository it installs from.  Commands run one after  *)
(* the other: updates of the catalogue (RepoUpdate), and installations     *)
(* that fetch what the catalogue lists (PkgFetch).  An update is started   *)
(* by every command that uses the catalogue, so commands that are run      *)
(* again and again, from periodic(8) or by hand, are all the fairness that *)
(* is asked of the user.                                                   *)
(***************************************************************************)
EXTENDS RepoUpdate, PkgFetch

CONSTANT Requests \* the sets of packages that are asked for

ASSUME ClientAssumption == \A w \in Requests : w \subseteq Pkgs /\ w # {} /\ IsFiniteSet(w)

clientVars == <<world, updateVars, fetchVars>>

ClientInit == ServerInit /\ UpdateInit /\ FetchInit

TypeOK == ServerTypeOK /\ UpdateTypeOK /\ FetchTypeOK

AtRest == upc = "idle" /\ fpc = "idle"

World == Serve \/ (AtRest /\ (Brew \/ Pass))

\* pkg update, or the update that other commands begin with
Update(force) == fpc = "idle" /\ Start(force)

\* pkg install, with a catalogue that has packages
Install(w) ==
  /\ strikes = "cache" /\ AtRest /\ Listed > 0
  /\ \E l \in Lists : Begin(w, Listed, l)

ClientNext ==
  \/ World /\ UNCHANGED <<updateVars, fetchVars>>
  \/ \E force \in BOOLEAN : Update(force) /\ UNCHANGED fetchVars
  \/ (UpdateStep \/ UpdateFault) /\ UNCHANGED fetchVars
  \/ \E w \in Requests : Install(w) /\ UNCHANGED updateVars
  \/ (FetchStep \/ FetchFault) /\ UNCHANGED updateVars

\* Publications reach the mirrors, storms pass, a process goes on, and commands are run
\* again and again.
Fairness ==
  /\ WF_clientVars(Serve /\ UNCHANGED <<updateVars, fetchVars>>)
  /\ SF_clientVars(AtRest /\ Pass /\ UNCHANGED <<updateVars, fetchVars>>)
  /\ WF_clientVars(UpdateStep /\ UNCHANGED fetchVars)
  /\ WF_clientVars(FetchStep /\ UNCHANGED updateVars)
  /\ SF_clientVars(Update(FALSE) /\ UNCHANGED fetchVars)
  /\ SF_clientVars((\E w \in Requests : Install(w)) /\ UNCHANGED updateVars)

Spec == ClientInit /\ [][ClientNext]_clientVars /\ Fairness

-----------------------------------------------------------------------------
(* Properties.                                                             *)

\* A machine on which commands are run again and again gets the last publication's
\* catalogue, and gets to install its packages as they are listed, unless its updates
\* are misled (by a host that is behind without any fault), or a file that looks whole
\* keeps packages from being fetched.
Converges ==
  []<>(\/ strikes = "catalogue" /\ Listed = MaxPub
       \/ /\ fpc = "ready" /\ listed = MaxPub
          /\ \A p \in wanted : Whole(p, Wanted(p), File(p))
       \/ Misled \/ suspect # {})
=============================================================================
