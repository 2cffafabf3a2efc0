---------------------------- MODULE MCRepoClient ----------------------------
(***************************************************************************)
(* A package that is rebuilt, and shrinks, and one that stays as it is.    *)
(***************************************************************************)
EXTENDS RepoClient

CONSTANTS p, q, x, y

MCBuildOf == [n \in {p, q} |-> [k \in 1 .. MaxPub |-> IF n = p /\ k = 2 THEN y ELSE x]]
MCSize == [n \in {p, q} |-> [b \in {x, y} |-> IF n = p /\ b = x THEN 2 ELSE 1]]

MCRequests == {{p, q}}

\* An SRV list in which the first host comes again, an HTTP list, and no list
MCLists == {[type |-> "SRV", hosts |-> <<1, 2, 1>>], [type |-> "HTTP", hosts |-> <<1, 2>>],
            [type |-> "NONE", hosts |-> <<1>>]}

\* An HTTP list of three
MCHttpLists == {[type |-> "HTTP", hosts |-> <<1, 2, 3>>]}
=============================================================================
