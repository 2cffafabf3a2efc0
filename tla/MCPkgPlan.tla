----------------------------- MODULE MCPkgPlan ------------------------------
(* A few names, with every way for them to depend on each other and to have *)
(* files in common within the bounds below.                                *)
EXTENDS PkgPlan

\* What the catalogue has: a newer package of each name, or something else of
\* one of them
OffersOf(X) == {[n \in Uids |-> IF n = m THEN x ELSE "newer"] : m \in Uids, x \in X}
There(local, offer) == {Local(n) : n \in local} \cup {Remote(n) : n \in {m \in Uids : offer[m] # "none"}}

\* At most two dependencies and one pair of packages with a file in common
Edges(items) == {e \in items \X Uids : e[1][1] # e[2]}
UpTo2(S) == {{}} \cup {{x, y} : x, y \in S}
ClashesOf(items) ==
  {c \in items \X items : c[1][1] < c[2][1] /\ ~(IsLocal(c[1]) /\ IsLocal(c[2]))}
UpTo1(S) == {{}} \cup {{x} : x \in S}

DepOf(edges) == [i \in Items |-> {e[2] : e \in {f \in edges : f[1] = i}}]
Closed(local, dep) == \A n \in local : dep[Local(n)] \subseteq local

InstallInit ==
  \E l \in SUBSET Uids, o \in OffersOf({"newer", "none"}), a \in {{}, {1}, {1, 2}} :
  \E e \in UpTo2(Edges(There(l, o))), c \in UpTo1(ClashesOf(There(l, o))) :
    /\ \A n \in Uids \ l : o[n] \in {"none", "newer"}
    /\ Closed(l, DepOf(e))
    /\ problem = [type |-> IF a = {} THEN "upgrade" ELSE "install", asked |-> a,
                  forced |-> FALSE, missing |-> FALSE, local |-> l, offer |-> o,
                  dep |-> DepOf(e), clash |-> c, locked |-> {}, automatic |-> {}, vital |-> {}]

\* Two pairs with a file in common, and at most one dependency
ClashInit ==
  \E l \in SUBSET Uids, o \in OffersOf({"newer", "none"}), a \in {{}, {1}} :
  \E e \in UpTo1(Edges(There(l, o))), c, d \in ClashesOf(There(l, o)) :
    /\ c # d
    /\ \A n \in Uids \ l : o[n] \in {"none", "newer"}
    /\ problem = [type |-> IF a = {} THEN "upgrade" ELSE "install", asked |-> a,
                  forced |-> FALSE, missing |-> FALSE, local |-> l, offer |-> o,
                  dep |-> DepOf(e), clash |-> {c, d}, locked |-> {}, automatic |-> {}, vital |-> {}]

\* An option, the vital and the locked packages, with fewer ways to depend and clash
MarkedInit ==
  \E t \in {"install", "upgrade"}, o \in OffersOf(Offers),
     mark \in {<<"", {}, {2}>>, <<"", {}, {3}>>, <<"", {1}, {3}>>, <<"forced", {}, {2}>>, <<"missing", {}, {3}>>} :
  \E e \in UpTo1(Edges(There(Uids, o))), c \in UpTo1(ClashesOf(There(Uids, o))) :
    /\ problem = [type |-> t, asked |-> {1}, forced |-> mark[1] = "forced", missing |-> mark[1] = "missing", local |-> Uids,
                  offer |-> o, dep |-> DepOf(e), clash |-> c, locked |-> mark[3], automatic |-> {}, vital |-> mark[2]]

DeleteInit ==
  \E t \in {"deinstall", "autoremove"}, e \in UpTo2(Edges({Local(n) : n \in Uids})), f \in BOOLEAN,
     k, v \in {{}} \cup {{n} : n \in Uids}, m \in SUBSET Uids, a \in {{}, {1}, {1, 2}} :
    /\ t = "deinstall" => m = {}
    /\ t = "autoremove" => a = {}
    /\ problem = [type |-> t, asked |-> a, forced |-> f, missing |-> FALSE, local |-> Uids,
                  offer |-> [n \in Uids |-> "none"], dep |-> DepOf(e), clash |-> {},
                  locked |-> k, automatic |-> m, vital |-> v]

MCInit == (InstallInit \/ ClashInit \/ MarkedInit \/ DeleteInit) /\ Begin
MCSpec == MCInit /\ [][Next]_vars
=============================================================================
