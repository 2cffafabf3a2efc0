---------------------------- MODULE MCPkgRelease ----------------------------
(* Two creations by at most two workers, the first of three archives;       *)
(* three releases of one package, the first a release candidate; versions   *)
(* of a few tokens, texts of a few lines.                                   *)
EXTENDS PkgRelease

MCStocks == <<{<<3, 2, 1>>}, {<<2>>}>>

Dot == Sign(Separator)
One == <<Number(1), Dot, Number(0)>>
MCVersionOf == <<Version(0, One \o <<Staged("rc"), Number(1)>>, 0),
                 Version(0, One, 0), Version(0, One, 1)>>
MCVanilla == <<<<"a", "b">>, <<"c", "b">>, <<"c", "b", "a">>>>

\* Bodies of at most three tokens, and two of the epochs and revisions
Tokens == {Number(0), Number(2), Staged("rc"), Letters(16), Letters(4), Dot, Sign("+"), Sign("*")}
Apart(s) == \A i \in 1 .. Len(s) - 1 : s[i].kind # s[i + 1].kind
Bodies == {s \in UNION {[1 .. n -> Tokens] : n \in 1 .. 3} :
             Apart(s) /\ s[1].kind \in {"number", "letters"}}
Versions == {Version(0, s, 0) : s \in Bodies}
             \cup {Version(e, <<Number(2)>>, r) : e \in 0 .. 1, r \in 0 .. 1}

TextsOf(L, n) == UNION {[1 .. k -> L] : k \in 0 .. n}
MCProbes == {<<"version", v>> : v \in Versions}
             \cup ({"texts"} \X TextsOf({"a", "b"}, 3) \X TextsOf({"a", "c"}, 2) \X TextsOf({"a", "b", "c"}, 2))
=============================================================================
