---------------------------- MODULE LibrariesMC ----------------------------
(***************************************************************************)
(* Data for TLC: every manifest of up to five different lines of eight,     *)
(* with a good one beside it, and certificates whose windows are short,    *)
(* long, too long, empty and late or whose fields are bad.                 *)
(***************************************************************************)
EXTENDS Libraries

L(k, v) == [key |-> k, spaced |-> FALSE, value |-> v]

MCLines == {
    L("name", "n"), L("name", ""), L("package", "p.pea"), L("package", "p"),
    L("runtime", "native"), L("runtime", "web"), L("entry", "n"),
    [key |-> "runtime", spaced |-> TRUE, value |-> "web"]}

MCExtensionOf ==
    [v \in {"n", "native", "web", "bogus", "yes", "p", "p.pea", "q.exe"} |->
        CASE v = "p.pea" -> ".pea" [] v = "q.exe" -> ".exe" [] OTHER -> ""]

MCAllLines == MCLines \cup
    {L(NoKey, ""), L("runtime", "bogus"), L("package", "q.exe"), L("name", "web"),
     L("network", "yes"), L("isolated", "yes"), L("version", "n")}

Other == << L("runtime", "bogus"), L("package", "q.exe"), L("entry", "n"),
            L("name", "web"), L("runtime", "web"), L("isolated", "yes") >>

Good == << L(NoKey, ""), L("package", "q.exe"), L("entry", "n"), L("runtime", "web"),
           L("name", "web"), L("network", "yes") >>

\* One line more than is read.
Long == Good \o << L("version", "n") >>

Injective(m) == \A i, j \in 1..Len(m) : m[i] = m[j] => i = j

MCDisks ==
    {{m, Good} : m \in {m \in UNION {[1..n -> MCLines] : n \in 0..5} : Injective(m)}}
        \cup {{Other, Good}, {Long, Good}}

C(h, b, i, e) == [header |-> h, body |-> b, issued |-> i, expires |-> e]

MCCerts == {C(TRUE, TRUE, 1, 2), C(TRUE, TRUE, 2, 6), C(TRUE, TRUE, 1, 6),
            C(TRUE, TRUE, 3, 3), C(TRUE, FALSE, 1, 2), C(FALSE, TRUE, 1, 2),
            C(TRUE, TRUE, 0, 2)}
=============================================================================
