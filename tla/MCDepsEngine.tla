---------------------------- MODULE MCDepsEngine ---------------------------
(* Bounded instance of DepsEngine: three providers in a chain, in a fork   *)
(* with an inactive one, in a cycle with a tail, or independent.           *)
EXTENDS DepsEngine

CONSTANTS p, q, r, ghost

MCConfigs ==
    {[depends |-> {<<q, p>>, <<r, q>>}, inactive |-> {}],
     [depends |-> {<<q, p>>, <<r, q>>, <<r, ghost>>}, inactive |-> {p}],
     [depends |-> {<<q, p>>, <<p, q>>, <<r, r>>}, inactive |-> {}],
     [depends |-> {<<r, p>>, <<r, q>>}, inactive |-> {}],
     [depends |-> {}, inactive |-> {}],
     [depends |-> {<<r, p>>}, inactive |-> {q}]}

Invocation(s, o, f, d) == [selected |-> s, only |-> o, force |-> f, dry |-> d]

MCInvocations ==
    {Invocation(Key, FALSE, f, FALSE) : f \in BOOLEAN}
        \cup {Invocation({q, r}, TRUE, FALSE, FALSE), Invocation(Key, FALSE, FALSE, TRUE)}

(* Two independent providers, for longer histories.                        *)
MCPair == {[depends |-> {}, inactive |-> {r}]}
=============================================================================
