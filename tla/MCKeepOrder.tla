---- MODULE MCKeepOrder ----
EXTENDS KeepOrder

CONSTANTS tp, tq, ta, tc, td, tx

Entries(f) == [t \in Task |-> IF t \in DOMAIN f THEN f[t] ELSE <<>>]

Prog(top, prints, entries, stops) ==
    [top |-> top, prints |-> prints, entries |-> Entries(entries), stops |-> stops]

(* An anchor with two entries before a task of the main graph.             *)
Anchor(stops) == Prog(<<ta, tq>>, {tq, tc, td}, (ta :> <<<<tc>>, <<td>>>>), stops)

(* A task that prints and names tx, which the command line runs too.       *)
Adopted == Prog(<<tp, tq, tx>>, {tp, tq, tx, td}, (tp :> <<<<tx>>, <<td>>>>), FALSE)

(* An anchor inside the group of a task that prints.                       *)
Nested(stops) == Prog(<<tp, tq>>, {tp, tq, tc, td}, (tp :> <<<<ta>>, <<td>>>>) @@ (ta :> <<<<tc>>>>), stops)

(* Two parents that name the same task.                                    *)
Shared == Prog(<<tp, tq>>, {tp, tq, tc, td}, (tp :> <<<<tc>>, <<td>>>>) @@ (tq :> <<<<tc>>>>), FALSE)

MCPrograms == {Anchor(TRUE), Anchor(FALSE), Adopted, Nested(TRUE), Nested(FALSE), Shared}
====
