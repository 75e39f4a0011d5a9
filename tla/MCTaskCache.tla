----------------------------- MODULE MCTaskCache -----------------------------
(* TLC instance of TaskCache: two processes, two keys, two output roots. *)
EXTENDS TaskCache, TLC

CONSTANTS k1, k2

Keys == {k1, k2}

\* --force behaves as a mode that does not read; it is offered where the cache
\* is off, and so a fresh task would not run.
Offering ==
    {<<"read-write", FALSE>>, <<"read-only", FALSE>>, <<"write-only", FALSE>>, <<"off", TRUE>>}

\* A plain `mise run`.
Plain == {<<"read-write", FALSE>>}

\* Both keys ran before: the entry of the first is only in the remote store, the
\* entry of the second only here.
Starting == {[done |-> <<k1, k2>>, here |-> {k2}, there |-> {k1}]}

=============================================================================
