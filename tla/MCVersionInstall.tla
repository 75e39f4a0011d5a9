-------------------------- MODULE MCVersionInstall -------------------------
(* Bounded instance of VersionInstall: two processes and a check on a      *)
(* version with two install paths.                                         *)
EXTENDS VersionInstall

CONSTANTS local, shared, p1, p2, c1

Ask(k, x, f, h) == [kind |-> k, path |-> x, force |-> f, hook |-> h]

MCRequests ==
    {Ask("install", local, f, "none") : f \in BOOLEAN}
        \cup {Ask("install", local, FALSE, h) : h \in {"once", "always"}}
        \cup {Ask("install", shared, FALSE, "none")}
        \cup {Ask("uninstall", local, FALSE, "none")}
        \cup {Ask("link", local, f, "none") : f \in BOOLEAN}

MCInstall == {Ask("install", local, FALSE, "none")}
=============================================================================
