---------------------------- MODULE MCRepoLock ----------------------------
(* RepoLock on small instances.                                            *)
EXTENDS RepoLock, TLC

CONSTANTS daemon, cli1, d1, d2, c1

\* The daemon has two threads that lock (its task worker and the deferred
\* uninstall loop), an ll-cli has one.
DaemonAndOne == (d1 :> daemon) @@ (d2 :> daemon) @@ (c1 :> cli1)

\* The daemon only ever asks for the exclusive lock, ll-cli for the shared one.
AsUsed == (d1 :> {"exclusive"}) @@ (d2 :> {"exclusive"}) @@ (c1 :> {"shared"})
=============================================================================
