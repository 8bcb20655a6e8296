---------------------------- MODULE MCBookKeeper ----------------------------
(***************************************************************************)
(* Instances of BookKeeper: two figure servers, two figures.               *)
(***************************************************************************)
EXTENDS BookKeeper, TLC

CONSTANTS s1, s2, a1, a2, a3, f1, f2, broken, ending

\* The containers of the project's README: every server announces the address
\* its datagrams come from, and is reached there.
ContainerHost == s1 :> a1 @@ s2 :> a2
ContainerReach == a1 :> s1 @@ a2 :> s2

\* One server, started twice, with an older and a newer disk.
AloneHost == s1 :> a1
AloneReach == a1 :> s1
AloneCatalogues == s1 :> {{f1}, {f1, f2}}
\* A text that ends in f2 leaves a name nobody holds.
AloneBeginnings == f1 :> {} @@ f2 :> {broken}
AloneRestart == s1 :> 2

\* Bound: each server is started once.
OneStart == s1 :> 1 @@ s2 :> 1

\* The name of the second server's figure begins the name of the first one's.
PrefixBeginnings == f1 :> {f2} @@ f2 :> {}

OneCatalogue == s1 :> {{f1}} @@ s2 :> {{f2}}
=============================================================================
