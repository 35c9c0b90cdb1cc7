------------------------------ MODULE MCTools ------------------------------
(* Tools on small instances.                                               *)
EXTENDS Tools, TLC

CONSTANTS p1, p2, c1, c2, r1, t1, t2, sub, i1, i2, lib, b1, b2

\* Two commits of one ref that share a tree below their roots.
OneRef   == c1 :> r1 @@ c2 :> r1
TwoRoots == c1 :> t1 @@ c2 :> t2
OneKid   == t1 :> {sub} @@ t2 :> {sub} @@ sub :> {}
InTree   == t1 :> {i1} @@ t2 :> {i2} @@ sub :> {lib}
InfoOf   == c1 :> i1 @@ c2 :> i2
Reached  == t1 :> {t1, i1, sub, lib} @@ t2 :> {t2, i2, sub, lib} @@ sub :> {sub, lib}

\* Both builders need the file, the archive and the Debian source, and the
\* helper a clone as well.
Both == b1 :> <<"file", "archive", "dsc">> @@ b2 :> <<"git", "file", "archive", "dsc">>
=============================================================================
