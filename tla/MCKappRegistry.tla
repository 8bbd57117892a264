--------------------------- MODULE MCKappRegistry ----------------------------
(* An instance of KappRegistry for TLC: a chain and a kapp that joins it. *)
EXTENDS KappRegistry

CONSTANTS base, web, db, app, shop, infra, x, y, z, host, port

\* app depends on web and db, and web on base.
Tree == {<<base, web>>, <<web, app>>, <<db, app>>}

\* web is in another manifest than the rest, under the ID that db also has.
Manifests == [n \in Node |-> IF n = web THEN infra ELSE shop]
Ids == [n \in Node |-> IF n = base THEN z ELSE IF n = app THEN y ELSE x]
=============================================================================
