---------------------------- MODULE MCKappsCommand ----------------------------
(* An instance of KappsCommand for TLC: two kapps, one of which depends on   *)
(* the other, with actions of every kind, or none, or a step defined twice.  *)
EXTENDS KappsCommand

CONSTANTS db, app, kops, helm

Chain == {<<app, db>>}

Kapps(ofApp, ofDb, unique) ==
  [k \in Kapp |->
     IF k = app THEN [actions |-> ofApp, needs |-> {helm}, unique |-> TRUE]
                ELSE [actions |-> ofDb, needs |-> {}, unique |-> unique]]

Variants == {Kapps({}, {}, TRUE), Kapps({"other"}, {}, TRUE),
             Kapps({"pre", "post"}, {"post"}, TRUE), Kapps({"pre"}, {}, FALSE)}
=============================================================================
