---------------------------- MODULE MCBuildDeps ----------------------------
(* An instance of BuildDeps for TLC: two sources, of which one includes a  *)
(* header, and another header that may come in through it or at once.      *)
EXTENDS BuildDeps, TLC

CONSTANTS a, b, aObj, bObj, h, g

MCObject == a :> aObj @@ b :> bObj
MCIncludes == a :> {h} @@ b :> {}
MCEndOfLine == a :> <<"lf">> @@ b :> <<"cr", "lf">>
=============================================================================
