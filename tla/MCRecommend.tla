---------------------------- MODULE MCRecommend ----------------------------
(* Two asks, by mood with something ruled out or by seed of a user who     *)
(* owns a game, while names.json is rewritten.                             *)
EXTENDS WebPage

CONSTANTS a, b, d

SomeQueries ==
  {[seed |-> NoSeed, negation |-> TRUE, closer |-> {b}, user |-> FALSE],
   [seed |-> a, negation |-> FALSE, closer |-> {}, user |-> TRUE]}
SomeLibraries == {{b}}
SomeVersions  == <<{}, {a}>>
=============================================================================
