----------------------------- MODULE MCStrings -----------------------------
(* Values of the constants of Strings for TLC.                             *)
EXTENDS Strings

SomeCharacters ==
  [k \in {"path", "name", "args", "bytes"} |->
     CASE k = "path" -> {"/", "a", "b"}
       [] k = "name" -> 0 .. 2
       [] k = "args" -> {" ", "'", "\"", "a"}
       [] k = "bytes" -> {0}]

SomeLengths ==
  [k \in DOMAIN SomeCharacters |-> CASE k = "args" -> 7 [] k = "bytes" -> 14 [] OTHER -> 8]

=============================================================================
