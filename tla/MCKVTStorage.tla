---------------------------- MODULE MCKVTStorage ----------------------------
(* The paths /a, /a/b, /a/b/c and /a/d: a chain of three, so that the      *)
(* reference counts climb over two levels, and a fork, so that a climb     *)
(* stops at a node another branch keeps; a public and a private parameter. *)
EXTENDS KVTStorage, TLC

CONSTANTS p, s

MCNode == {"a", "ab", "abc", "ad"}
MCParent == [a |-> Root, ab |-> "a", abc |-> "ab", ad |-> "a"]
MCAbove == (Root :> {}) @@ ("a" :> {Root}) @@ ("ab" :> {"a", Root})
             @@ ("abc" :> {"ab", "a", Root}) @@ ("ad" :> {"a", Root})

MCParam == {p, s}
MCPrivate == {s}
=============================================================================
