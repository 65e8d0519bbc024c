----------------------------- MODULE MCApplication -----------------------------
(* Two requests at one session; two commands among three sessions; three      *)
(* uploads to two drafts; two files and two messages of a session; a directory*)
(* of each format before a step that moves data, stopped twice.               *)
EXTENDS Application, TLC

CONSTANTS picture, other

\* A picture that is sent as a smaller copy; or one sent as it is, and a link.
Forms ==
  {[sent |-> [b \in Blob |-> other], links |-> {}, artifact |-> picture],
   [sent |-> [b \in Blob |-> b], links |-> {other}, artifact |-> picture]}

\* Sessions, groups and commands are told apart by nothing but what happens to them.
Alike == Permutations(Peer) \cup Permutations(Group) \cup Permutations(Command)
=============================================================================
