--------------------------- MODULE MCConfiguration ---------------------------
(* A small instance of Configuration: two repositories, one directory.     *)
EXTENDS Configuration, TLC

MCDefault   == << <<"gh", "n", "*">> >>
MCFound ==
  {[env |-> None, repo |-> None, path |-> <<Deny>>],
   [env |-> [k \in {"token"} |-> "user"], repo |-> << <<"gh", "a", "**">> >>, path |-> << <<"w", "**">> >>]}

MCRequests  ==
  {[keys |-> {"endpoint"}, repo |-> None, path |-> None],
   [keys |-> {"endpoint", "token"}, repo |-> << <<"gh", "b", "*">>, Anything >>, path |-> << <<"w", "p">> >>],
   [keys |-> {}, repo |-> <<Anything>>, path |-> <<>>],
   [keys |-> {}, repo |-> <<>>, path |-> <<>>]}

MCEvents ==
  {[remotes |-> << <<>>, <<"gh", "a", "x">> >>, paths |-> << <<"w", "p">> >>]}

Permuted == Permutations(Commands)
=============================================================================
