---------------------------- MODULE MCHookFiles ----------------------------
\* Two commands at a time on the file of one harness, with one fault and one change by
\* the user; a third command where a release, a path and a receipt have to meet.
EXTENDS HookFiles, TLC

\* Groups with one or two handlers, and files with up to two groups.
Lists == {<<>>, <<"own">>, <<"old">>, <<"apm", "u1">>, <<"u1", "own", "own">>}
Groups == {[match |-> m, source |-> s, extra |-> x, handlers |-> l] :
             m \in BOOLEAN, s \in BOOLEAN, x \in BOOLEAN, l \in Lists}
Second == {[match |-> m, source |-> FALSE, extra |-> FALSE, handlers |-> l] :
             m \in BOOLEAN, l \in {<<"u2">>, <<"u2", "own">>}}

MCDocs == {<<>>} \cup {<<g>> : g \in {x \in Groups : x.extra => ~x.source}}
            \cup {<<g, h>> : g \in {x \in Groups : ~x.extra /\ (x.match => ~x.source)}, h \in Second}

MCMaxCommands == [h \in Harnesses |-> IF h \in {"cline", "opencode"} THEN 3 ELSE 2]

Permuted == Permutations(Procs)
=============================================================================
