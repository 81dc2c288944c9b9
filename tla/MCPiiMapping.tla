---------------------------- MODULE MCPiiMapping ----------------------------
(* Small instances of PiiMapping.                                          *)
EXTENDS PiiMapping, TLC
CONSTANTS ann, bob, eve, q1, q2, q3

\* Prompts of one message.
OneMessage == {<<m>> : m \in {<<>>, <<ann>>, <<bob>>, <<bob, ann>>, <<eve, bob>>}}
\* Of two or three: a conversation that is sent again with each request.
Several == {<<<<ann>>, <<bob, ann>>>>, <<<<ann, bob>>, <<ann>>, <<eve>>>>, <<<<bob>>, <<>>>>}

\* Both kinds.
Mixed == {<<<<ann>>>>, <<<<eve, bob>>>>, <<<<ann>>, <<bob>>>>, <<<<>>>>}

\* RequestOneToOne, AllRestored and SessionOneToOne without their conditions, as
\* requirements FR-2.5 and FR-2.7 state them: false in the code.
AlwaysOneToOne == \A r \in Requests : pc[r] = "waiting" => OneToOne(sent[r])
AlwaysRestored ==
    \A r \in Requests : pc[r] = "done" =>
        \A pair \in sent[r] : <<pair[2], pair[2]>> \in got[r]
AlwaysOneToOneInSession == OneToOne(UNION {sent[r] : r \in Requests})

Symmetry == Permutations(Requests)
=============================================================================
