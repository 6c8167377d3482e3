----------------------------- MODULE MCSotLint -----------------------------
(***************************************************************************)
(* A complete SoT of one topic and one rule, and the edits of two authors. *)
(***************************************************************************)
EXTENDS SotLint

Document(item, covers, prose, criterion) ==
    [form |-> "ok", id |-> 1, items |-> <<item>>, covers |-> covers, rules |-> <<"rule-a">>,
     status |-> None, marks |-> {},
     body |-> prose \o <<<<Heading(2, "acceptance")>>, <<Box, Id(item)>> \o criterion>>]

RuleDocument(id) ==
    [form |-> "ok", id |-> id, items |-> <<>>, covers |-> <<>>, rules |-> <<>>,
     status |-> "active", marks |-> {}, body |-> <<>>]

Cover(id) == [topic |-> None, id |-> id]

MCTree ==
    (<<"requirements", 1>> :> Document("FR-1", <<>>, <<<<Id("FR-1"), Word>>>>, <<Word>>)) @@
    (<<"specification", 1>> :>
        Document("SP-1", <<Cover("FR-1")>>, <<<<Tick(1), Id("SP-1"), Banned, Tick(1)>>>>,
                 <<Tick(1), Word, Tick(1)>>)) @@
    (<<"test-design", 1>> :>
        Document("TD-1", <<Cover("SP-1"), Cover("FR-1")>>,
                 <<<<Tick(3), Word>>, <<Hole>>, <<Tick(4)>>>>, <<Word>>)) @@
    (<<"rule", 1>> :> RuleDocument("rule-a"))

MCLines ==
    { <<Tick(3)>>, <<Tick(4), Word>>, <<Tick(3), Word, Tick(1), Word>>, <<Tilde(3)>>,
      <<Word, Banned>>, <<Tick(1), Banned, Tick(2), Hole, Tick(1)>>,
      <<Ref("FR-1"), Word, Id("SP-1")>>, <<Heading(1, "other")>>,
      <<Box, Id("FR-1")>>, <<Heading(2, "acceptance")>> }

MCFrontValues ==
    [k \in {"requirements", "specification", "test-design", "rule"} |->
        CASE k = "rule" -> [id |-> {None}, status |-> {None, "deprecated"}]
          [] k = "requirements" ->
                [id |-> {None}, marks |-> {{"banned"}},
                 items |-> {<<>>, <<"FR-1", "FR-1">>, <<"FR-1", "FR-2">>, <<"SP-1">>}]
          [] k = "specification" ->
                [covers |-> {<<Cover("FR-2")>>, <<Cover("SP-1")>>, <<Cover("hole")>>,
                             <<[topic |-> 2, id |-> "FR-1"]>>}]
          [] OTHER -> [rules |-> {<<"rule-b">>, <<"hole">>}, id |-> {2}]]

=============================================================================
