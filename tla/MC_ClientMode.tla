--------------------------- MODULE MC_ClientMode ---------------------------
(* Instances of ClientMode: two client processes, four placeholder types  *)
(* over three object ids, command chains of three positions.              *)
EXTENDS ClientMode, TLC

CONSTANTS T1, T2, T3, T4, r0, r1, C

MCRanks == {r0, r1}
MCTypes == {T1, T2, T3, T4}
\* T4 is a name the parser does not resolve.
MCKnownTypes == {T1, T2, T3}
MCIds == {1, 2, 3}
\* T3 is a type with no objects in the loaded data.
MCObjects == (T1 :> {1, 2} @@ T2 :> {3} @@ T3 :> {} @@ T4 :> {})
MCObjectsAllTyped == (T1 :> {1, 2} @@ T2 :> {3} @@ T3 :> {2} @@ T4 :> {})
MCPositions == 1..3

Tpl(ok, str, pos) ==
  [ok |-> ok, str |-> str, pos |-> pos,
   chain |-> [p \in MCPositions |-> IF p \in ToSet(pos) THEN 1 ELSE C]]

\* The same two types in both orders, a type repeated in one template, a
\* parse error, and templates with the empty or the unknown type.
MCTemplatesCommon ==
  { Tpl(TRUE, <<T1, T2>>, <<1, 3>>), Tpl(TRUE, <<T2, T1>>, <<2, 1>>),
    Tpl(TRUE, <<T1, T1>>, <<1, 2>>), Tpl(FALSE, <<>>, <<>>) }
MCTemplates == MCTemplatesCommon \cup
  { Tpl(TRUE, <<T3>>, <<2>>), Tpl(TRUE, <<T4>>, <<2>>) }
MCTemplatesEmptyType == { Tpl(TRUE, <<T1, T3>>, <<1, 2>>) }
MCTemplatesNDEBUG == { Tpl(TRUE, <<T2>>, <<2>>) }

\* A query that parses, and a parse error.
MCQueries ==
  { [ok |-> TRUE, chain |-> [p \in MCPositions |-> IF p = 2 THEN 3 ELSE C]],
    [ok |-> FALSE, chain |-> [p \in MCPositions |-> C]] }

\* "file" alone leaves the count unset (any int), "file 0" or a negative
\* count is clamped to 1.
MCInputCounts == {-1, 0, 2}
=============================================================================
