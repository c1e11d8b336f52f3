--------------------------- MODULE MCRendererPlugins ---------------------------
(***************************************************************************)
(* Instance of RendererPlugins: two plugins compete for one slot per       *)
(* window, so that order, cap and squeeze all matter.                      *)
(***************************************************************************)
EXTENDS RendererPlugins

CONSTANTS a, b, x, raw

\* A plan from the order of its entries: pairs of plugin and fingerprint.
MCPlanOf(entries) ==
  LET At(p) == {i \in DOMAIN entries : entries[i][1] = p}
  IN [want |-> [p \in Plugins |-> IF At(p) = {} THEN Absent
                                  ELSE entries[CHOOSE i \in At(p) : TRUE][2]],
      rank |-> [p \in Plugins |-> IF At(p) = {} THEN 0
                                  ELSE (CHOOSE i \in At(p) : TRUE) - 1]]

\* From one to the other both plugins change rank, one keeps its fingerprint, and the
\* plugin that wins the only slot turns raw or sandboxed.
MCPlans == {MCPlanOf(<< <<a, x>>, <<b, x>> >>), MCPlanOf(<< <<b, raw>>, <<a, x>> >>)}
=============================================================================
