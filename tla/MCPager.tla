------------------------------- MODULE MCPager -------------------------------
(* Panels for Pager: the bindings of a few modules, as functions. *)
EXTENDS Pager

CONSTANTS
  Panel,   \* which panel the run uses
  p1       \* a pot

\* "full":  two layers, the second in scope of page 0 only; a cycle over every page;
\*          a latch pair of pages 0 and 1.
\* "solo":  one layer.
MCKind ==
  CASE Panel = "full" -> <<"Shift", "Shift", "Cycle", "Latch">>
    [] Panel = "solo" -> <<"Shift">>

MCList == [b \in Bindings |-> << >>]

MCLayer ==
  CASE Panel = "full" -> <<3, 2, 0, 0>>
    [] Panel = "solo" -> <<1>>

MCPair == [b \in Bindings |-> IF Kind[b] = "Latch" THEN <<0, 1>> ELSE <<0, 0>>]

MCFrom ==
  CASE Panel = "full" -> <<{0, 1, 2}, {0}, {}, {0, 1}>>
    [] OTHER          -> [b \in Bindings |-> Pages]
-----------------------------------------------------------------------------
\* The buttons the player uses: all of a small panel, two at a time of the full one.
VARIABLE touched

Hands == IF Panel = "full" THEN {{1, 2}, {1, 3}, {1, 4}, {3, 4}} ELSE {Bindings}

PlayerInit == Init /\ touched \in Hands
PlayerNext == Next /\ down' \subseteq touched /\ UNCHANGED touched

\* The loop ticks for ever.
PlayerSpec == PlayerInit /\ [][PlayerNext]_<<vars, touched>> /\ WF_vars(Tick)
=============================================================================
