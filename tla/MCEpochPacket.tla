---------------------------- MODULE MCEpochPacket ----------------------------
(***************************************************************************)
(* Chains of epochs 0..4.  PoS starts at height 2.  Epoch 2 has a side     *)
(* block below or above that height, epoch 3 a skipped one.  Five PoS      *)
(* epochs were distributed: one at p1, one on a fork, two at p3, and one   *)
(* at a block that is no pivot.                                            *)
(***************************************************************************)
EXTENDS EpochPacket, TLC

MCPivot == [e \in 0..4 |-> <<"p0", "p1", "p2", "p3", "p4">>[e + 1]]
MCBlock == {"p0", "p1", "p2", "p3", "p4", "side", "skip"}
MCTx    == {"t", "u"}

\* The PoS references of the pivots, as views.
MCViews == {<<1, 1, 1, 1, 1>>, <<1, 1, 2, 2, 3>>, <<1, 2, 3, 3, 3>>, <<1, 1, 1, 3, 3>>, <<1, 2, 2, 3, 4>>}

\* The transactions of the side block, the skipped block and two pivots.
MCBodies == {<< <<>>, <<>>, <<>>, <<>> >>, << <<"t">>, <<"t", "u">>, <<"u">>, <<"t">> >>,
             << <<"u", "t">>, <<>>, <<"t">>, <<"t", "u">> >>}

\* The cells the fields that pass through take: little, so that all records fit
\* the smallest prefix, or much, so that some overflow even the largest.
MCWidth(wide) ==
    IF ~wide THEN [b \in MCBlock |-> 0]
    ELSE [b \in MCBlock |-> CASE b \in {"p2", "p4"}   -> 5
                             [] b \in {"side", "p3"} -> 2
                             [] OTHER               -> 0]

MCDatabase(views, low, bodies, events, rewards, zero, wide) ==
    [executed |-> [e \in 0..4 |-> IF e = 2 THEN <<"side", "p2">> ELSE <<MCPivot[e]>>],
     skipped  |-> [e \in 0..4 |-> IF e = 3 THEN <<"skip">> ELSE <<>>],
     height   |-> [e \in {MCPivot[f] : f \in 0..4} |-> CHOOSE f \in 0..4 : MCPivot[f] = e]
                  @@ ("side" :> low) @@ ("skip" :> 3),
     pos      |-> [e \in {MCPivot[f] : f \in 0..4} |-> views[(CHOOSE f \in 0..4 : MCPivot[f] = e) + 1]]
                  @@ ("side" :> views[2]) @@ ("skip" :> views[3]),
     version  |-> [v \in 1..4 |-> 2 * v],
     events   |-> events,
     rewards  |-> rewards,
     zero     |-> zero,
     width    |-> MCWidth(wide),
     target   |-> ("t" :> 1) @@ ("u" :> 4),
     body     |-> [b \in MCBlock |->
                     CASE b = "side" -> bodies[1]
                       [] b = "skip" -> bodies[2]
                       [] b = "p2"   -> bodies[3]
                       [] b = "p4"   -> bodies[4]
                       [] OTHER      -> <<>>]]

MCRewards == {<<>>, <<"p1", "fork", "p3", "p3", "side">>}

\* The wide records come with the low side block.
MCDatabases == {MCDatabase(views, low, bodies, events, rewards, zero, low = 1) :
                  views \in MCViews, low \in {1, 3}, bodies \in MCBodies,
                  events \in {{}, {2, 4, 6}, {3, 4, 5, 7}},
                  rewards \in MCRewards,
                  zero \in {{}, {"side"}}}

\* Packets whose records all fit the smallest prefix, with one cell to spare.
MCNarrowDatabases == {d \in MCDatabases : \A b \in MCBlock : d.width[b] = 0}

MCPrefixSizes == <<6, 7, 8, 9, 10>>
=============================================================================
