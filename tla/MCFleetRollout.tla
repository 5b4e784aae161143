--------------------------- MODULE MCFleetRollout ---------------------------
(* Instances of FleetRollout for TLC. *)
EXTENDS FleetRollout, TLC

(* A fleet of equal priorities, whose contacts order it, and an ordered one. *)
Fleet(groups, priorities) ==
  [h \in Hosts |-> [NewMeta EXCEPT !.group = groups[h], !.priority = priorities[h]]]
SomeFleets == {Fleet(<<0, 0, 1, 1>>, <<0, 0, 0, 0>>), Fleet(<<1, 1, 1, 0>>, <<3, 2, 1, 0>>)}

AnyHost == [ids |-> {}, groups |-> {}, tagsAll |-> {}, enabledOnly |-> FALSE, includePaused |-> FALSE]
SomeSelectors == {AnyHost,
                  [AnyHost EXCEPT !.groups = {1}, !.enabledOnly = TRUE, !.includePaused = TRUE],
                  [AnyHost EXCEPT !.tagsAll = {"web"}]}

NoPatch == [group |-> Keep, tags |-> Keep, add |-> {}, remove |-> {}, paused |-> Keep,
            priority |-> Keep, profile |-> Keep, enabled |-> Keep]
SomePatches == {[NoPatch EXCEPT !.paused = TRUE], [NoPatch EXCEPT !.paused = FALSE],
                [NoPatch EXCEPT !.enabled = FALSE],
                [NoPatch EXCEPT !.group = 1, !.add = {"web"}],
                [NoPatch EXCEPT !.profile = "strict"]}

Symmetry == Permutations(Rollouts) \cup Permutations(Editors)
=============================================================================
