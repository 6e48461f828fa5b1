------------------------ MODULE MCConversationMemory ------------------------
(* Instance of ConversationMemory for TLC: two responses at a time, under   *)
(* the limits of two different connections.  Brief summarises early and     *)
(* shortens its summaries; Full keeps turns, and leaves a summary of Brief  *)
(* longer than its own limit as it is until a turn leaves.                  *)
EXTENDS ConversationMemory

Brief == [idle |-> 2, recent |-> 1, threshold |-> 3, lines |-> 4, budget |-> 4]
Full  == [idle |-> 1, recent |-> 3, threshold |-> 4, lines |-> 1, budget |-> 2]

TwoKinds == {Brief, Full}

Permuted == Permutations(Responses)
=============================================================================
