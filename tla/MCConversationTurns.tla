------------------------- MODULE MCConversationTurns -------------------------
EXTENDS ConversationTurns, TLC
TurnSymmetry == Permutations(Turns) \cup Permutations(Controls)
=============================================================================
