-------------------------- MODULE MCAssistantTasks --------------------------
EXTENDS AssistantTasks, TLC

Symmetry == Permutations(Messages)
=============================================================================
