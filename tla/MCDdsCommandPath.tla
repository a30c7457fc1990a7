-------------------------- MODULE MCDdsCommandPath --------------------------
EXTENDS DdsCommandPath

\* One execution group, as in every robot profile of the repository.
OneGroup == [a \in Axes |-> 1]
=============================================================================
