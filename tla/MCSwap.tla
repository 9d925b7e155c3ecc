------------------------------- MODULE MCSwap -------------------------------
EXTENDS Swap, TLC

MCPrefPrios == {1}
MCMinPrio == -1

\* Swap headers: a version-1 header whose bitmap marks both pages good.
MCHeaders == {V1Header({1, 2})}
====
