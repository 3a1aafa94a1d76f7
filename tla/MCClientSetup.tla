---------------------------- MODULE MCClientSetup ----------------------------
\* Lobbies "acme|x" with the code "k" and "acme" with "x|k", which share a key,
\* "acme" with "k", which the configuration spells "Acme"; two handles.  Fields
\* are blank at first, and what is typed is not, but for the handle.
EXTENDS ClientSetup

MCPart == {"", "/list", "ac", "acme", "Acme", "x", "k", "alice", "bob"}
MCLower == [p \in MCPart |-> IF p = "Acme" THEN "acme" ELSE p]
MCQuery == {<<"ac">>}
MCLobby == {<<"acme">>, <<"acme", "x">>}
MCCode == {<<"k">>, <<"x", "k">>}
MCHandle == {<<"">>, <<"alice">>, <<"bob">>}
MCConfig == [lobby |-> <<"Acme">>, code |-> Blank, handle |-> Blank]
MCMatches == {<<<<"ac">>, <<"acme">>>>}
=============================================================================
