--------------------------- MODULE MCMediaUpload ---------------------------
\* Instances of MediaUpload, over the texts of MCHub.
EXTENDS MediaUpload, MCHub

CONSTANTS u1, u2, laptopPort, desktopPort

FormOf(addr, token, handle, code, chan) ==
  [addr |-> addr, token |-> token, handle |-> handle, workspace |-> "acme", code |-> code,
   channel |-> chan]

\* Two uploads that race one session: by its own user into its channel, and by
\* somebody new into another one; with a wrong code or without a token too.
RaceForms == [u \in Upload |->
  IF u = u1 THEN {FormOf(laptopPort, "tokA", "Alice", "code1", " ")}
  ELSE {FormOf(desktopPort, "tokB", "bob", "code1", "Random"),
        FormOf(desktopPort, "tokB", "bob", "code2", "Random"),
        FormOf(desktopPort, " ", "bob", "code1", "Random")}]
RaceScripts == {[s \in Session |-> Hello("tokA", "alice") \o <<{Say("hi"), Rename("carol")}>>]}

\* The user of the session uploads one file from the same device.
OneForm == [u \in Upload |-> {FormOf(laptopPort, "tokA", "alice", "code1", "lobby")}]
OneScripts == {[s \in Session |-> Hello("tokA", "alice")]}
=============================================================================
