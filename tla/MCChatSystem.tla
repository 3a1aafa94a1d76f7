--------------------------- MODULE MCChatSystem ---------------------------
\* Instances of ChatSystem: two clients, Alice's and Bob's, of two connections
\* each, and what they type.
EXTENDS ChatSystem, MCHub

CONSTANTS alice, bob, s4

MCConns   == [c \in Client |-> IF c = alice THEN <<s1, s3>> ELSE <<s2, s4>>]
MCHosts   == [s \in Session |-> IF s \in {s1, s3} THEN laptop ELSE desktop]
MCAccount == [c \in Client |->
  [handle |-> IF c = alice THEN "alice" ELSE "bob", token |-> IF c = alice THEN "tokA" ELSE "tokB",
   workspace |-> "acme", code |-> "code1", channel |-> "lobby"]]
MCDmName  == [p \in {{a, b} : a, b \in MCText} |-> IF p = {"alice", "bob"} THEN "dm-alice-bob" ELSE "dm-others"]
NoScript  == {[s \in Session |-> <<>>]}

Cmd(name)            == [cmd |-> name]
Talk(name)           == [cmd |-> name, body |-> "hi"]
GoTo(channel)        == [cmd |-> "/join", channel |-> channel]
To(name, handle)     == [cmd |-> name, handle |-> handle]
Effects(on)          == [cmd |-> "/effects", on |-> on]
Launch(h, effect, n) == [cmd |-> "/ping", handle |-> h, effect |-> effect, seconds |-> n]

Typing2(a, b) == [c \in Client |-> IF c = alice THEN a ELSE b]
Calm(a, b) == [keys |-> Typing2(a, b), dials |-> {s1, s2}, first |-> {}, reading |-> {s1},
               losing |-> {}, late |-> FALSE, restarts |-> 0]

\* Alice clears and restores what Bob writes; they enter channels by two
\* spellings and a direct one; Bob writes more than her screen keeps.
Reads == Calm(<<{Cmd("/clear")}, {Cmd("/restore")}>>, <<{Talk("say")}, {Talk("say")}>>)
Rooms == Calm(<<{GoTo("Random"), To("/dm", "Bob")}>>, <<{GoTo("random")}, {Talk("say")}>>)
Talks == [Calm(<<>>, <<{Talk("say")}, {Talk("say")}, {Talk("/emote")}>>) EXCEPT !.first = {s1}]
Asks  == [Calm(<<{To("/chandle", "carol"), Talk("/me")}>>,
               <<{Cmd("/users"), Cmd("/channels"), To("/dm", "alice")}>>) EXCEPT !.first = {s2}]

\* Alice renames herself or enters a channel, loses her connection at any time
\* and gets another one; or misses what Bob writes meanwhile.
Rejoins == [Calm(<<{To("/chandle", "carol"), GoTo("Random")}>>, <<>>)
            EXCEPT !.dials = {s1, s3}, !.reading = {s1, s3}, !.losing = {s1}]
Misses  == [Calm(<<>>, <<{Talk("say")}>>)
            EXCEPT !.dials = {s1, s2, s3}, !.reading = {s1, s3}, !.losing = {s1}, !.first = {s2}]

\* Bob renames himself or enters a channel, and leaves.
Leaves == [Calm(<<>>, <<{To("/chandle", "carol"), GoTo("random")}>>)
           EXCEPT !.losing = {s2}, !.late = TRUE, !.first = {s1}]

\* The server restarts and both come back.
Restarts == [Calm(<<>>, <<{Talk("say")}>>)
             EXCEPT !.dials = Session, !.reading = {s1, s3}, !.first = {s2}, !.restarts = 1]

\* Pings of many durations, with effects on, off or muted; 33 seconds are
\* negative in 16 bits, 66 seconds half a second.
Pings == [Calm(<<{Effects(FALSE), Effects(TRUE), To("/muteeffects", "Bob")}>>,
               <<{Launch("all", "fku", n) : n \in {0, 5, 33}}
                   \cup {Launch("Alice", "flash", n) : n \in {1, 20, 66}}>>) EXCEPT !.first = {s1}]

ViewPlans == {Reads, Rooms, Talks, Asks, Rejoins, Misses, Leaves, Restarts, Pings}

\* The server restarts, and Bob does not come back.
AloneAfter == {[Calm(<<>>, <<>>) EXCEPT !.dials = {s1, s2, s3}, !.reading = {s1, s3}, !.first = {s2},
                                        !.restarts = 1]}
=============================================================================
