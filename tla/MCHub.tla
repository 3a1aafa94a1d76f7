------------------------------- MODULE MCHub -------------------------------
\* Instances of Hub: the texts clients send and what the string functions do
\* to them, and one script of events per run.
EXTENDS Hub

CONSTANTS s1, s2, s3, laptop, desktop

MCText == {"", " ", "acme", "beta", "lobby", "random", "Random", "dm-alice-bob", "dm-others", "code1", "code2",
           "alice", "Alice", "bob", "carol", "Bob", "!", "tokA", "tokB", "tokC", "hi", "fku", "flash", "all"}
MCTrim  == [t \in MCText |-> IF t = " " THEN "" ELSE t]
MCLower == [t \in MCText |-> CASE t = "Alice" -> "alice" [] t = "Bob" -> "bob" [] t = "Random" -> "random"
                               [] OTHER -> t]
MCHandlePattern == {"alice", "bob", "carol"}

Id(token, handle)   == [type |-> "identify", token |-> token, handle |-> handle]
Join(ws, code)      == [type |-> "join_workspace", workspace |-> ws, code |-> code]
Enter(name)         == [type |-> "join_channel", channel |-> name]
Say(body)           == [type |-> "send_message", body |-> body]
Emote(body)         == [type |-> "send_emote", body |-> body]
PingOne(h, effect)  == [type |-> "ping_user", handle |-> h, effect |-> effect, ms |-> 0]
PingEvery(effect)   == [type |-> "ping_all", effect |-> effect, ms |-> 0]
Rename(h)           == [type |-> "change_handle", handle |-> h]
Bare(type)          == [type |-> type]

TwoDevices   == [s \in Session |-> IF s = s1 THEN laptop ELSE desktop]

Hello(token, handle) == <<{Id(token, handle)}, {Join("acme", "code1")}>>
Pair(a, b) == [s \in Session |-> IF s = s1 THEN a ELSE b]

\* Two users in one workspace who talk, change channel and leave, beside a peer
\* that reads nothing: queues of one envelope fill up.
TalkScripts == {Pair(
  Hello("tokA", "Alice") \o <<{Say("hi"), Enter("Random")}>>,
  Hello("tokB", "bob") \o <<{Enter("random")}>>)}

\* Sessions of the same user, a handle taken over by another device, renames,
\* refused joins.
AccountsScript == Pair(
  <<{Id("tokA", "alice")}, {Join("acme", "code1")}, {Rename("Alice"), Rename("bob"), Rename("carol")},
    {Rename("alice"), Enter("random")}>>,
  <<{Id("tokA", " "), Id("tokB", "alice"), Id("tokB", "bob")},
    {Join("acme", "code1"), Join("acme", "code2")}, {Rename("carol"), Rename("bob"), Rename("!")}>>)

\* Two sessions of one user, or two users, that ping.
PingScript == Pair(
  Hello("tokA", "alice") \o <<{PingOne("bob", " "), PingOne("alice", "fku"), PingEvery("all")},
                              {PingOne("Bob", "fku"), PingOne("!", "fku"), PingEvery("all")}>>,
  <<{Id("tokA", "alice"), Id("tokB", "bob")}, {Join("acme", "code1")},
    {PingOne("bob", "all"), PingOne("alice", "fku"), PingEvery("fku"), PingEvery("all")}>>)

\* Two workspaces, each session in one of them; every event that changes no table.
Small == {Bare("typing_start"), Bare("typing_stop"), Bare("ping"), Bare("call"), Bare("unsupported"),
          Bare("request_history"), Bare("request_users"), Bare("request_channels")}
JoinEither == {Join("acme", "code1"), Join("beta", "code2")}
RoomsScript == Pair(
  <<{Id("tokA", "alice")}, JoinEither, {Say("hi")}, {Emote("hi")}>>,
  <<{Id("tokB", "bob")}, JoinEither, {Say("hi"), Enter("random")} \cup Small>>)

\* One workspace; joins repeated, events before their time and blank fields.
OneRoomScript == Pair(
  <<{Id("tokA", "alice"), Id(" ", "alice"), Id("tokA", "!")}, {Join("acme", "code1"), Join(" ", "code1")},
    {Enter("Random"), Enter(" "), Say("hi"), Join("acme", "code1")} \cup Small,
    {Say("hi"), Emote("hi"), Rename("carol")}>>,
  Hello("tokB", "bob") \o <<{Say("hi"), Enter("Random")}>>)

AllScripts == {AccountsScript, PingScript, RoomsScript, OneRoomScript}

MCEvents == UNION {UNION {UNION {f[s][k] : k \in DOMAIN f[s]} : s \in Session} : f \in Script}
              \cup {Bare("request_users")}

\* One user, on a connection of their own and on the one that replaces it.
TwinScripts == {[s \in Session |-> Hello("tokB", "bob")]}
=============================================================================
