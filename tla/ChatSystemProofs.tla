-------------------------- MODULE ChatSystemProofs --------------------------
(***************************************************************************)
(* Proofs about the hub and its clients together, for any clients,         *)
(* connections, accounts and plans.                                        *)
(***************************************************************************)
EXTENDS ChatSystem, HubProofs

-----------------------------------------------------------------------------
(* The types of the system.                                                *)

ViewFields == {"handle", "current", "msgs", "cleared", "pres", "roster", "pane", "effects", "muted",
               "effect", "touched", "refused"}

\* A screen has its fields, and the names on it are texts.
ViewOK(v) == ViewFields \subseteq DOMAIN v /\ v.handle \in Text /\ v.current \in Text

ClientTypes ==
  /\ queued \in [Client -> Seq(EventType)]
  /\ typing \in [Client -> Seq(SUBSET CommandType)]
  /\ view = [c \in Client |-> view[c]] /\ \A c \in Client : ViewOK(view[c])

SysTypes == HubInv /\ TodoOK /\ TypeInv /\ ClientTypes

\* A step of the system is one of the hub alone, or one that only the system has.
LEMMA SystemStep ==
  ASSUME [SysNext]_sysVars
  PROVE  \/ [Next]_vars
         \/ \E c \in Client : \E s \in Session : Send(c, s)
         \/ \E s \in Session : Lose(s)
         \/ Restart
<1>1. ASSUME NEW c \in Client, NEW i \in DOMAIN Conns[c], Dial(c, i) PROVE [Next]_vars
  <2>1. Conns[c][i] \in Session /\ Register(Conns[c][i])
    BY <1>1, ChatSystemAssumption DEF ChatSystemAssumption, Dial
  <2> QED BY <2>1 DEF Next, Pump
<1>2. ASSUME NEW c \in Client, NEW s \in Session, Show(c, s) PROVE [Next]_vars
  BY <1>2 DEF Show, Next, Pump
<1>3. ASSUME NEW c \in Client, Type(c) \/ EndEffect(c) PROVE [Next]_vars
  BY <1>3 DEF Type, EndEffect
<1>4. CASE (\E s \in Session : RemoveSession(s)) \/ (\E b \in spawned : RunSpawned(b)) \/ Post \/ Handle
  BY <1>4 DEF Next, Pump
<1>5. CASE UNCHANGED sysVars
  BY <1>5 DEF sysVars
<1> QED BY <1>1, <1>2, <1>3, <1>4, <1>5 DEF SysNext

LEMMA SysCases ==
  ASSUME [SysNext]_sysVars
  PROVE  \/ \E c \in Client : \E i \in DOMAIN Conns[c] : Dial(c, i)
         \/ \E c \in Client : \E s \in Session : Show(c, s)
         \/ \E c \in Client : \E s \in Session : Send(c, s)
         \/ \E c \in Client : Type(c) \/ EndEffect(c)
         \/ \E s \in Session : Lose(s)
         \/ Restart
         \/ /\ \/ (\E s \in Session : RemoveSession(s)) \/ (\E b \in spawned : RunSpawned(b))
               \/ Post \/ Handle
            /\ UNCHANGED clientVars
         \/ UNCHANGED sysVars
BY DEF SysNext

\* What only the system does keeps the hub's types: a client's event has the
\* fields of its type, and a restart leaves the sessions' fields and the tables.
LEMMA SendKeepsTypes ==
  ASSUME SysTypes, NEW c \in Client, NEW s \in Session, Send(c, s)
  PROVE  HubInv' /\ TodoOK' /\ TypeInv'
<1> DEFINE e == Head(queued[c])
<1>1. /\ Read(s, e) /\ todo' = todo /\ queued[c] # <<>>
      /\ inbound' = Append(inbound, [from |-> s, event |-> e]) /\ Len(inbound) < InboundCap
      /\ UNCHANGED <<link, sessions, scoped, closed, sess, sendq, lost, presence, lastPing, now, db, outbox, spawned>>
  BY DEF Send, Read, table, wire
<1>2. e \in EventType
  BY <1>1, HeadTailProperties DEF SysTypes, ClientTypes
<1>3. inbound' \in Seq([from : Session, event : EventType]) /\ Len(inbound') <= InboundCap
  <2>1. inbound \in Seq([from : Session, event : EventType]) /\ InboundCap \in Nat
    BY HubAssumption DEF SysTypes, HubInv, CoreOK, HubAssumption
  <2> HIDE DEF e
  <2> QED BY <1>1, <1>2, <2>1, AppendProperties
<1> HIDE DEF e
<1>4. HubInv' /\ TodoOK'
  BY <1>1, <1>3, QuietStep DEF SysTypes, TodoOK
<1>5. PresenceOK' /\ QueueTypes' /\ LinkOK' /\ TablesRefer' /\ ScopedTyped' /\ Capacities' /\ Clock'
  <2> HIDE DEF Out, EnvelopeType
  <2> QED BY <1>1, <1>3 DEF SysTypes, TypeInv, PresenceOK, QueueTypes, LinkOK, TablesRefer, ScopedTyped, Capacities, Clock
<1> QED BY <1>1, <1>4, <1>5 DEF SysTypes, TypeInv

LEMMA LoseKeepsTypes ==
  ASSUME SysTypes, NEW s \in Session, Lose(s)
  PROVE  HubInv' /\ TodoOK' /\ TypeInv'
<1>1. /\ link' = [link EXCEPT ![s] = "ended"]
      /\ UNCHANGED <<todo, inbound, sessions, scoped, closed, sess, sendq, lost, presence, lastPing, now, db, outbox, spawned>>
  BY DEF Lose, table, wire
<1>2. HubInv' /\ TodoOK'
  BY <1>1, QuietStep DEF SysTypes, TodoOK, HubInv, CoreOK
<1>3. PresenceOK' /\ QueueTypes' /\ LinkOK' /\ TablesRefer' /\ ScopedTyped' /\ Capacities' /\ Clock'
  <2> HIDE DEF Out, EnvelopeType
  <2> QED BY <1>1 DEF SysTypes, TypeInv, PresenceOK, QueueTypes, LinkOK, TablesRefer, ScopedTyped, Capacities, Clock
<1> QED BY <1>1, <1>2, <1>3 DEF SysTypes, TypeInv

LEMMA RestartKeepsTypes ==
  ASSUME SysTypes, Restart
  PROVE  HubInv' /\ TodoOK' /\ TypeInv'
<1>1. /\ link' = [s \in Session |-> IF link[s] = "new" THEN "new" ELSE "gone"]
      /\ sessions' = {} /\ scoped' = {} /\ closed' = closed \cup sessions
      /\ sendq' = [s \in Session |-> <<>>] /\ inbound' = <<>> /\ outbox' = <<>> /\ spawned' = {}
      /\ presence' = <<>> /\ lastPing' = <<>>
      /\ todo' = todo /\ sess' = sess /\ lost' = lost /\ now' = now /\ db' = db
  BY DEF Restart
<1>2. HubInv' /\ TodoOK'
  <2>1. inbound' \in Seq([from : Session, event : EventType])
    BY <1>1, EmptySeq
  <2> QED BY <1>1, <2>1, QuietStep DEF SysTypes, TodoOK
<1>3. PresenceOK' /\ LinkOK' /\ ScopedTyped'
  BY <1>1 DEF PresenceOK, LinkOK, ScopedTyped
<1>4. QueueTypes'
  <2> HIDE DEF Out, EnvelopeType
  <2> QED BY <1>1 DEF QueueTypes
<1>5. TablesRefer'
  BY <1>1 DEF SysTypes, TypeInv, TablesRefer
<1>6. Capacities' /\ Clock'
  BY <1>1, HubAssumption DEF SysTypes, TypeInv, Capacities, Clock, HubAssumption
<1>7. closed' \cup lost' \subseteq Session
  BY <1>1 DEF SysTypes, TypeInv, LinkOK
<1> QED BY <1>2, <1>3, <1>4, <1>5, <1>6, <1>7 DEF TypeInv

LEMMA HubTypesStep ==
  ASSUME SysTypes, [SysNext]_sysVars
  PROVE  HubInv' /\ TodoOK' /\ TypeInv'
<1>1. CASE [Next]_vars
  BY <1>1, HubStep, TodoStep, TypeInvStep DEF SysTypes
<1> QED BY <1>1, SystemStep, SendKeepsTypes, LoseKeepsTypes, RestartKeepsTypes
-----------------------------------------------------------------------------
(* What envelopes and commands do to a screen.                             *)

\* What an envelope does to the parts of a screen that the properties are about.
LEMMA ApplyFields ==
  ASSUME NEW v, ViewFields \subseteq DOMAIN v, NEW env
  PROVE  LET w == Apply(v, env) IN
         /\ ViewFields \subseteq DOMAIN w /\ w.cleared = v.cleared
         /\ w.handle = IF env.type = "identified" THEN env.handle
                       ELSE IF env.type = "handle_changed" /\ v.handle = env.old THEN env.handle
                       ELSE v.handle
         /\ w.current = IF env.type \in {"workspace_joined", "channel_joined"} THEN env.chan[2] ELSE v.current
         /\ w.refused = IF env.type \in {"workspace_joined", "channel_joined"} THEN FALSE
                        ELSE IF env.type = "error" THEN TRUE ELSE v.refused
         /\ w.msgs = IF env.type = "history_batch" THEN With(v.msgs, env.chan[2], env.msgs)
                     ELSE IF env.type \in {"message_new", "emote_new"}
                       THEN With(v.msgs, env.chan[2], AppendMessage(At(v.msgs, env.chan[2], <<>>), env.msgs))
                     ELSE v.msgs
         /\ \/ w.effect = v.effect
            \/ env.type = "ping_effect" /\ w.effect = env.effect
<1> DEFINE w == Apply(v, env)
           name == env.chan[2]
<1>1. CASE env.type = "identified"
  BY <1>1 DEF Apply, ViewFields
<1>2. CASE env.type = "workspace_joined"
  BY <1>2 DEF Apply, ViewFields, Enters
<1>3. CASE env.type = "users_list"
  BY <1>3 DEF Apply, ViewFields, Rebuilt
<1>4. CASE env.type = "channel_joined"
  BY <1>4 DEF Apply, ViewFields, Enters
<1>5. CASE env.type = "history_batch"
  BY <1>5 DEF Apply, ViewFields
<1>6. CASE env.type \in {"message_new", "emote_new"}
  BY <1>6 DEF Apply, ViewFields
<1>7. CASE env.type = "presence_update"
  BY <1>7 DEF Apply, ViewFields, Rebuilt, WithPresences
<1>8. CASE env.type = "handle_changed"
  BY <1>8 DEF Apply, ViewFields, Renamed
<1>9. CASE env.type = "ping_effect"
  BY <1>9 DEF Apply, ViewFields
<1>10. CASE env.type = "error"
  BY <1>10 DEF Apply, ViewFields
<1>11. CASE env.type \notin {"identified", "workspace_joined", "users_list", "channel_joined", "history_batch",
                            "message_new", "emote_new", "presence_update", "handle_changed", "ping_effect", "error"}
  BY <1>11 DEF Apply
<1> QED BY <1>1, <1>2, <1>3, <1>4, <1>5, <1>6, <1>7, <1>8, <1>9, <1>10, <1>11

\* What a command does to them.
LEMMA TypedFields ==
  ASSUME NEW v, ViewFields \subseteq DOMAIN v, NEW cmd
  PROVE  LET w == Typed(v, cmd)
             here == At(v.msgs, v.current, <<>>)
             saved == At(v.cleared, v.current, <<>>)
         IN
         /\ ViewFields \subseteq DOMAIN w /\ w.handle = v.handle /\ w.refused = v.refused
         /\ w.effect \in {v.effect, NoEffect}
         /\ \/ w.current = v.current
            \/ cmd.cmd = "/join" /\ w.current = cmd.channel
            \/ cmd.cmd = "/dm" /\ Clean(cmd.handle) # v.handle /\ w.current = DmChannel(v, cmd.handle)
         /\ \/ w.msgs = v.msgs /\ w.cleared = v.cleared
            \/ /\ w.msgs = Without(v.msgs, v.current)
               /\ w.cleared = IF here # <<>> THEN With(v.cleared, v.current, here) ELSE v.cleared
            \/ /\ saved # <<>> /\ w.msgs = With(v.msgs, v.current, saved)
               /\ w.cleared = Without(v.cleared, v.current)
<1> DEFINE here == At(v.msgs, v.current, <<>>)
           saved == At(v.cleared, v.current, <<>>)
           kept == IF here # <<>> THEN With(v.cleared, v.current, here) ELSE v.cleared
           left == Without(v.msgs, v.current)
           back == With(v.msgs, v.current, saved)
           rest == Without(v.cleared, v.current)
<1>1. CASE cmd.cmd = "/join"
  BY <1>1 DEF Typed, ViewFields
<1>2. CASE cmd.cmd = "/dm" /\ Clean(cmd.handle) # v.handle
  <2> DEFINE d == DmChannel(v, cmd.handle)
  <2>1. Typed(v, cmd) = [v EXCEPT !.current = d]
    BY <1>2 DEF Typed
  <2> HIDE DEF d
  <2> QED BY <1>2, <2>1 DEF ViewFields, d
<1>3. CASE cmd.cmd = "/clear"
  <2> DEFINE marked == v.touched \cup {v.current}
  <2>1. Typed(v, cmd) = [v EXCEPT !.cleared = kept, !.msgs = left, !.touched = marked]
    BY <1>3, Zenon DEF Typed
  <2> HIDE DEF kept, left, marked
  <2>2. /\ ViewFields \subseteq DOMAIN Typed(v, cmd) /\ Typed(v, cmd).handle = v.handle
        /\ Typed(v, cmd).refused = v.refused /\ Typed(v, cmd).effect = v.effect
        /\ Typed(v, cmd).current = v.current /\ Typed(v, cmd).cleared = kept /\ Typed(v, cmd).msgs = left
    BY <2>1 DEF ViewFields
  <2> QED BY <2>2 DEF kept, left
<1>4. CASE cmd.cmd = "/restore" /\ saved # <<>>
  <2> DEFINE marked == v.touched \cup {v.current}
  <2>1. Typed(v, cmd) = [v EXCEPT !.msgs = back, !.cleared = rest, !.touched = marked]
    BY <1>4, Zenon DEF Typed
  <2> HIDE DEF back, rest, marked
  <2>2. /\ ViewFields \subseteq DOMAIN Typed(v, cmd) /\ Typed(v, cmd).handle = v.handle
        /\ Typed(v, cmd).refused = v.refused /\ Typed(v, cmd).effect = v.effect
        /\ Typed(v, cmd).current = v.current /\ Typed(v, cmd).cleared = rest /\ Typed(v, cmd).msgs = back
    BY <2>1 DEF ViewFields
  <2> QED BY <1>4, <2>2 DEF back, rest
<1>5. CASE cmd.cmd = "/effects"
  BY <1>5 DEF Typed, ViewFields
<1>6. CASE cmd.cmd = "/muteeffects"
  <2> DEFINE h == Clean(cmd.handle)
             m == IF h \in v.muted THEN v.muted \ {h} ELSE v.muted \cup {h}
  <2>1. Typed(v, cmd) = [v EXCEPT !.muted = m]
    BY <1>6 DEF Typed
  <2> HIDE DEF m
  <2> QED BY <2>1 DEF ViewFields
<1>7. CASE /\ cmd.cmd \notin {"/join", "/clear", "/effects", "/muteeffects"}
           /\ ~(cmd.cmd = "/dm" /\ Clean(cmd.handle) # v.handle)
           /\ ~(cmd.cmd = "/restore" /\ saved # <<>>)
  BY <1>7 DEF Typed
<1> QED BY <1>1, <1>2, <1>3, <1>4, <1>5, <1>6, <1>7

\* A command has the fields its name calls for.
LEMMA CommandTyped ==
  ASSUME NEW cmd \in CommandType
  PROVE  /\ cmd.cmd \in {"say", "/me", "/emote"} => cmd.body \in Text
         /\ cmd.cmd = "/join" => cmd.channel \in Text
         /\ cmd.cmd \in {"/dm", "/chandle", "/muteeffects"} => cmd.handle \in Text
         /\ cmd.cmd = "/ping" => cmd.handle \in Text /\ cmd.effect \in Text /\ cmd.seconds \in Int
  BY DEF CommandType

LEMMA DmTyped ==
  ASSUME NEW v, ViewOK(v), NEW h \in Text
  PROVE  DmChannel(v, h) \in Text
<1> DEFINE x == Clean(v.handle)
           y == Clean(h)
           both == {x, y}
           names == {{a, b} : a, b \in Text}
<1>1. x \in Text /\ y \in Text
  BY CleanTyped DEF ViewOK
<1>2. DmName \in [names -> Text]
  BY ChatClientAssumption DEF ChatClientAssumption
<1>3. DmChannel(v, h) = DmName[both]
  BY DEF DmChannel
<1> HIDE DEF x, y
<1>4. both \in names
  BY <1>1
<1> HIDE DEF names, both
<1> QED BY <1>2, <1>3, <1>4

\* A command sends events of the protocol, and the one that changes the
\* channel on the screen sends an event that enters it.
LEMMA SentEvents ==
  ASSUME NEW v, ViewOK(v), NEW cmd \in CommandType
  PROVE  /\ Sent(v, cmd) \in Seq(EventType) /\ ViewOK(Typed(v, cmd))
         /\ \/ Typed(v, cmd).current = v.current
            \/ \E i \in DOMAIN Sent(v, cmd) : Entering(Sent(v, cmd)[i])
<1>1. ViewFields \subseteq DOMAIN v /\ v.handle \in Text /\ v.current \in Text
  BY DEF ViewOK
<1> DEFINE w == Typed(v, cmd)
<1>2. /\ ViewFields \subseteq DOMAIN w /\ w.handle \in Text
      /\ \/ w.current = v.current
         \/ cmd.cmd = "/join" /\ w.current = cmd.channel
         \/ cmd.cmd = "/dm" /\ Clean(cmd.handle) # v.handle /\ w.current = DmChannel(v, cmd.handle)
  BY <1>1, TypedFields
<1> HIDE DEF w
<1>3. ViewOK(w)
  BY <1>1, <1>2, CommandTyped, DmTyped DEF ViewOK
<1>4. CASE cmd.cmd \in {"say", "/me", "/emote", "/chandle", "/users", "/channels"}
  <2>1. \E e \in EventType : Sent(v, cmd) = <<e>>
    BY <1>4, CommandTyped DEF Sent, EventType
  <2> QED BY <1>2, <1>3, <1>4, <2>1 DEF w
<1>5. CASE cmd.cmd = "/join"
  <2> DEFINE e == [type |-> "join_channel", channel |-> cmd.channel]
  <2>1. e \in EventType /\ Sent(v, cmd) = <<e>>
    BY <1>5, CommandTyped DEF Sent, EventType
  <2>2. Entering(e)
    BY DEF Entering
  <2> HIDE DEF e
  <2> QED BY <1>3, <2>1, <2>2 DEF w
<1>6. CASE cmd.cmd = "/dm" /\ Clean(cmd.handle) # v.handle
  <2> DEFINE d == DmChannel(v, cmd.handle)
             e == [type |-> "join_channel", channel |-> d]
  <2>1. d \in Text /\ Sent(v, cmd) = <<e>>
    BY <1>6, CommandTyped, DmTyped DEF Sent
  <2> HIDE DEF d
  <2>2. e \in EventType /\ Entering(e)
    BY <2>1 DEF EventType, Entering
  <2> HIDE DEF e
  <2> QED BY <1>3, <2>1, <2>2 DEF w
<1>7. CASE cmd.cmd = "/ping"
  <2> DEFINE h == Clean(cmd.handle)
             n == DurationMS(cmd.seconds)
             a == [type |-> "ping_all", effect |-> cmd.effect, ms |-> n]
             b == [type |-> "ping_user", handle |-> h, effect |-> cmd.effect, ms |-> n]
  <2>1. cmd.handle \in Text /\ cmd.effect \in Text /\ cmd.seconds \in Int /\ h \in Text
    BY <1>7, CommandTyped, CleanTyped
  <2>2. n \in Int
    BY <2>1, ChatClientAssumption DEF ChatClientAssumption, DurationMS, Wrapped
  <2>3. Sent(v, cmd) \in {<<a>>, <<b>>}
    BY <1>7 DEF Sent, PingEvent
  <2> HIDE DEF h, n
  <2>4. a \in EventType /\ b \in EventType
    BY <2>1, <2>2 DEF EventType
  <2> HIDE DEF a, b
  <2>5. \E e \in EventType : Sent(v, cmd) = <<e>>
    BY <2>3, <2>4
  <2>6. w.current = v.current
    BY <1>2, <1>7
  <2> QED BY <1>3, <2>5, <2>6 DEF w
<1>8. CASE /\ cmd.cmd \notin {"say", "/me", "/emote", "/chandle", "/users", "/channels", "/join", "/ping"}
           /\ ~(cmd.cmd = "/dm" /\ Clean(cmd.handle) # v.handle)
  <2>1. Sent(v, cmd) = <<>>
    BY <1>8 DEF Sent
  <2> QED BY <1>2, <1>3, <1>8, <2>1 DEF w
<1> QED BY <1>4, <1>5, <1>6, <1>7, <1>8

LEMMA ResyncTyped ==
  ASSUME NEW c \in Client
  PROVE  Resync(c) \in Seq(EventType) /\ Len(Resync(c)) = 3
<1> DEFINE a == Account[c]
           e1 == [type |-> "identify", token |-> a.token, handle |-> a.handle]
           e2 == [type |-> "join_workspace", workspace |-> a.workspace, code |-> a.code]
           e3 == [type |-> "join_channel", channel |-> a.channel]
<1>1. a \in [handle : Text, token : Text, workspace : Text, code : Text, channel : Text]
  BY ChatSystemAssumption DEF ChatSystemAssumption
<1>2. Resync(c) = <<e1, e2, e3>>
  BY DEF Resync
<1> HIDE DEF a
<1>3. e1 \in EventType /\ e2 \in EventType /\ e3 \in EventType
  BY <1>1 DEF EventType
<1> HIDE DEF e1, e2, e3
<1> QED BY <1>2, <1>3

\* What is typed of an envelope that the steps below look at.
LEMMA EnvelopeTexts ==
  ASSUME NEW env \in EnvelopeType
  PROVE  /\ env.chan \in Channel /\ env.chan[2] \in Text /\ env.msgs \in Seq(Nat)
         /\ env.handle \in Text /\ env.old \in Text
<1>1. /\ env.chan \in Channel /\ env.msgs \in Seq(Nat) /\ env.handle \in Text /\ env.old \in Text
  BY DEF EnvelopeType
<1> QED BY <1>1 DEF Channel

LEMMA ShowTyped ==
  ASSUME SysTypes, NEW c \in Client, NEW s \in Session, Show(c, s)
  PROVE  /\ Head(sendq[s]) \in EnvelopeType /\ sendq[s] \in Seq(EnvelopeType) /\ sendq[s] # <<>>
         /\ ViewOK(Apply(view[c], Head(sendq[s]))) /\ Answer(Head(sendq[s])) \in Seq(EventType)
<1> DEFINE env == Head(sendq[s])
           v == view[c]
           w == Apply(v, env)
<1>1. sendq[s] \in Seq(EnvelopeType) /\ sendq[s] # <<>>
  BY DEF SysTypes, TypeInv, QueueTypes, Show, WriteOut
<1>2. env \in EnvelopeType
  <2> HIDE DEF EnvelopeType
  <2> QED BY <1>1, HeadTailProperties
<1>3. ViewFields \subseteq DOMAIN v /\ v.handle \in Text /\ v.current \in Text
  BY DEF SysTypes, ClientTypes, ViewOK
<1> HIDE DEF env, v
<1>4. ViewOK(w)
  BY <1>2, <1>3, ApplyFields, EnvelopeTexts DEF ViewOK
<1>5. Answer(env) \in Seq(EventType)
  <2> DEFINE e == [type |-> "request_users"]
  <2>1. e \in EventType
    BY DEF EventType
  <2>2. Answer(env) = <<e>> \/ Answer(env) = <<>>
    BY DEF Answer
  <2> HIDE DEF e
  <2>3. <<e>> \in Seq(EventType) /\ <<>> \in Seq(EventType)
    BY <2>1
  <2> QED BY <2>2, <2>3
<1> QED BY <1>1, <1>2, <1>4, <1>5 DEF w, v, env

LEMMA ClientTypesStep ==
  ASSUME SysTypes, [SysNext]_sysVars
  PROVE  ClientTypes'
<1>1. /\ queued \in [Client -> Seq(EventType)] /\ typing \in [Client -> Seq(SUBSET CommandType)]
      /\ view = [c \in Client |-> view[c]] /\ \A c \in Client : ViewOK(view[c])
  BY DEF SysTypes, ClientTypes
<1>2. ASSUME NEW c \in Client, NEW more \in Seq(EventType), queued' = [queued EXCEPT ![c] = @ \o more]
      PROVE  queued' \in [Client -> Seq(EventType)]
  <2>1. queued[c] \o more \in Seq(EventType)
    BY <1>1, ConcatProperties
  <2> QED BY <1>1, <1>2, <2>1
<1>3. ASSUME NEW c \in Client, NEW w, ViewOK(w), view' = [view EXCEPT ![c] = w]
      PROVE  view' = [d \in Client |-> view'[d]] /\ \A d \in Client : ViewOK(view'[d])
  <2>1. \A d \in Client : view'[d] = IF d = c THEN w ELSE view[d]
    BY <1>1, <1>3
  <2>2. DOMAIN view' = Client
    BY <1>1, <1>3
  <2> QED BY <1>1, <1>3, <2>1, <2>2
<1>4. ASSUME NEW c \in Client, NEW i \in DOMAIN Conns[c], Dial(c, i) PROVE ClientTypes'
  BY <1>1, <1>2, <1>4, ResyncTyped DEF Dial, ClientTypes
<1>5. ASSUME NEW c \in Client, NEW s \in Session, Show(c, s) PROVE ClientTypes'
  <2> DEFINE w == Apply(view[c], Head(sendq[s]))
             more == Answer(Head(sendq[s]))
  <2>1. ViewOK(w) /\ more \in Seq(EventType)
    BY <1>5, ShowTyped
  <2>2. view' = [view EXCEPT ![c] = w] /\ queued' = [queued EXCEPT ![c] = @ \o more] /\ typing' = typing
    BY <1>5 DEF Show
  <2> HIDE DEF w, more
  <2> QED BY <1>1, <1>2, <1>3, <2>1, <2>2 DEF ClientTypes
<1>6. ASSUME NEW c \in Client, NEW s \in Session, Send(c, s) PROVE ClientTypes'
  <2>1. Tail(queued[c]) \in Seq(EventType)
    BY <1>1, <1>6, HeadTailProperties DEF Send
  <2> QED BY <1>1, <1>6, <2>1 DEF Send, ClientTypes
<1>7. ASSUME NEW c \in Client, Type(c) PROVE ClientTypes'
  <2>1. PICK cmd \in Head(typing[c]) : /\ view' = [view EXCEPT ![c] = Typed(@, cmd)]
                                       /\ queued' = [queued EXCEPT ![c] = @ \o Sent(view[c], cmd)]
    BY <1>7 DEF Type
  <2>2. typing[c] # <<>> /\ typing' = [typing EXCEPT ![c] = Tail(@)]
    BY <1>7 DEF Type
  <2>3. Head(typing[c]) \in SUBSET CommandType /\ Tail(typing[c]) \in Seq(SUBSET CommandType)
    BY <1>1, <2>2, HeadTailProperties
  <2>4. typing' \in [Client -> Seq(SUBSET CommandType)]
    BY <1>1, <2>2, <2>3
  <2> DEFINE w == Typed(view[c], cmd)
             more == Sent(view[c], cmd)
  <2>5. ViewOK(w) /\ more \in Seq(EventType)
    BY <1>1, <2>3, SentEvents
  <2>6. view' = [view EXCEPT ![c] = w] /\ queued' = [queued EXCEPT ![c] = @ \o more]
    BY <2>1
  <2> HIDE DEF w, more
  <2> QED BY <1>1, <1>2, <1>3, <2>4, <2>5, <2>6 DEF ClientTypes
<1>8. ASSUME NEW c \in Client, EndEffect(c) PROVE ClientTypes'
  <2> DEFINE w == [view[c] EXCEPT !.effect = NoEffect]
  <2>1. view' = [view EXCEPT ![c] = w] /\ UNCHANGED <<queued, typing>>
    BY <1>8 DEF EndEffect
  <2>2. ViewOK(w)
    BY <1>1 DEF ViewOK, ViewFields
  <2> HIDE DEF w
  <2> QED BY <1>1, <1>3, <2>1, <2>2 DEF ClientTypes
<1>9. CASE UNCHANGED <<view, queued, typing>>
  BY <1>1, <1>9 DEF ClientTypes
<1>10. CASE Restart \/ (\E s \in Session : Lose(s)) \/ UNCHANGED sysVars
  BY <1>9, <1>10 DEF Restart, Lose, sysVars, clientVars
<1> QED BY <1>4, <1>5, <1>6, <1>7, <1>8, <1>9, <1>10 DEF SysNext, clientVars

LEMMA SysTypesInvariant == SysSpec => []SysTypes
<1>1. SysInit => SysTypes
  <2> SUFFICES ASSUME SysInit PROVE SysTypes
    OBVIOUS
  <2>1. HubInv /\ TodoOK /\ TypeInv
    BY HubInit, TypeInit DEF SysInit
  <2>2. queued \in [Client -> Seq(EventType)]
    BY DEF SysInit
  <2>3. typing \in [Client -> Seq(SUBSET CommandType)]
    BY ChatSystemAssumption DEF SysInit, ChatSystemAssumption
  <2>4. view = [c \in Client |-> view[c]] /\ \A c \in Client : ViewOK(view[c])
    <3>1. \A c \in Client : view[c] = NewView(Account[c])
      BY DEF SysInit
    <3>2. \A c \in Client : ViewOK(NewView(Account[c]))
      BY ChatSystemAssumption DEF ChatSystemAssumption, ViewOK, ViewFields, NewView
    <3> QED BY <3>1, <3>2 DEF SysInit
  <2> QED BY <2>1, <2>2, <2>3, <2>4 DEF SysTypes, ClientTypes
<1>2. SysTypes /\ [SysNext]_sysVars => SysTypes'
  BY HubTypesStep, ClientTypesStep DEF SysTypes
<1> QED BY <1>1, <1>2, PTL DEF SysSpec
-----------------------------------------------------------------------------
(* What handlers say, beyond its type: what the screens rely on.           *)

News == {"message_new", "emote_new"}
Entered(env) == env.type \in {"workspace_joined", "channel_joined"}
EffectTimes == 900..10000

\* The sessions in the hub's map once the handler has run.
Attended == {t \in Session : \E p \in scoped' : p[2] = t}

\* News is told to the workspace it was saved in, of the session's channel.
Saves(o) ==
  /\ SendMessage /\ o.to = Members(sess[Sender].ws) /\ o.env.chan = sess[Sender].current /\ o.env.chan # NoChannel
  /\ SavedId \in DOMAIN db'.messages /\ db'.messages[SavedId].chan = o.env.chan
Current(chan) == chan = sess'[Sender].current /\ chan # NoChannel

Tells(o) ==
  /\ o.to \subseteq {Sender} \cup Attended
  /\ o.env.type = "ping_effect" => o.env.effect.ms \in EffectTimes
  /\ Answering(o.env) => o.to = {Sender}
  /\ Entered(o.env) => o.env.chan = sess'[Sender].current
  /\ o.env.type \in News => outbox' = <<o>> /\ o.env.msgs = <<SavedId>> /\ Saves(o)
  /\ o.env.type = "history_batch" =>
       o.to = {Sender} /\ o.env.msgs = ListHistory(db', o.env.chan) /\ Current(o.env.chan)
  /\ o.env.type = "identified" => o.to = {Sender} /\ o.env.handle = sess'[Sender].user.handle
  /\ o.env.type = "handle_changed" =>
       ChangeHandle /\ o.env.old = sess[Sender].user.handle /\ o.env.handle = sess'[Sender].user.handle
AllTold == \A i \in DOMAIN outbox' : Tells(outbox'[i])

\* The types nothing above is said of.
Unmarked ==
  {"users_list", "channels_list", "system_notice", "user_joined", "user_left", "presence_update", "pong",
   "call_state_update", "typing_update", "ping_received"}

LEMMA UnmarkedTold ==
  ASSUME NEW o, o.to \subseteq {Sender} \cup Attended, o.env.type \in Unmarked
  PROVE  Tells(o)
BY DEF Tells, Unmarked, News, Entered, Answering

LEMMA ErrorTold == Tells(Error(Sender))
<1>1. Error(Sender).to = {Sender} /\ Error(Sender).env.type = "error"
  BY DEF Error, Envelope
<1> DEFINE o == Error(Sender)
<1> HIDE DEF o
<1>2. o.to = {Sender} /\ o.env.type = "error"
  BY <1>1 DEF o
<1>3. Tells(o)
  BY <1>2 DEF Tells, News, Entered, Answering
<1> QED BY <1>3 DEF o

LEMMA SetTold ==
  ASSUME NEW S, outbox' \in Seq(S), \A o \in S : Tells(o)
  PROVE  AllTold
<1>1. \A i \in DOMAIN outbox' : outbox'[i] \in S
  OBVIOUS
<1> QED BY <1>1 DEF AllTold

LEMMA OneTold ==
  ASSUME NEW o, outbox' = <<o>>, Tells(o)
  PROVE  AllTold
<1> DEFINE S == {o}
<1>1. outbox' \in Seq(S)
  OBVIOUS
<1>2. \A p \in S : Tells(p)
  OBVIOUS
<1> HIDE DEF S
<1> QED BY <1>1, <1>2, SetTold

LEMMA RefusalTold == Refuse => AllTold
BY ErrorTold, OneTold DEF Refuse

\* The type and the addressees of what is said to several sessions.
LEMMA ToldMany ==
  ASSUME NEW to
  PROVE  /\ \A type : Broadcast(to, type).to = to /\ Broadcast(to, type).env.type = type
         /\ \A u : UsersList(to, u).to = to /\ UsersList(to, u).env.type = "users_list"
         /\ \A p : PresenceUpdate(to, p).to = to /\ PresenceUpdate(to, p).env.type = "presence_update"
         /\ \A x : /\ PingEffect(to, x).to = to /\ PingEffect(to, x).env.type = "ping_effect"
                   /\ PingEffect(to, x).env.effect = x
<1>1. \A type : Broadcast(to, type).to = to /\ Broadcast(to, type).env.type = type
  BY DEF Broadcast, Envelope
<1>2. \A u : UsersList(to, u).to = to /\ UsersList(to, u).env.type = "users_list"
  BY DEF UsersList, Envelope
<1>3. \A p : PresenceUpdate(to, p).to = to /\ PresenceUpdate(to, p).env.type = "presence_update"
  BY DEF PresenceUpdate, Envelope
<1>4. \A x : /\ PingEffect(to, x).to = to /\ PingEffect(to, x).env.type = "ping_effect"
             /\ PingEffect(to, x).env.effect = x
  BY DEF PingEffect, Envelope
<1> QED BY <1>1, <1>2, <1>3, <1>4

\* The members of a workspace are attended, as no handler detaches anyone.
LEMMA MembersAttended ==
  ASSUME Handle
  PROVE  \A ws : Members(ws) \subseteq Attended
<1>1. scoped \subseteq scoped'
  BY DEF Handle, Identify, JoinWorkspaceRefused, JoinWorkspaceAbandoned, JoinWorkspace, JoinChannel, SendMessage,
         RequestHistory, RequestUsers, RequestChannels, Typing, Reply, PingUser, PingAll, ChangeHandle
<1>2. ASSUME NEW ws, NEW t \in Members(ws) PROVE t \in Attended
  <2>1. t \in Session /\ <<ws, t>> \in scoped'
    BY <1>1 DEF Members
  <2> QED BY <2>1 DEF Attended
<1> QED BY <1>2

LEMMA PresenceTold ==
  ASSUME Handle, NEW ws, NEW p, NEW u
  PROVE  /\ Tells(PresenceUpdate(Members(ws), p)) /\ Tells(UsersList(Members(ws), u))
         /\ Tells(PresenceUpdate(Members(ws) \cup {Sender}, p))
         /\ Tells(PresenceUpdate({Sender}, p)) /\ Tells(UsersList({Sender}, u))
<1>1. ASSUME NEW to, to \subseteq {Sender} \cup Attended
      PROVE  Tells(PresenceUpdate(to, p)) /\ Tells(UsersList(to, u))
  <2> DEFINE a == PresenceUpdate(to, p)
             b == UsersList(to, u)
  <2>1. /\ a.to = to /\ a.env.type = "presence_update"
        /\ b.to = to /\ b.env.type = "users_list"
    BY ToldMany
  <2> HIDE DEF a, b
  <2>2. Tells(a) /\ Tells(b)
    BY <1>1, <2>1, UnmarkedTold DEF Unmarked
  <2> QED BY <2>2 DEF a, b
<1>2. /\ Members(ws) \subseteq {Sender} \cup Attended
      /\ Members(ws) \cup {Sender} \subseteq {Sender} \cup Attended /\ {Sender} \subseteq {Sender} \cup Attended
  BY MembersAttended
<1> QED BY <1>1, <1>2

\* A word to the sender, or to a workspace.
LEMMA NoticesTold ==
  ASSUME Handle, NEW type \in Unmarked, NEW ws
  PROVE  /\ Tells(Tell(Sender, type))
         /\ \A to : to \subseteq {Sender} \cup Members(ws) => Tells(Broadcast(to, type))
<1>1. Tells(Tell(Sender, type))
  <2> DEFINE a == Tell(Sender, type)
  <2>1. a.to = {Sender} /\ a.env.type = type
    BY DEF Tell, Envelope
  <2> HIDE DEF a
  <2>2. Tells(a)
    BY <2>1, UnmarkedTold
  <2> QED BY <2>2 DEF a
<1>2. ASSUME NEW to, to \subseteq {Sender} \cup Members(ws) PROVE Tells(Broadcast(to, type))
  <2> DEFINE a == Broadcast(to, type)
  <2>1. a.to = to /\ a.env.type = type /\ to \subseteq {Sender} \cup Attended
    BY <1>2, ToldMany, MembersAttended
  <2> HIDE DEF a
  <2>2. Tells(a)
    BY <2>1, UnmarkedTold
  <2> QED BY <2>2 DEF a
<1> QED BY <1>1, <1>2

LEMMA IdentifiedTold ==
  ASSUME NEW h, h = sess'[Sender].user.handle
  PROVE  Tells(Identified(Sender, h))
<1> DEFINE a == Identified(Sender, h)
<1>1. a.to = {Sender} /\ a.env.type = "identified" /\ a.env.handle = h
  BY DEF Identified, Envelope
<1> HIDE DEF a
<1>2. Tells(a)
  BY <1>1 DEF Tells, News, Entered, Answering
<1> QED BY <1>2 DEF a

LEMMA ChannelJoinedTold ==
  ASSUME NEW chan, chan = sess'[Sender].current
  PROVE  Tells(ChannelJoined(Sender, chan))
<1> DEFINE a == ChannelJoined(Sender, chan)
<1>1. a.to = {Sender} /\ a.env.type = "channel_joined" /\ a.env.chan = chan
  BY DEF ChannelJoined, Envelope
<1> HIDE DEF a
<1>2. Tells(a)
  BY <1>1 DEF Tells, News, Entered, Answering
<1> QED BY <1>2 DEF a

\* sendHistory answers with the history of the channel it names.
LEMMA HistoryTold ==
  ASSUME NEW d, d = db', NEW chan, Current(chan), NEW h \in SendHistory(Sender, d, chan)
  PROVE  Tells(h)
<1> DEFINE o == HistoryBatch(Sender, d, chan)
<1>1. o.to = {Sender} /\ o.env.type = "history_batch" /\ o.env.chan = chan /\ o.env.msgs = ListHistory(d, chan)
  BY DEF HistoryBatch, Envelope
<1>2. h \in {o, Error(Sender)}
  BY DEF SendHistory
<1> HIDE DEF o
<1>3. Tells(o)
  BY <1>1 DEF Tells, News, Entered, Answering
<1> QED BY <1>2, <1>3, ErrorTold

LEMMA ShortTold ==
  ASSUME Handle, Identify \/ JoinWorkspaceRefused \/ RequestChannels \/ Typing \/ Reply
  PROVE  AllTold
<1>1. \/ Refuse
      \/ outbox' = outbox /\ outbox = <<>>
      \/ \E type \in Unmarked : outbox' = <<Tell(Sender, type)>>
      \/ outbox' = <<Broadcast(Members(sess[Sender].ws), "typing_update")>>
  BY DEF Identify, JoinWorkspaceRefused, RequestChannels, Typing, Reply, Serve, Unmarked
<1>2. CASE outbox' = outbox /\ outbox = <<>>
  BY <1>2 DEF AllTold
<1>3. CASE \E type \in Unmarked : outbox' = <<Tell(Sender, type)>>
  <2>1. PICK type \in Unmarked : outbox' = <<Tell(Sender, type)>>
    BY <1>3
  <2>2. Tells(Tell(Sender, type))
    BY NoticesTold
  <2> QED BY <2>1, <2>2, OneTold
<1>4. CASE outbox' = <<Broadcast(Members(sess[Sender].ws), "typing_update")>>
  <2> DEFINE type == "typing_update"
             ws == sess[Sender].ws
  <2>1. type \in Unmarked /\ outbox' = <<Broadcast(Members(ws), type)>>
    BY <1>4 DEF Unmarked
  <2> HIDE DEF type, ws
  <2>2. Tells(Broadcast(Members(ws), type))
    BY <2>1, NoticesTold
  <2> QED BY <2>1, <2>2, OneTold
<1> QED BY <1>1, <1>2, <1>3, <1>4, RefusalTold

LEMMA MessageTold ==
  ASSUME HubInv, SendMessage
  PROVE  AllTold
<1> DEFINE me == sess[Sender]
           to == Members(me.ws)
<1>1. \/ Refuse
      \/ \E kind \in MessageType, type \in News :
             /\ db' = SaveMessage(db, me.ws, me.current, me.user.id, kind)
             /\ outbox' = <<NewMessage(to, type, me.current, Len(db'.messages))>>
             /\ me.current # NoChannel
  BY DEF SendMessage, MessageType, News
<1>2. CASE \E kind \in MessageType, type \in News :
             /\ db' = SaveMessage(db, me.ws, me.current, me.user.id, kind)
             /\ outbox' = <<NewMessage(to, type, me.current, Len(db'.messages))>>
             /\ me.current # NoChannel
  <2>1. PICK kind \in MessageType, type \in News :
             /\ db' = SaveMessage(db, me.ws, me.current, me.user.id, kind)
             /\ outbox' = <<NewMessage(to, type, me.current, Len(db'.messages))>>
             /\ me.current # NoChannel
    BY <1>2
  <2>2. /\ me.ws \in Text /\ me.current \in Channel /\ me.user.id \in Nat
        /\ IsTables(db)
    BY EventTyped DEF HubInv, CoreOK, SessionRecord, SendMessage, Serve
  <2>3. /\ Len(db'.messages) = SavedId /\ SavedId \in DOMAIN db'.messages
        /\ db'.messages[SavedId].chan = me.current
    <3> HIDE DEF me
    <3> DEFINE e == SaveMessage(db, me.ws, me.current, me.user.id, kind)
    <3>1. /\ DOMAIN e.messages = DOMAIN db.messages \cup {Len(db.messages) + 1}
          /\ Len(e.messages) = Len(db.messages) + 1 /\ e.messages[Len(db.messages) + 1].chan = me.current
      BY <2>2, SaveMessageOK
    <3> HIDE DEF e
    <3>2. db' = e
      BY <2>1 DEF e
    <3> QED BY <3>1, <3>2 DEF SavedId
  <2> DEFINE c == me.current
             m == <<SavedId>>
             o == [to |-> to, env |-> [Envelope(type) EXCEPT !.chan = c, !.msgs = m]]
  <2>4. outbox' = <<o>>
    BY <2>1, <2>3 DEF NewMessage
  <2>5. to \subseteq Attended
    <3>1. Handle
      BY DEF Handle
    <3> QED BY <3>1, MembersAttended
  <2> HIDE DEF to, c, m
  <2>6. o.to = to /\ o.env.type = type /\ o.env.msgs = m /\ o.env.chan = c
    BY DEF Envelope
  <2> HIDE DEF o
  <2>8. Saves(o)
    BY <2>1, <2>3, <2>6 DEF Saves, to, c
  <2>7. Tells(o)
    BY <2>3, <2>4, <2>5, <2>6, <2>8 DEF Tells, News, Entered, Answering, m
  <2> QED BY <2>4, <2>7, OneTold
<1> QED BY <1>1, <1>2, RefusalTold

LEMMA RequestsTold ==
  ASSUME Handle, RequestHistory \/ RequestUsers
  PROVE  AllTold
<1> DEFINE chan == sess[Sender].current
           u == ListWorkspaceUsers(db, sess[Sender].ws)
           p == Snapshot(presence, sess[Sender].ws)
           a == UsersList({Sender}, u)
           b == PresenceUpdate({Sender}, p)
<1>1. \/ Refuse
      \/ /\ Current(chan)
         /\ \E h \in SendHistory(Sender, db, chan) : db' = db /\ outbox' = <<h>>
      \/ outbox' = <<a, b>>
  BY DEF RequestHistory, RequestUsers, Current
<1>2. CASE Current(chan) /\ \E h \in SendHistory(Sender, db, chan) : db' = db /\ outbox' = <<h>>
  <2>1. PICK h \in SendHistory(Sender, db, chan) : db' = db /\ outbox' = <<h>>
    BY <1>2
  <2> HIDE DEF chan
  <2>2. Tells(h)
    BY <1>2, <2>1, HistoryTold
  <2> QED BY <2>1, <2>2, OneTold
<1>3. CASE outbox' = <<a, b>>
  <2>1. Tells(a) /\ Tells(b)
    <3> HIDE DEF u, p
    <3> QED BY PresenceTold
  <2> DEFINE S == {a, b}
  <2> HIDE DEF a, b
  <2>2. outbox' \in Seq(S) /\ \A o \in S : Tells(o)
    BY <1>3, <2>1
  <2> HIDE DEF S
  <2> QED BY <2>2, SetTold
<1> QED BY <1>1, <1>2, <1>3, RefusalTold

\* However many milliseconds are asked for.
LEMMA DurationBounded ==
  ASSUME NEW effect, NEW override \in Int
  PROVE  PingEffectDuration(effect, override) \in EffectTimes
<1> DEFINE q == CASE effect = "flash" -> 1600 [] effect = "fku" -> 3200 [] OTHER -> 900
           d == PingEffectDuration(effect, override)
<1>1. q \in EffectTimes
  <2>1. q = 1600 \/ q = 3200 \/ q = 900
    OBVIOUS
  <2> HIDE DEF q
  <2> QED BY <2>1 DEF EffectTimes
<1>2. d = IF override > 0 THEN IF override < 900 THEN 900 ELSE IF override > 10000 THEN 10000 ELSE override
          ELSE q
  BY DEF PingEffectDuration
<1> HIDE DEF q, d
<1>3. d \in EffectTimes
  BY <1>1, <1>2 DEF EffectTimes
<1> QED BY <1>3 DEF d

LEMMA PingsTold ==
  ASSUME HubInv, PingUser \/ PingAll
  PROVE  AllTold
<1> DEFINE x == Launched(Sender)
           ws == sess[Sender].ws
           n == Tell(Sender, "system_notice")
<1>1. inbound # <<>> /\ Event.type \in {"ping_user", "ping_all"} /\ Handle
  BY DEF PingUser, PingAll, Serve, Event, Handle
<1>2. x.ms \in EffectTimes
  <2>1. Event.ms \in Int
    BY <1>1, EventTyped, FieldTyped DEF HubInv
  <2> DEFINE effect == NormalizePingEffect(Event.effect)
             ms == Event.ms
  <2>2. x.ms = PingEffectDuration(effect, ms)
    BY DEF Launched
  <2> HIDE DEF effect, ms, x
  <2>3. ms \in Int
    BY <2>1 DEF ms
  <2> QED BY <2>2, <2>3, DurationBounded
<1>3. ASSUME NEW to, to \subseteq Members(ws)
      PROVE  /\ Tells(PingEffect(to, x)) /\ Tells(Broadcast(to, "system_notice"))
             /\ Tells(Broadcast(to, "ping_received")) /\ Tells(n)
  <2>1. Tells(PingEffect(to, x))
    <3> DEFINE a == PingEffect(to, x)
    <3>1. to \subseteq Attended
      BY <1>1, <1>3, MembersAttended
    <3>2. a.to = to /\ a.env.type = "ping_effect" /\ a.env.effect = x
      <4> HIDE DEF x
      <4> QED BY ToldMany
    <3> HIDE DEF a, x
    <3>3. Tells(a)
      BY <1>2, <3>1, <3>2 DEF Tells, News, Entered, Answering
    <3> QED BY <3>3 DEF a, x
  <2>2. "system_notice" \in Unmarked /\ "ping_received" \in Unmarked
    BY DEF Unmarked
  <2>3. Tells(n) /\ Tells(Broadcast(to, "system_notice"))
    BY <1>1, <1>3, <2>2, NoticesTold
  <2>4. Tells(Broadcast(to, "ping_received"))
    BY <1>1, <1>3, <2>2, NoticesTold
  <2> QED BY <2>1, <2>3, <2>4
<1>4. ASSUME NEW to, to \subseteq Members(ws),
             \/ outbox' = <<PingEffect(to, x), Broadcast(to, "system_notice"), n>>
             \/ outbox' = <<Broadcast(to, "ping_received"), PingEffect(to, x), n>>
      PROVE  AllTold
  <2> DEFINE a == PingEffect(to, x)
             b == Broadcast(to, "system_notice")
             c == Broadcast(to, "ping_received")
             S == {a, b, c, n}
  <2>1. Tells(a) /\ Tells(b) /\ Tells(c) /\ Tells(n)
    BY <1>3, <1>4
  <2>2. outbox' = <<a, b, n>> \/ outbox' = <<c, a, n>>
    BY <1>4
  <2> HIDE DEF a, b, c, n
  <2>3. \A o \in S : Tells(o)
    BY <2>1
  <2>4. a \in S /\ b \in S /\ c \in S /\ n \in S
    OBVIOUS
  <2> HIDE DEF S
  <2>5. <<a, b, n>> \in Seq(S) /\ <<c, a, n>> \in Seq(S)
    BY <2>4
  <2> QED BY <2>2, <2>3, <2>5, SetTold
<1>5. \/ Refuse
      \/ \E to \in SUBSET Members(ws) :
           \/ outbox' = <<PingEffect(to, x), Broadcast(to, "system_notice"), n>>
           \/ outbox' = <<Broadcast(to, "ping_received"), PingEffect(to, x), n>>
  <2>1. CASE PingUser
    <3> DEFINE to == {t \in Members(ws) : sess[t].user.handle = NormalizeHandle(Event.handle)}
    <3>1. to \in SUBSET Members(ws)
      OBVIOUS
    <3>2. Refuse \/ outbox' = <<PingEffect(to, x), Broadcast(to, "system_notice"), n>>
      BY <2>1 DEF PingUser, Refuse
    <3> HIDE DEF to
    <3> QED BY <3>1, <3>2
  <2>2. CASE PingAll
    <3> DEFINE to == Members(ws) \ {Sender}
    <3>1. to \in SUBSET Members(ws)
      OBVIOUS
    <3>2. Refuse \/ outbox' = <<Broadcast(to, "ping_received"), PingEffect(to, x), n>>
      BY <2>2 DEF PingAll
    <3> HIDE DEF to
    <3> QED BY <3>1, <3>2
  <2> QED BY <2>1, <2>2
<1> HIDE DEF x, n
<1> QED BY <1>4, <1>5, RefusalTold

\* A join that is let in is for a workspace with a name.
LEMMA RealLobby ==
  ASSUME HubInv, inbound # <<>>, Event.type = "join_workspace", ~JoinRejected
  PROVE  JoinTarget # Blank /\ Lobby # NoChannel
<1>1. Event.workspace \in Text
  BY EventTyped, FieldTyped DEF HubInv
<1>2. Trim[Event.workspace] \in Text \ {Blank}
  BY <1>1, StoreAssumption DEF StoreAssumption, JoinRejected
<1>3. JoinTarget # Blank
  BY <1>2, StoreAssumption DEF StoreAssumption, JoinTarget, Clean
<1> QED BY <1>3 DEF Lobby, NoChannel

\* What a join says; its last channel and user are those the session then has.
LEMMA JoinsTold ==
  ASSUME HubInv, Joining
  PROVE  AllTold
<1> DEFINE s == Sender
           h == JoinedSess[s].user.handle
           a == Identified(s, h)
<1>1. inbound # <<>> /\ Event.type = "join_workspace" /\ ~JoinRejected /\ Handle
  BY DEF Joining, JoinWorkspace, JoinWorkspaceAbandoned, Serve, Event, Handle
<1>2. s \in Session /\ JoinedSess[s] \in SessionRecord /\ JoinedSess = [sess EXCEPT ![s] = JoinedSess[s]]
  BY <1>1, JoinLeaves
<1>3. InLobbySess[s].current = Lobby /\ InLobbySess[s].user = JoinedSess[s].user
  <2> DEFINE me == JoinedSess[s]
  <2>1. InLobbySess = [JoinedSess EXCEPT ![s] = [me EXCEPT !.current = Lobby]]
    BY DEF InLobbySess
  <2>2. DOMAIN JoinedSess = Session /\ me \in SessionRecord
    BY <1>2 DEF HubInv, CoreOK
  <2> HIDE DEF me
  <2> QED BY <1>2, <2>1, <2>2 DEF SessionRecord, me
<1>4. Tells(a)
  <2>1. sess' = JoinedSess \/ sess' = InLobbySess
    BY DEF Joining, JoinWorkspace, JoinWorkspaceAbandoned
  <2>2. h = sess'[s].user.handle
    BY <1>3, <2>1
  <2> HIDE DEF h
  <2> QED BY <2>2, IdentifiedTold
<1>5. CASE JoinWorkspaceAbandoned
  <2> DEFINE e == Error(s)
             S == {a, e}
  <2>1. outbox' = <<a, e>> /\ Tells(e)
    BY <1>5, ErrorTold DEF JoinWorkspaceAbandoned
  <2> HIDE DEF a, e
  <2>2. outbox' \in Seq(S) /\ \A o \in S : Tells(o)
    BY <1>4, <2>1
  <2> HIDE DEF S
  <2> QED BY <2>2, SetTold
<1>6. CASE JoinWorkspace
  <2>1. db' = InLobby /\ sess' = InLobbySess /\ sess'[s].current = Lobby
    BY <1>3, <1>6 DEF JoinWorkspace
  <2> DEFINE all == Members(JoinTarget) \cup {s}
             u == ListWorkspaceUsers(InLobby, JoinTarget)
             p == Snapshot(presence', JoinTarget)
             b == WorkspaceJoined(s, InLobby, Lobby)
             c == UsersList({s}, u)
             d == Tell(s, "channels_list")
             e == ChannelJoined(s, Lobby)
             f == Tell(s, "system_notice")
             i == PresenceUpdate(all, p)
             j == Broadcast(all, "user_joined")
  <2>2. PICK g \in SendHistory(s, InLobby, Lobby) : outbox' = <<a, b, c, d, e, f, g, i, j>>
    BY <1>6 DEF JoinWorkspace
  <2>3. Tells(b)
    <3>1. b.to = {s} /\ b.env.type = "workspace_joined" /\ b.env.chan = Lobby
      <4> DEFINE x == Lobby
                 y == ListWorkspaceUsers(InLobby, Lobby[1])
      <4>1. b = [to |-> {s}, env |-> [Envelope("workspace_joined") EXCEPT !.chan = x, !.users = y]]
        BY DEF WorkspaceJoined
      <4> HIDE DEF x, y, b, s
      <4>2. b.to = {s} /\ b.env.type = "workspace_joined" /\ b.env.chan = x
        BY <4>1 DEF Envelope
      <4> QED BY <4>2 DEF x
    <3> HIDE DEF b
    <3> QED BY <2>1, <3>1 DEF Tells, News, Entered, Answering
  <2>4. Tells(c) /\ Tells(i)
    <3> HIDE DEF u, p
    <3> QED BY <1>1, PresenceTold
  <2>5. Tells(d) /\ Tells(f) /\ Tells(j)
    <3>1. {"channels_list", "system_notice", "user_joined"} \subseteq Unmarked
      BY DEF Unmarked
    <3> DEFINE w == JoinTarget
    <3>2. all \subseteq {Sender} \cup Members(w)
      OBVIOUS
    <3> HIDE DEF all, w
    <3> QED BY <1>1, <3>1, <3>2, NoticesTold
  <2>6. Tells(e)
    <3> DEFINE x == Lobby
    <3>1. x = sess'[s].current
      BY <2>1
    <3> HIDE DEF x
    <3>2. Tells(ChannelJoined(s, x))
      BY <3>1, ChannelJoinedTold
    <3> QED BY <3>2 DEF x
  <2>7. Tells(g)
    <3> DEFINE x == Lobby
               y == InLobby
    <3>1. y = db' /\ g \in SendHistory(s, y, x) /\ Current(x)
      <4>1. x # NoChannel
        BY <1>1, <1>2, RealLobby
      <4> QED BY <2>1, <2>2, <4>1 DEF Current
    <3> HIDE DEF x, y
    <3> QED BY <3>1, HistoryTold
  <2> DEFINE S == {a, b, c, d, e, f, g, i, j}
  <2> HIDE DEF a, b, c, d, e, f, i, j
  <2>8. \A o \in S : Tells(o)
    BY <1>4, <2>3, <2>4, <2>5, <2>6, <2>7
  <2>9. a \in S /\ b \in S /\ c \in S /\ d \in S /\ e \in S /\ f \in S /\ g \in S /\ i \in S /\ j \in S
    OBVIOUS
  <2> HIDE DEF S
  <2>10. outbox' \in Seq(S)
    BY <2>2, <2>9
  <2> QED BY <2>8, <2>10, SetTold
<1> QED BY <1>5, <1>6 DEF Joining

LEMMA JoinChannelTold ==
  ASSUME HubInv, JoinChannel
  PROVE  AllTold
<1> DEFINE s == Sender
           me == sess[s]
           chan == <<me.ws, Clean(Event.channel)>>
           key == <<me.ws, me.user.id>>
           p == PresenceUpdate(Members(me.ws), {presence'[key]})
           o == ChannelJoined(s, chan)
<1>1. inbound # <<>> /\ Handle
  BY DEF JoinChannel, Serve, Handle
<1>2. s \in Session /\ sess \in [Session -> SessionRecord]
  BY <1>1, EventTyped DEF HubInv, CoreOK
<1>3. CASE /\ me.ws # Blank /\ sess' = [sess EXCEPT ![s].current = chan]
           /\ \E h \in SendHistory(s, db', chan) : outbox' = <<p>> \o <<o, h>> \/ outbox' = <<>> \o <<o, h>>
  <2>1. PICK h \in SendHistory(s, db', chan) : outbox' = <<p>> \o <<o, h>> \/ outbox' = <<>> \o <<o, h>>
    BY <1>3
  <2>2. chan = sess'[s].current
    <3> HIDE DEF chan
    <3> QED BY <1>2, <1>3 DEF SessionRecord
  <2>10. Current(chan)
    <3>1. chan # NoChannel
      BY <1>3 DEF NoChannel
    <3> HIDE DEF chan
    <3> QED BY <2>2, <3>1 DEF Current
  <2>3. Tells(p)
    <3> DEFINE ws == me.ws
               rows == {presence'[key]}
    <3> HIDE DEF ws, rows
    <3>1. Tells(PresenceUpdate(Members(ws), rows))
      BY <1>1, PresenceTold
    <3> QED BY <3>1 DEF ws, rows
  <2> DEFINE d == db'
  <2>4. d = db' /\ h \in SendHistory(s, d, chan)
    BY <2>1
  <2> HIDE DEF chan, d, p
  <2>5. Tells(h) /\ Tells(o)
    BY <2>2, <2>4, <2>10, HistoryTold, ChannelJoinedTold
  <2> DEFINE S == {p, o, h}
  <2> HIDE DEF o
  <2>6. \A x \in S : Tells(x)
    BY <2>3, <2>5
  <2>7. p \in S /\ o \in S /\ h \in S
    OBVIOUS
  <2> HIDE DEF S
  <2>8. <<p>> \in Seq(S) /\ <<>> \in Seq(S) /\ <<o, h>> \in Seq(S)
    BY <2>7
  <2>9. outbox' \in Seq(S)
    BY <2>1, <2>8, SaidBoth
  <2> QED BY <2>6, <2>9, SetTold
<1>4. \/ Refuse
      \/ /\ me.ws # Blank /\ sess' = [sess EXCEPT ![s].current = chan]
         /\ \E h \in SendHistory(s, db', chan) : outbox' = <<p>> \o <<o, h>> \/ outbox' = <<>> \o <<o, h>>
  BY DEF JoinChannel
<1> QED BY <1>3, <1>4, RefusalTold

LEMMA RenameTold ==
  ASSUME HubInv, ChangeHandle
  PROVE  AllTold
<1> DEFINE s == Sender
           me == sess[s]
           h == NormalizeHandle(Event.handle)
           key == <<me.ws, me.user.id>>
           all == Members(me.ws)
           p == PresenceUpdate(all, {presence'[key]})
           list == UsersList(all, ListWorkspaceUsers(UpdateUserHandle(db, me.user.id, h), me.ws))
           a == Identified(s, h)
           b == HandleChanged(all, me.user.handle, h)
           c == Broadcast(all, "system_notice")
<1>1. inbound # <<>> /\ Handle
  BY DEF ChangeHandle, Serve, Handle
<1>2. s \in Session /\ sess \in [Session -> SessionRecord]
  BY <1>1, EventTyped DEF HubInv, CoreOK
<1>3. CASE /\ sess' = [sess EXCEPT ![s].user.handle = h]
           /\ \E q \in {<<p>>, <<>>}, l \in {<<list>>, <<>>} : outbox' = q \o l \o <<a, b, c>>
  <2>1. h = sess'[s].user.handle
    <3> DEFINE u == [me.user EXCEPT !.handle = h]
               you == [me EXCEPT !.user = u]
    <3>1. sess' = [sess EXCEPT ![s] = you]
      BY <1>3
    <3>2. u.handle = h
      BY <1>2 DEF SessionRecord
    <3> HIDE DEF u
    <3>3. you.user = u
      BY <1>2 DEF SessionRecord
    <3> HIDE DEF you
    <3> QED BY <1>2, <3>1, <3>2, <3>3
  <2>2. Tells(a)
    <3> DEFINE n == h
    <3>1. n = sess'[s].user.handle
      BY <2>1
    <3> HIDE DEF n
    <3>2. Tells(Identified(s, n))
      BY <3>1, IdentifiedTold
    <3> QED BY <3>2 DEF n
  <2>3. all \subseteq Attended
    BY <1>1, MembersAttended
  <2>4. Tells(b)
    <3> DEFINE old == me.user.handle
               n == h
    <3>1. b = HandleChanged(all, old, n) /\ old = sess[s].user.handle /\ n = sess'[s].user.handle
      BY <2>1
    <3> HIDE DEF all, old, n
    <3>2. b.to = all /\ b.env.type = "handle_changed" /\ b.env.old = old /\ b.env.handle = n
      BY <3>1 DEF HandleChanged, Envelope
    <3> HIDE DEF b
    <3> QED BY <2>3, <3>1, <3>2 DEF Tells, News, Entered, Answering
  <2>5. Tells(c)
    <3> DEFINE ws == me.ws
               type == "system_notice"
    <3>1. type \in Unmarked /\ Members(ws) \subseteq {Sender} \cup Members(ws)
      BY DEF Unmarked
    <3> HIDE DEF ws, type
    <3>2. Tells(Broadcast(Members(ws), type))
      BY <1>1, <3>1, NoticesTold
    <3> QED BY <3>2 DEF ws, type
  <2>6. Tells(p) /\ Tells(list)
    <3> DEFINE ws == me.ws
               rows == {presence'[key]}
               u == ListWorkspaceUsers(UpdateUserHandle(db, me.user.id, h), ws)
    <3> HIDE DEF ws, rows, u
    <3>1. Tells(PresenceUpdate(Members(ws), rows)) /\ Tells(UsersList(Members(ws), u))
      BY <1>1, PresenceTold
    <3> QED BY <3>1 DEF ws, rows, u
  <2> DEFINE S == {p, list, a, b, c}
             P == {<<p>>, <<>>}
             L == {<<list>>, <<>>}
  <2> HIDE DEF p, list, a, b, c
  <2>7. \A x \in S : Tells(x)
    BY <2>2, <2>4, <2>5, <2>6
  <2>8. p \in S /\ list \in S /\ a \in S /\ b \in S /\ c \in S
    OBVIOUS
  <2> HIDE DEF S
  <2>9. (\A q \in P : q \in Seq(S)) /\ (\A l \in L : l \in Seq(S)) /\ <<a, b, c>> \in Seq(S)
    BY <2>8
  <2> HIDE DEF P, L
  <2>10. \E q \in P, l \in L : outbox' = q \o l \o <<a, b, c>>
    BY <1>3 DEF P, L
  <2>11. PICK q \in P, l \in L : outbox' = q \o l \o <<a, b, c>>
    BY <2>10
  <2>12. q \o l \in Seq(S)
    BY <2>9, SaidBoth
  <2>13. outbox' \in Seq(S)
    BY <2>9, <2>11, <2>12, SaidBoth
  <2> QED BY <2>7, <2>13, SetTold
<1>4. \/ Refuse
      \/ /\ sess' = [sess EXCEPT ![s].user.handle = h]
         /\ \E q \in {<<p>>, <<>>}, l \in {<<list>>, <<>>} : outbox' = q \o l \o <<a, b, c>>
  BY DEF ChangeHandle
<1> QED BY <1>3, <1>4, RefusalTold

\* Every handler says what it must.
LEMMA HandlerTold ==
  ASSUME HubInv, Handle
  PROVE  AllTold
BY ShortTold, MessageTold, RequestsTold, PingsTold, JoinsTold, JoinChannelTold, RenameTold DEF Handle, Joining

\* A handler takes one event, and but for the first delivery of a ping it leaves
\* its words in outbox.
LEMMA HandlerKeeps ==
  ASSUME Handle
  PROVE  /\ outbox = <<>> /\ inbound # <<>> /\ inbound' = Tail(inbound)
         /\ UNCHANGED <<link, sessions, closed, spawned, todo>>
         /\ \/ UNCHANGED <<sendq, lost>>
            \/ \E to \in SUBSET Members(sess[Sender].ws) : Deliver(to, Envelope("ping_received"))
         /\ scoped' = scoped \/ scoped' = scoped \cup {<<JoinTarget, Sender>>}
<1>1. \E types : Serve(types)
  BY DEF Handle, Identify, JoinWorkspaceRefused, JoinWorkspaceAbandoned, JoinWorkspace, JoinChannel, SendMessage,
         RequestHistory, RequestUsers, RequestChannels, Typing, Reply, PingUser, PingAll, ChangeHandle
<1>2. scoped' = scoped \/ scoped' = scoped \cup {<<JoinTarget, Sender>>}
  BY DEF Handle, Identify, JoinWorkspaceRefused, JoinWorkspaceAbandoned, JoinWorkspace, JoinChannel, SendMessage,
         RequestHistory, RequestUsers, RequestChannels, Typing, Reply, PingUser, PingAll, ChangeHandle
<1>3. CASE ~PingUser
  <2>1. UNCHANGED <<sendq, lost>>
    BY <1>3 DEF Handle, Identify, JoinWorkspaceRefused, JoinWorkspaceAbandoned, JoinWorkspace, JoinChannel, SendMessage,
           RequestHistory, RequestUsers, RequestChannels, Typing, Reply, PingAll, ChangeHandle, wire
  <2> QED BY <1>1, <1>2, <2>1 DEF Serve
<1>4. CASE PingUser
  <2> DEFINE to == {t \in Members(sess[Sender].ws) : sess[t].user.handle = NormalizeHandle(Event.handle)}
  <2>1. to \in SUBSET Members(sess[Sender].ws)
    OBVIOUS
  <2>2. UNCHANGED <<sendq, lost>> \/ Deliver(to, Envelope("ping_received"))
    BY <1>4 DEF PingUser, wire
  <2> HIDE DEF to
  <2> QED BY <1>1, <1>2, <2>1, <2>2 DEF Serve
<1> QED BY <1>3, <1>4

\* Whoever asks to enter a channel, and whoever is moved to one, is answered.
LEMMA EntryAnswered ==
  ASSUME HubInv, Handle, Entering(Event) \/ sess'[Sender].current # sess[Sender].current
  PROVE  \E i \in DOMAIN outbox' : Sender \in outbox'[i].to /\ Answering(outbox'[i].env)
<1>1. Sender \in Error(Sender).to /\ Answering(Error(Sender).env)
  BY DEF Error, Envelope, Answering
<1>2. ASSUME NEW chan PROVE Sender \in ChannelJoined(Sender, chan).to /\ Answering(ChannelJoined(Sender, chan).env)
  BY DEF ChannelJoined, Envelope, Answering
<1>3. CASE Refuse
  BY <1>1, <1>3 DEF Refuse
<1>4. CASE JoinWorkspaceAbandoned
  <2> DEFINE a == Identified(Sender, JoinedSess[Sender].user.handle)
             e == Error(Sender)
  <2>1. outbox' = <<a, e>>
    BY <1>4 DEF JoinWorkspaceAbandoned
  <2>2. Sender \in e.to /\ Answering(e.env)
    BY <1>1
  <2> HIDE DEF a, e
  <2> QED BY <2>1, <2>2
<1>5. CASE JoinWorkspace
  <2> DEFINE all == Members(JoinTarget) \cup {Sender}
             a == Identified(Sender, JoinedSess[Sender].user.handle)
             b == WorkspaceJoined(Sender, InLobby, Lobby)
             c == UsersList({Sender}, ListWorkspaceUsers(InLobby, JoinTarget))
             d == Tell(Sender, "channels_list")
             e == ChannelJoined(Sender, Lobby)
             f == Tell(Sender, "system_notice")
             i == PresenceUpdate(all, Snapshot(presence', JoinTarget))
             j == Broadcast(all, "user_joined")
  <2>1. PICK g \in SendHistory(Sender, InLobby, Lobby) : outbox' = <<a, b, c, d, e, f, g, i, j>>
    BY <1>5 DEF JoinWorkspace
  <2>2. Sender \in e.to /\ Answering(e.env)
    BY <1>2
  <2> HIDE DEF a, b, c, d, e, f, i, j
  <2>3. outbox'[5] = e /\ 5 \in DOMAIN outbox'
    BY <2>1
  <2> QED BY <2>2, <2>3
<1>6. CASE JoinChannel /\ ~Refuse
  <2> DEFINE me == sess[Sender]
             chan == <<me.ws, Clean(Event.channel)>>
             p == PresenceUpdate(Members(me.ws), {presence'[<<me.ws, me.user.id>>]})
             o == ChannelJoined(Sender, chan)
  <2>1. \E h : outbox' = <<p>> \o <<o, h>> \/ outbox' = <<>> \o <<o, h>>
    BY <1>6 DEF JoinChannel
  <2>2. Sender \in o.to /\ Answering(o.env)
    BY <1>2
  <2> HIDE DEF p, o
  <2>3. (1 \in DOMAIN outbox' /\ outbox'[1] = o) \/ (2 \in DOMAIN outbox' /\ outbox'[2] = o)
    BY <2>1
  <2> QED BY <2>2, <2>3
<1>7. \/ Refuse \/ JoinWorkspaceAbandoned \/ JoinWorkspace \/ JoinChannel
  <2>1. CASE Entering(Event)
    BY <2>1 DEF Entering, Handle, Identify, JoinWorkspaceRefused, JoinWorkspaceAbandoned, JoinWorkspace, JoinChannel,
           SendMessage, RequestHistory, RequestUsers, RequestChannels, Typing, Reply, PingUser, PingAll, ChangeHandle,
           Serve, Event
  <2>2. CASE sess'[Sender].current # sess[Sender].current
    <3>1. Sender \in Session
      BY HandlerKeeps, EventTyped DEF HubInv
    <3>2. [Next]_vars
      BY DEF Next
    <3> QED BY <2>2, <3>1, <3>2, IdentityKept DEF Joining
  <2> QED BY <2>1, <2>2
<1> QED BY <1>3, <1>4, <1>5, <1>6, <1>7

\* A handler changes the fields of the sender's session only.
LEMMA OthersKept ==
  ASSUME HubInv, Handle, NEW t \in Session, t # Sender
  PROVE  sess'[t] = sess[t]
<1>1. Sender \in Session /\ [Next]_vars /\ inbound # <<>>
  BY HandlerKeeps, EventTyped DEF HubInv, Next
<1>2. CASE Joining
  BY <1>2, JoinMovesSession
<1>3. CASE Identify
  BY <1>3 DEF Identify, HubInv, CoreOK
<1>4. CASE JoinChannel
  BY <1>4 DEF JoinChannel, HubInv, CoreOK
<1>5. CASE ChangeHandle
  BY <1>5 DEF ChangeHandle, HubInv, CoreOK
<1> QED BY <1>1, <1>2, <1>3, <1>4, <1>5, SessKept
-----------------------------------------------------------------------------
(* The connections of a client, one after the other.                       *)

\* Nothing of a session is on its way before it is dialed, what removes or
\* crashes a session ends it for good, and a client dials when its earlier
\* connections are over.
NewQuiet ==
  \A s \in Session : link[s] = "new" =>
    /\ sendq[s] = <<>> /\ s \notin sessions
    /\ \A i \in DOMAIN outbox : s \notin outbox[i].to
    /\ \A i \in DOMAIN inbound : inbound[i].from # s
    /\ \A p \in scoped : p[2] # s
ClosedGone == \A s \in closed : link[s] = "gone"
OneReading ==
  \A c \in Client : \A i, j \in DOMAIN Conns[c] :
    i < j /\ link[Conns[c][j]] # "new" => link[Conns[c][i]] \in {"ended", "gone"}
\* Goroutines of removeSession tell who left.
SpawnedLeavings == \A b \in spawned : b.env.type \in {"presence_update", "user_left"}
LinkInv == NewQuiet /\ ClosedGone /\ OneReading /\ SpawnedLeavings

\* A session a Deliver reaches is of its addressees.
LEMMA DeliverReaches ==
  ASSUME NEW to, NEW env, Deliver(to, env), NEW s \in Session
  PROVE  /\ s \notin to => sendq'[s] = sendq[s]
         /\ sendq'[s] = sendq[s] \/ (s \in to /\ sendq'[s] = Append(sendq[s], env))
         /\ s \in to /\ s \notin closed /\ s \notin lost' => sendq'[s] = Append(sendq[s], env)
BY DEF Deliver, HasRoom

LEMMA OneReadingStep ==
  ASSUME SysTypes, LinkInv, [SysNext]_sysVars
  PROVE  ClosedGone' /\ OneReading'
<1>1. /\ link \in [Session -> {"new", "reading", "ended", "gone"}] /\ sessions \subseteq Session
      /\ Conns \in [Client -> Seq(Session)]
  BY ChatSystemAssumption DEF SysTypes, TypeInv, LinkOK, ChatSystemAssumption
<1>2. \A c \in Client : \A i \in DOMAIN Conns[c] : Conns[c][i] \in Session
  BY <1>1
<1>3. CASE UNCHANGED <<link, closed>>
  BY <1>3 DEF LinkInv, ClosedGone, OneReading
<1>4. ASSUME NEW c \in Client, NEW i \in DOMAIN Conns[c], Dial(c, i) PROVE ClosedGone' /\ OneReading'
  <2> DEFINE s == Conns[c][i]
  <2>1. /\ s \in Session /\ link[s] = "new" /\ link' = [link EXCEPT ![s] = "reading"] /\ closed' = closed
        /\ \A t \in Earlier(c, i) : link[t] \in {"ended", "gone"}
    BY <1>2, <1>4 DEF Dial, Register
  <2>2. ClosedGone'
    BY <1>1, <2>1 DEF LinkInv, ClosedGone
  <2>3. ASSUME NEW d \in Client, NEW k \in DOMAIN Conns[d], NEW j \in DOMAIN Conns[d], k < j,
               link'[Conns[d][j]] # "new"
        PROVE  link'[Conns[d][k]] \in {"ended", "gone"}
    <3>1. CASE Conns[d][j] = s
      <4>1. d = c /\ j = i
        BY <3>1, ChatSystemAssumption DEF ChatSystemAssumption
      <4>2. k \in 1..(i - 1)
        <5>1. k \in Nat \ {0} /\ i \in Nat
          BY <1>1, <2>3, <4>1
        <5> QED BY <2>3, <4>1, <5>1
      <4>3. Conns[d][k] \in Earlier(c, i)
        BY <4>1, <4>2 DEF Earlier
      <4> QED BY <1>1, <1>2, <2>1, <4>3
    <3>2. CASE Conns[d][j] # s
      <4>1. link[Conns[d][j]] # "new"
        BY <1>1, <1>2, <2>1, <2>3, <3>2
      <4>2. link[Conns[d][k]] \in {"ended", "gone"}
        BY <2>3, <4>1 DEF LinkInv, OneReading
      <4> HIDE DEF s
      <4> QED BY <1>1, <1>2, <2>1, <4>2
    <3> QED BY <3>1, <3>2
  <2>4. OneReading'
    BY <2>3 DEF OneReading
  <2> QED BY <2>2, <2>4
<1>5. ASSUME NEW s \in Session, RemoveSession(s) \/ Lose(s) PROVE ClosedGone' /\ OneReading'
  <2>1. /\ link[s] \in {"reading", "ended"}
        /\ \/ link' = [link EXCEPT ![s] = "gone"] /\ closed' = closed \cup {s}
           \/ link[s] = "reading" /\ link' = [link EXCEPT ![s] = "ended"] /\ closed' = closed
    BY <1>5 DEF RemoveSession, Lose, table
  <2>2. \A t \in Session : /\ link'[t] = "new" <=> link[t] = "new"
                           /\ link[t] \in {"ended", "gone"} => link'[t] \in {"ended", "gone"}
                           /\ link[t] = "gone" => link'[t] = "gone"
    BY <1>1, <2>1
  <2>3. OneReading'
    BY <1>2, <2>2 DEF LinkInv, OneReading
  <2>4. ClosedGone'
    <3>1. closed \subseteq Session
      BY DEF SysTypes, TypeInv
    <3> QED BY <1>1, <2>1, <2>2, <3>1 DEF LinkInv, ClosedGone
  <2> QED BY <2>3, <2>4
<1>6. CASE Restart
  <2>1. /\ link' = [s \in Session |-> IF link[s] = "new" THEN "new" ELSE "gone"] /\ closed' = closed \cup sessions
        /\ closed \subseteq Session
    BY <1>6 DEF Restart, SysTypes, TypeInv
  <2>2. \A t \in Session : link'[t] = IF link[t] = "new" THEN "new" ELSE "gone"
    BY <2>1
  <2>3. OneReading'
    BY <1>2, <2>2 DEF LinkInv, OneReading
  <2>4. ClosedGone'
    BY <1>1, <2>1, <2>2 DEF LinkInv, ClosedGone, NewQuiet
  <2> QED BY <2>3, <2>4
<1>7. ASSUME NEW c \in Client, NEW s \in Session, Show(c, s) \/ Send(c, s) PROVE UNCHANGED <<link, closed>>
  BY <1>7 DEF Show, Send, WriteOut, Read, table
<1>8. ASSUME NEW c \in Client, Type(c) \/ EndEffect(c) PROVE UNCHANGED <<link, closed>>
  BY <1>8 DEF Type, EndEffect, vars, table
<1>9. CASE (\E b \in spawned : RunSpawned(b)) \/ Post \/ Handle \/ UNCHANGED sysVars
  BY <1>3, <1>9, HandlerKeeps DEF RunSpawned, Post, table, sysVars, vars
<1> QED BY <1>3, <1>4, <1>5, <1>6, <1>7, <1>8, <1>9 DEF SysNext

LEMMA SpawnedLeavingsStep ==
  ASSUME SysTypes, LinkInv, [SysNext]_sysVars
  PROVE  SpawnedLeavings'
<1>1. CASE spawned' \subseteq spawned
  BY <1>1 DEF LinkInv, SpawnedLeavings
<1>2. ASSUME NEW s \in Session, RemoveSession(s) PROVE SpawnedLeavings'
  <2> DEFINE key == <<sess[s].ws, sess[s].user.id>>
             a == [Envelope("presence_update") EXCEPT !.pres = {presence'[key]}]
             b == Envelope("user_left")
             x == [by |-> s, ws |-> sess[s].ws, env |-> a]
             y == [by |-> s, ws |-> sess[s].ws, env |-> b]
  <2>1. spawned' \subseteq spawned \cup {x, y}
    BY <1>2 DEF RemoveSession
  <2>2. x.env.type = "presence_update" /\ y.env.type = "user_left"
    BY DEF Envelope
  <2> HIDE DEF x, y
  <2> QED BY <2>1, <2>2 DEF LinkInv, SpawnedLeavings
<1>3. ASSUME NEW c \in Client, NEW i \in DOMAIN Conns[c], Dial(c, i) PROVE spawned' \subseteq spawned
  BY <1>3 DEF Dial, Register
<1>4. ASSUME NEW c \in Client, NEW s \in Session, Show(c, s) \/ Send(c, s) PROVE spawned' \subseteq spawned
  BY <1>4 DEF Show, Send, WriteOut, Read
<1>5. ASSUME NEW c \in Client, Type(c) \/ EndEffect(c) PROVE spawned' \subseteq spawned
  BY <1>5 DEF Type, EndEffect, vars
<1>6. ASSUME NEW s \in Session, Lose(s) PROVE spawned' \subseteq spawned
  BY <1>6 DEF Lose
<1>7. ASSUME Handle \/ (\E b \in spawned : RunSpawned(b)) \/ Post \/ UNCHANGED sysVars PROVE spawned' \subseteq spawned
  <2>1. CASE Handle
    BY <2>1, HandlerKeeps
  <2>2. CASE (\E b \in spawned : RunSpawned(b)) \/ Post \/ UNCHANGED sysVars
    BY <2>2 DEF RunSpawned, Post, sysVars, vars
  <2> QED BY <1>7, <2>1, <2>2
<1>8. CASE Restart
  <2>1. spawned' = {}
    BY <1>8 DEF Restart
  <2> QED BY <2>1 DEF SpawnedLeavings
<1> QED BY <1>1, <1>2, <1>3, <1>4, <1>5, <1>6, <1>7, <1>8, SysCases

\* The first of a sequence's elements and the others.
LEMMA HeadAndTail ==
  ASSUME NEW S, NEW q \in Seq(S), q # <<>>
  PROVE  /\ Head(q) = q[1] /\ 1 \in DOMAIN q
         /\ \A i \in DOMAIN Tail(q) : i + 1 \in DOMAIN q /\ Tail(q)[i] = q[i + 1]
         /\ \A i \in DOMAIN q : i # 1 => i - 1 \in DOMAIN Tail(q) /\ Tail(q)[i - 1] = q[i]
OBVIOUS

\* The elements of a sequence that one is appended to.
LEMMA Appended ==
  ASSUME NEW S, NEW q \in Seq(S), NEW e \in S
  PROVE  /\ \A i \in DOMAIN q : i \in DOMAIN Append(q, e) /\ Append(q, e)[i] = q[i]
         /\ \A i \in DOMAIN Append(q, e) : i \in DOMAIN q \/ (i = Len(q) + 1 /\ Append(q, e)[i] = e)
         /\ Len(q) + 1 \in DOMAIN Append(q, e) /\ Append(q, e)[Len(q) + 1] = e
         /\ \A i \in DOMAIN q : i < Len(q) + 1
OBVIOUS

LEMMA NewQuietStep ==
  ASSUME SysTypes, LinkInv, [SysNext]_sysVars
  PROVE  NewQuiet'
<1>1. /\ link \in [Session -> {"new", "reading", "ended", "gone"}] /\ sessions \subseteq Session
      /\ sendq \in [Session -> Seq(EnvelopeType)] /\ outbox \in Seq(Out)
      /\ inbound \in Seq([from : Session, event : EventType])
  BY DEF SysTypes, TypeInv, LinkOK, QueueTypes, HubInv, CoreOK
<1> HIDE DEF EnvelopeType, Out
<1> SUFFICES ASSUME NEW s \in Session, link'[s] = "new"
             PROVE  /\ sendq'[s] = <<>> /\ s \notin sessions'
                    /\ \A i \in DOMAIN outbox' : s \notin outbox'[i].to
                    /\ \A i \in DOMAIN inbound' : inbound'[i].from # s
                    /\ \A p \in scoped' : p[2] # s
  BY DEF NewQuiet
<1> DEFINE Quiet == /\ sendq[s] = <<>> /\ s \notin sessions
                    /\ \A i \in DOMAIN outbox : s \notin outbox[i].to
                    /\ \A i \in DOMAIN inbound : inbound[i].from # s
                    /\ \A p \in scoped : p[2] # s
           Quieter == /\ sendq'[s] = <<>> /\ s \notin sessions'
                      /\ \A i \in DOMAIN outbox' : s \notin outbox'[i].to
                      /\ \A i \in DOMAIN inbound' : inbound'[i].from # s
                      /\ \A p \in scoped' : p[2] # s
<1>2. link[s] = "new" => Quiet
  BY DEF LinkInv, NewQuiet
<1>3. ASSUME UNCHANGED <<link, sendq, sessions, outbox, inbound, scoped>> PROVE Quieter
  BY <1>2, <1>3
<1>4. ASSUME NEW c \in Client, NEW i \in DOMAIN Conns[c], Dial(c, i) PROVE Quieter
  <2> DEFINE t == Conns[c][i]
  <2>1. t \in Session /\ link' = [link EXCEPT ![t] = "reading"] /\ sessions' = sessions \cup {t}
        /\ UNCHANGED <<sendq, outbox, inbound, scoped>>
    BY <1>4, ChatSystemAssumption DEF Dial, Register, wire, ChatSystemAssumption
  <2>2. t # s /\ link[s] = "new"
    BY <1>1, <2>1
  <2> QED BY <1>2, <2>1, <2>2
<1>5. ASSUME NEW c \in Client, NEW t \in Session, Show(c, t) PROVE Quieter
  <2>1. /\ sendq' = [sendq EXCEPT ![t] = Tail(@)] /\ link[t] = "reading"
        /\ UNCHANGED <<link, sessions, outbox, inbound, scoped>>
    BY <1>5 DEF Show, WriteOut, table
  <2>2. t # s /\ link[s] = "new" /\ sendq'[s] = sendq[s]
    BY <1>1, <2>1
  <2> QED BY <1>2, <2>1, <2>2
<1>6. ASSUME NEW c \in Client, NEW t \in Session, Send(c, t) PROVE Quieter
  <2> DEFINE r == [from |-> t, event |-> Head(queued[c])]
  <2>1. /\ inbound' = Append(inbound, r) /\ link[t] = "reading"
        /\ UNCHANGED <<link, sendq, sessions, outbox, scoped>>
    BY <1>6 DEF Send, Read, table, wire
  <2>2. t # s /\ link[s] = "new" /\ Quiet
    BY <1>1, <1>2, <2>1
  <2>3. r.from = t
    OBVIOUS
  <2>4. \A k \in DOMAIN inbound' : inbound'[k].from # s
    <3> HIDE DEF r
    <3>1. ASSUME NEW k \in DOMAIN inbound' PROVE inbound'[k] = r \/ (k \in DOMAIN inbound /\ inbound'[k] = inbound[k])
      BY <1>1, <2>1
    <3> QED BY <2>2, <2>3, <3>1
  <2> HIDE DEF r
  <2> QED BY <2>1, <2>2, <2>4
<1>7. ASSUME NEW t \in Session, RemoveSession(t) \/ Lose(t) PROVE Quieter
  <2>1. /\ link[t] # "new" /\ (link' = [link EXCEPT ![t] = "gone"] \/ link' = [link EXCEPT ![t] = "ended"])
        /\ sessions' \subseteq sessions /\ scoped' \subseteq scoped
        /\ UNCHANGED <<sendq, outbox, inbound>>
    BY <1>7 DEF RemoveSession, Lose, wire, table
  <2>2. link[s] = "new"
    BY <1>1, <2>1
  <2> QED BY <1>2, <2>1, <2>2
<1>8. CASE Restart
  <2>1. /\ sendq' = [t \in Session |-> <<>>] /\ sessions' = {} /\ outbox' = <<>> /\ inbound' = <<>> /\ scoped' = {}
    BY <1>8 DEF Restart
  <2> QED BY <2>1
<1>9. ASSUME NEW b \in spawned, RunSpawned(b) PROVE Quieter
  <2>1. Deliver(Members(b.ws), b.env) /\ UNCHANGED <<link, sessions, outbox, inbound, scoped>>
    BY <1>9 DEF RunSpawned, table
  <2>2. Quiet /\ s \notin Members(b.ws)
    BY <1>2, <2>1 DEF Members
  <2>3. sendq'[s] = sendq[s]
    BY <2>1, <2>2, DeliverReaches
  <2> QED BY <2>1, <2>2, <2>3
<1>10. CASE Post
  <2>1. /\ Deliver(Head(outbox).to, Head(outbox).env) /\ UNCHANGED <<link, sessions, inbound, scoped>>
        /\ outbox # <<>> /\ outbox' = Tail(outbox)
    BY <1>10 DEF Post, table
  <2>2. Quiet
    BY <1>2, <2>1
  <2>3. s \notin Head(outbox).to /\ \A i \in DOMAIN outbox' : s \notin outbox'[i].to
    BY <1>1, <2>1, <2>2, HeadAndTail
  <2>4. sendq'[s] = sendq[s]
    BY <2>1, <2>3, DeliverReaches
  <2> QED BY <2>1, <2>2, <2>3, <2>4
<1>11. CASE Handle
  <2>1. /\ outbox = <<>> /\ inbound # <<>> /\ inbound' = Tail(inbound) /\ link' = link /\ sessions' = sessions
        /\ \/ sendq' = sendq
           \/ \E to \in SUBSET Members(sess[Sender].ws) : Deliver(to, Envelope("ping_received"))
        /\ scoped' = scoped \/ scoped' = scoped \cup {<<JoinTarget, Sender>>}
    BY <1>11, HandlerKeeps
  <2>2. Quiet
    BY <1>2, <2>1
  <2>3. Sender # s
    BY <1>1, <2>1, <2>2, HeadAndTail DEF Sender
  <2>4. \A p \in scoped' : p[2] # s
    BY <2>1, <2>2, <2>3
  <2>5. \A i \in DOMAIN outbox' : s \notin outbox'[i].to
    <3>1. AllTold
      BY <1>11, HandlerTold DEF SysTypes
    <3>2. ASSUME NEW i \in DOMAIN outbox' PROVE s \notin outbox'[i].to
      <4>1. Tells(outbox'[i])
        BY <3>1 DEF AllTold
      <4> QED BY <2>3, <2>4, <4>1 DEF Tells, Attended
    <3> QED BY <3>2
  <2>6. sendq'[s] = sendq[s]
    <3>1. s \notin Members(sess[Sender].ws)
      BY <2>2 DEF Members
    <3>2. ASSUME NEW to \in SUBSET Members(sess[Sender].ws), Deliver(to, Envelope("ping_received"))
          PROVE  sendq'[s] = sendq[s]
      BY <3>1, <3>2, DeliverReaches
    <3> QED BY <2>1, <3>2
  <2>7. \A i \in DOMAIN inbound' : inbound'[i].from # s
    BY <1>1, <2>1, <2>2, HeadAndTail
  <2> QED BY <2>1, <2>2, <2>4, <2>5, <2>6, <2>7
<1>12. ASSUME NEW c \in Client, Type(c) \/ EndEffect(c) PROVE Quieter
  <2>1. UNCHANGED <<link, sendq, sessions, outbox, inbound, scoped>>
    BY <1>12 DEF Type, EndEffect, vars, wire, table
  <2> QED BY <1>3, <2>1
<1>13. CASE UNCHANGED sysVars
  <2>1. UNCHANGED <<link, sendq, sessions, outbox, inbound, scoped>>
    BY <1>13 DEF sysVars, vars, wire, table
  <2> QED BY <1>3, <2>1
<1> QED BY <1>4, <1>5, <1>6, <1>7, <1>8, <1>9, <1>10, <1>11, <1>12, <1>13, SysCases

LEMMA LinkInvariant == SysSpec => [](SysTypes /\ LinkInv)
<1>1. SysInit => LinkInv
  <2> SUFFICES ASSUME SysInit PROVE LinkInv
    OBVIOUS
  <2>1. /\ link = [s \in Session |-> "new"] /\ sendq = [s \in Session |-> <<>>] /\ inbound = <<>> /\ outbox = <<>>
        /\ sessions = {} /\ scoped = {} /\ closed = {} /\ spawned = {}
    BY DEF SysInit, Init
  <2>2. OneReading
    <3>1. \A c \in Client : \A i \in DOMAIN Conns[c] : Conns[c][i] \in Session
      BY ChatSystemAssumption DEF ChatSystemAssumption
    <3> QED BY <2>1, <3>1 DEF OneReading
  <2> QED BY <2>1, <2>2 DEF LinkInv, NewQuiet, ClosedGone, SpawnedLeavings
<1>2. SysTypes /\ LinkInv /\ [SysNext]_sysVars => LinkInv'
  BY NewQuietStep, OneReadingStep, SpawnedLeavingsStep DEF LinkInv
<1> QED BY <1>1, <1>2, SysTypesInvariant, PTL DEF SysSpec

\* What becomes of a session's channel: it is left, emptied, its oldest envelope
\* taken, or one of the running handler, of a goroutine of removeSession or of a
\* ping added.
Aside == {"presence_update", "user_left", "ping_received"}
LEMMA SysWire ==
  ASSUME SysTypes, LinkInv, [SysNext]_sysVars, NEW s \in Session
  PROVE  \/ sendq'[s] = sendq[s]
         \/ sendq'[s] = <<>>
         \/ sendq[s] # <<>> /\ sendq'[s] = Tail(sendq[s])
         \/ \E env \in EnvelopeType :
              /\ sendq'[s] = Append(sendq[s], env)
              /\ \/ outbox # <<>> /\ outbox' = Tail(outbox) /\ env = outbox[1].env /\ s \in outbox[1].to
                 \/ env.type \in Aside
<1>1. /\ sendq \in [Session -> Seq(EnvelopeType)] /\ outbox \in Seq(Out)
      /\ \A b \in spawned : b.env \in EnvelopeType
  BY DEF SysTypes, TypeInv, QueueTypes
<1>2. Envelope("ping_received") \in EnvelopeType /\ Envelope("ping_received").type \in Aside
  <2>1. "ping_received" \in ServerEvent
    BY DEF ServerEvent
  <2>2. Envelope("ping_received").type = "ping_received"
    BY DEF Envelope
  <2> QED BY <2>1, <2>2, EnvelopeOK DEF Aside
<1>3. \A o \in Out : o.env \in EnvelopeType
  BY DEF Out
<1> DEFINE Added == \E env \in EnvelopeType :
              /\ sendq'[s] = Append(sendq[s], env)
              /\ \/ outbox # <<>> /\ outbox' = Tail(outbox) /\ env = outbox[1].env /\ s \in outbox[1].to
                 \/ env.type \in Aside
           Goal == \/ sendq'[s] = sendq[s] \/ sendq'[s] = <<>> \/ (sendq[s] # <<>> /\ sendq'[s] = Tail(sendq[s]))
                   \/ Added
<1> HIDE DEF EnvelopeType, Out
<1>4. ASSUME NEW c \in Client, NEW t \in Session, Show(c, t)
      PROVE  sendq'[s] = sendq[s] \/ (sendq[s] # <<>> /\ sendq'[s] = Tail(sendq[s]))
  BY <1>1, <1>4 DEF Show, WriteOut
<1>5. CASE Restart
  <2>1. sendq' = [t \in Session |-> <<>>]
    BY <1>5 DEF Restart
  <2> QED BY <2>1
<1>6. ASSUME NEW b \in spawned, RunSpawned(b) PROVE sendq'[s] = sendq[s] \/ Added
  <2>1. Deliver(Members(b.ws), b.env) /\ b.env \in EnvelopeType /\ b.env.type \in Aside
    BY <1>1, <1>6 DEF RunSpawned, LinkInv, SpawnedLeavings, Aside
  <2> QED BY <2>1, DeliverReaches
<1>7. CASE Post
  <2>1. Deliver(Head(outbox).to, Head(outbox).env) /\ outbox # <<>> /\ outbox' = Tail(outbox)
    BY <1>7 DEF Post
  <2>2. Head(outbox) = outbox[1] /\ outbox[1] \in Out
    BY <1>1, <2>1
  <2>3. Deliver(outbox[1].to, outbox[1].env) /\ outbox[1].env \in EnvelopeType
    BY <1>3, <2>1, <2>2
  <2> QED BY <2>1, <2>3, DeliverReaches
<1>8. CASE Handle
  <2>1. ASSUME NEW to \in SUBSET Members(sess[Sender].ws), Deliver(to, Envelope("ping_received"))
        PROVE  sendq'[s] = sendq[s] \/ Added
    <3> DEFINE e == Envelope("ping_received")
    <3>1. e \in EnvelopeType /\ e.type \in Aside /\ Deliver(to, e)
      BY <1>2, <2>1
    <3> HIDE DEF e
    <3> QED BY <3>1, DeliverReaches
  <2> QED BY <1>8, <2>1, HandlerKeeps
<1>9. ASSUME NEW c \in Client, NEW i \in DOMAIN Conns[c], Dial(c, i) PROVE sendq'[s] = sendq[s]
  BY <1>9 DEF Dial, Register, wire
<1>10. ASSUME NEW c \in Client, NEW t \in Session, Send(c, t) PROVE sendq'[s] = sendq[s]
  BY <1>10 DEF Send, Read, wire
<1>11. ASSUME NEW c \in Client, Type(c) \/ EndEffect(c) PROVE sendq'[s] = sendq[s]
  BY <1>11 DEF Type, EndEffect, vars, wire
<1>12. ASSUME NEW t \in Session, RemoveSession(t) \/ Lose(t) PROVE sendq'[s] = sendq[s]
  BY <1>12 DEF RemoveSession, Lose, wire
<1>13. CASE UNCHANGED sysVars
  BY <1>13 DEF sysVars, vars, wire
<1> QED BY <1>4, <1>5, <1>6, <1>7, <1>8, <1>9, <1>10, <1>11, <1>12, <1>13, SysCases

\* And what becomes of outbox.
LEMMA SysOutbox ==
  ASSUME [SysNext]_sysVars
  PROVE  \/ outbox' = outbox
         \/ outbox # <<>> /\ outbox' = Tail(outbox)
         \/ outbox' = <<>>
         \/ Handle
<1>1. ASSUME NEW c \in Client, NEW i \in DOMAIN Conns[c], Dial(c, i) PROVE outbox' = outbox
  BY <1>1 DEF Dial, Register
<1>2. ASSUME NEW c \in Client, NEW t \in Session, Show(c, t) \/ Send(c, t) PROVE outbox' = outbox
  BY <1>2 DEF Show, WriteOut, Send, Read
<1>3. ASSUME NEW c \in Client, Type(c) \/ EndEffect(c) PROVE outbox' = outbox
  BY <1>3 DEF Type, EndEffect, vars
<1>4. ASSUME NEW t \in Session, RemoveSession(t) \/ Lose(t) PROVE outbox' = outbox
  BY <1>4 DEF RemoveSession, Lose
<1>5. CASE Restart
  <2>1. outbox' = <<>>
    BY <1>5 DEF Restart
  <2> QED BY <2>1
<1>6. CASE (\E b \in spawned : RunSpawned(b)) \/ Post
  BY <1>6 DEF RunSpawned, Post
<1>7. CASE UNCHANGED sysVars
  BY <1>7 DEF sysVars, vars
<1> QED BY <1>1, <1>2, <1>3, <1>4, <1>5, <1>6, <1>7, SysCases

\* Only a client that is shown an envelope or types changes its screen.
LEMMA SysViews ==
  ASSUME SysTypes, [SysNext]_sysVars, NEW c \in Client
  PROVE  \/ view'[c] = view[c]
         \/ \E s \in Session : Show(c, s) /\ view'[c] = Apply(view[c], Head(sendq[s]))
         \/ Type(c) /\ \E cmd \in Head(typing[c]) : /\ view'[c] = Typed(view[c], cmd)
                                                    /\ queued'[c] = queued[c] \o Sent(view[c], cmd)
         \/ EndEffect(c) /\ view'[c] = [view[c] EXCEPT !.effect = NoEffect] /\ queued'[c] = queued[c]
<1>1. view = [d \in Client |-> view[d]] /\ queued \in [Client -> Seq(EventType)]
  BY DEF SysTypes, ClientTypes
<1>2. c \in DOMAIN view /\ c \in DOMAIN queued
  BY <1>1
<1>3. ASSUME NEW d \in Client, NEW s \in Session, Show(d, s)
      PROVE  view'[c] = view[c] \/ (d = c /\ view'[c] = Apply(view[c], Head(sendq[s])))
  <2>1. view' = [view EXCEPT ![d] = Apply(view[d], Head(sendq[s]))]
    BY <1>3 DEF Show
  <2> QED BY <1>2, <2>1
<1>4. ASSUME NEW d \in Client, Type(d)
      PROVE  \/ view'[c] = view[c]
             \/ d = c /\ \E cmd \in Head(typing[c]) : /\ view'[c] = Typed(view[c], cmd)
                                                      /\ queued'[c] = queued[c] \o Sent(view[c], cmd)
  <2>1. PICK cmd \in Head(typing[d]) : /\ view' = [view EXCEPT ![d] = Typed(view[d], cmd)]
                                       /\ queued' = [queued EXCEPT ![d] = queued[d] \o Sent(view[d], cmd)]
    BY <1>4 DEF Type
  <2> QED BY <1>2, <2>1
<1>5. ASSUME NEW d \in Client, EndEffect(d)
      PROVE  view'[c] = view[c] \/ (d = c /\ view'[c] = [view[c] EXCEPT !.effect = NoEffect] /\ queued'[c] = queued[c])
  <2>1. view' = [view EXCEPT ![d] = [view[d] EXCEPT !.effect = NoEffect]] /\ queued' = queued
    BY <1>5 DEF EndEffect
  <2> QED BY <1>2, <2>1
<1>6. ASSUME NEW d \in Client, NEW i \in DOMAIN Conns[d], Dial(d, i) PROVE view' = view
  BY <1>6 DEF Dial
<1>7. ASSUME NEW d \in Client, NEW t \in Session, Send(d, t) PROVE view' = view
  BY <1>7 DEF Send
<1>8. ASSUME NEW t \in Session, Lose(t) PROVE view' = view
  BY <1>8 DEF Lose, clientVars
<1>9. CASE Restart \/ UNCHANGED clientVars \/ UNCHANGED sysVars
  BY <1>9 DEF Restart, clientVars, sysVars
<1> QED BY <1>3, <1>4, <1>5, <1>6, <1>7, <1>8, <1>9, SysCases
-----------------------------------------------------------------------------
(* Overlays.                                                               *)

\* Every overlay on its way to a screen or on it has a duration in the bounds.
EffectOK(env) == env.type = "ping_effect" => env.effect.ms \in EffectTimes
EffectsOK ==
  /\ \A s \in Session : \A i \in DOMAIN sendq[s] : EffectOK(sendq[s][i])
  /\ \A i \in DOMAIN outbox : EffectOK(outbox[i].env)
  /\ \A c \in Client : view[c].effect = NoEffect \/ view[c].effect.ms \in EffectTimes

LEMMA EffectsStep ==
  ASSUME SysTypes, LinkInv, EffectsOK, [SysNext]_sysVars
  PROVE  EffectsOK'
<1>1. sendq \in [Session -> Seq(EnvelopeType)] /\ outbox \in Seq(Out)
  BY DEF SysTypes, TypeInv, QueueTypes
<1>2. ASSUME NEW s \in Session, NEW i \in DOMAIN sendq'[s] PROVE EffectOK(sendq'[s][i])
  <2>1. sendq[s] \in Seq(EnvelopeType)
    BY <1>1
  <2>2. \A j \in DOMAIN sendq[s] : EffectOK(sendq[s][j])
    BY DEF EffectsOK
  <2> HIDE DEF EnvelopeType, Out
  <2>3. CASE sendq'[s] = sendq[s] \/ sendq'[s] = <<>>
    BY <1>2, <2>2, <2>3
  <2>4. CASE sendq[s] # <<>> /\ sendq'[s] = Tail(sendq[s])
    BY <1>2, <2>1, <2>2, <2>4, HeadAndTail
  <2>5. ASSUME NEW env \in EnvelopeType, sendq'[s] = Append(sendq[s], env),
               (outbox # <<>> /\ env = outbox[1].env /\ s \in outbox[1].to) \/ env.type \in Aside
        PROVE  EffectOK(sendq'[s][i])
    <3>1. EffectOK(env)
      <4>1. CASE outbox # <<>> /\ env = outbox[1].env
        BY <1>1, <4>1 DEF EffectsOK
      <4>2. CASE env.type \in Aside
        BY <4>2 DEF Aside, EffectOK
      <4> QED BY <2>5, <4>1, <4>2
    <3>2. (i \in DOMAIN sendq[s] /\ sendq'[s][i] = sendq[s][i]) \/ sendq'[s][i] = env
      BY <1>2, <2>1, <2>5, Appended
    <3> QED BY <2>2, <3>1, <3>2
  <2> QED BY <2>3, <2>4, <2>5, SysWire
<1>3. ASSUME NEW i \in DOMAIN outbox' PROVE EffectOK(outbox'[i].env)
  <2> HIDE DEF EnvelopeType, Out
  <2>1. CASE outbox' = outbox \/ outbox' = <<>>
    BY <1>3, <2>1 DEF EffectsOK
  <2>2. CASE outbox # <<>> /\ outbox' = Tail(outbox)
    BY <1>1, <1>3, <2>2, HeadAndTail DEF EffectsOK
  <2>3. CASE Handle
    <3>1. Tells(outbox'[i])
      BY <1>3, <2>3, HandlerTold DEF SysTypes, AllTold
    <3> QED BY <3>1 DEF Tells, EffectOK
  <2> QED BY <2>1, <2>2, <2>3, SysOutbox
<1>4. ASSUME NEW c \in Client PROVE view'[c].effect = NoEffect \/ view'[c].effect.ms \in EffectTimes
  <2> DEFINE v == view[c]
             ok(x) == x = NoEffect \/ x.ms \in EffectTimes
  <2>1. ViewFields \subseteq DOMAIN v /\ (v.effect = NoEffect \/ v.effect.ms \in EffectTimes)
    BY DEF SysTypes, ClientTypes, ViewOK, EffectsOK
  <2>2. ASSUME NEW s \in Session, Show(c, s), view'[c] = Apply(v, Head(sendq[s]))
        PROVE  view'[c].effect = NoEffect \/ view'[c].effect.ms \in EffectTimes
    <3> DEFINE env == Head(sendq[s])
    <3>1. EffectOK(env)
      <4>1. sendq[s] \in Seq(EnvelopeType) /\ sendq[s] # <<>>
        BY <2>2, ShowTyped
      <4> HIDE DEF EnvelopeType
      <4> QED BY <4>1, HeadAndTail DEF EffectsOK
    <3>2. view'[c] = Apply(v, env) /\ ViewFields \subseteq DOMAIN v
      BY <2>1, <2>2
    <3> HIDE DEF env, v
    <3> DEFINE w == Apply(v, env)
    <3>3. w.effect = v.effect \/ (env.type = "ping_effect" /\ w.effect = env.effect)
      BY <3>2, ApplyFields
    <3> HIDE DEF w
    <3>4. view'[c] = w
      BY <3>2 DEF w
    <3> QED BY <2>1, <3>1, <3>3, <3>4 DEF EffectOK
  <2>3. ASSUME NEW cmd, view'[c] = Typed(v, cmd)
        PROVE  view'[c].effect = NoEffect \/ view'[c].effect.ms \in EffectTimes
    <3> HIDE DEF v
    <3>1. view'[c].effect \in {v.effect, NoEffect}
      BY <2>1, <2>3, TypedFields
    <3> QED BY <2>1, <3>1
  <2>4. CASE view'[c] = [v EXCEPT !.effect = NoEffect]
    BY <2>1, <2>4 DEF ViewFields
  <2> QED BY <2>1, <2>2, <2>3, <2>4, SysViews
<1> QED BY <1>2, <1>3, <1>4 DEF EffectsOK

\* However many seconds a /ping asks for, and however its product with 1000
\* wraps in the client's int, no screen shows an overlay for less than 0.9 or
\* more than 10 seconds: pingEffectDuration is on the way of every ping_effect
\* to every screen.
THEOREM OverlaysBounded == SysSpec => []OverlayBounded
<1>1. SysInit => EffectsOK
  <2> SUFFICES ASSUME SysInit PROVE EffectsOK
    OBVIOUS
  <2>1. sendq = [s \in Session |-> <<>>] /\ outbox = <<>> /\ view = [c \in Client |-> NewView(Account[c])]
    BY DEF SysInit, Init
  <2>2. \A c \in Client : view[c].effect = NoEffect
    BY <2>1 DEF NewView
  <2> QED BY <2>1, <2>2 DEF EffectsOK
<1>2. SysTypes /\ LinkInv /\ EffectsOK /\ [SysNext]_sysVars => EffectsOK'
  BY EffectsStep
<1>3. EffectsOK => OverlayBounded
  <2>1. ASSUME EffectsOK, NEW c \in Client, view[c].effect # NoEffect
        PROVE  view[c].effect.ms \in EffectTimes
    BY <2>1 DEF EffectsOK
  <2>2. EffectTimes = 900..10000
    BY DEF EffectTimes
  <2>3. OverlayBounded <=> \A c \in Client : view[c].effect # NoEffect => view[c].effect.ms \in EffectTimes
    BY <2>2 DEF OverlayBounded
  <2> QED BY <2>1, <2>3
<1> QED BY <1>1, <1>2, <1>3, LinkInvariant, PTL DEF SysSpec
-----------------------------------------------------------------------------
(* The channel on the screen and the channel of the session.               *)

\* A connection that still works and on which nothing was dropped.
Live(s) == link[s] = "reading" /\ s \notin lost

\* The running handler has still to answer the session.
Owed(s) == \E j \in DOMAIN outbox : s \in outbox[j].to /\ Answering(outbox[j].env)

\* What enters a channel among the waiting envelopes q is right, or is followed
\* by another answer.
ChannelOK(q, chan) ==
  \A i \in DOMAIN q : Entered(q[i]) => q[i].chan = chan \/ \E j \in DOMAIN q : j > i /\ Answering(q[j])

\* The last answer under way to a client names the channel its session is in.
EnteredOK ==
  \A s \in Session : Live(s) =>
    /\ Owed(s) \/ ChannelOK(sendq[s], sess[s].current)
    /\ \A i \in DOMAIN outbox : s \in outbox[i].to /\ Entered(outbox[i].env) =>
         outbox[i].env.chan = sess[s].current

\* So does its screen, when none is.
ShownOK ==
  \A c \in Client : \A s \in Session :
    Belongs(s, c) /\ Live(s) /\ NoneEntering(c, s) /\ NoneAnswering(s) =>
      view[c].refused \/ view[c].current = sess[s].current[2]

LEMMA ChannelTail ==
  ASSUME NEW E, NEW q \in Seq(E), q # <<>>, NEW chan, ChannelOK(q, chan)
  PROVE  ChannelOK(Tail(q), chan)
<1> SUFFICES ASSUME NEW i \in DOMAIN Tail(q), Entered(Tail(q)[i]), Tail(q)[i].chan # chan
             PROVE  \E j \in DOMAIN Tail(q) : j > i /\ Answering(Tail(q)[j])
  BY DEF ChannelOK
<1>1. i + 1 \in DOMAIN q /\ Tail(q)[i] = q[i + 1] /\ i \in Nat \ {0}
  BY HeadAndTail
<1>2. PICK j \in DOMAIN q : j > i + 1 /\ Answering(q[j])
  BY <1>1 DEF ChannelOK
<1>3. j # 1 /\ j - 1 > i /\ j \in Nat
  BY <1>1, <1>2
<1>4. j - 1 \in DOMAIN Tail(q) /\ Tail(q)[j - 1] = q[j]
  BY <1>3, HeadAndTail
<1> QED BY <1>2, <1>3, <1>4

LEMMA ChannelAppend ==
  ASSUME NEW E, NEW q \in Seq(E), NEW e \in E, NEW chan, Entered(e) => e.chan = chan,
         Answering(e) \/ ChannelOK(q, chan)
  PROVE  ChannelOK(Append(q, e), chan)
<1> DEFINE p == Append(q, e)
           n == Len(q) + 1
<1>1. /\ \A i \in DOMAIN q : i \in DOMAIN p /\ p[i] = q[i] /\ i < n
      /\ \A i \in DOMAIN p : i \in DOMAIN q \/ p[i] = e
      /\ n \in DOMAIN p /\ p[n] = e
  BY Appended
<1> HIDE DEF p, n
<1> SUFFICES ASSUME NEW i \in DOMAIN p, Entered(p[i]), p[i].chan # chan
             PROVE  \E j \in DOMAIN p : j > i /\ Answering(p[j])
  BY DEF ChannelOK, p
<1>2. i \in DOMAIN q /\ p[i] = q[i] /\ i < n
  BY <1>1
<1>3. CASE Answering(e)
  <2>1. i \in Int /\ n \in Int
    BY <1>2 DEF n
  <2>2. n > i /\ Answering(p[n])
    BY <1>1, <1>2, <1>3, <2>1
  <2> QED BY <1>1, <2>2
<1>4. CASE ChannelOK(q, chan)
  BY <1>1, <1>2, <1>4 DEF ChannelOK
<1> QED BY <1>3, <1>4

LEMMA ReadingKept ==
  ASSUME SysTypes, [SysNext]_sysVars, NEW s \in Session, link'[s] = "reading",
         \A c \in Client : \A i \in DOMAIN Conns[c] : ~Dial(c, i)
  PROVE  link[s] = "reading" /\ ~Restart
<1>1. link \in [Session -> {"new", "reading", "ended", "gone"}]
  BY DEF SysTypes, TypeInv, LinkOK
<1>2. ASSUME NEW c \in Client, NEW t \in Session, Show(c, t) \/ Send(c, t) PROVE link' = link
  BY <1>2 DEF Show, WriteOut, Send, Read
<1>3. ASSUME NEW c \in Client, Type(c) \/ EndEffect(c) PROVE link' = link
  BY <1>3 DEF Type, EndEffect, vars
<1>4. ASSUME NEW t \in Session, RemoveSession(t) \/ Lose(t) PROVE link[s] = "reading"
  <2>1. link' = [link EXCEPT ![t] = "gone"] \/ link' = [link EXCEPT ![t] = "ended"]
    BY <1>4 DEF RemoveSession, Lose
  <2> QED BY <1>1, <2>1
<1>5. ~Restart
  <2>1. ASSUME Restart PROVE link'[s] # "reading"
    <3>1. link' = [t \in Session |-> IF link[t] = "new" THEN "new" ELSE "gone"]
      BY <2>1 DEF Restart
    <3> QED BY <3>1
  <2> QED BY <2>1
<1>6. CASE (\E b \in spawned : RunSpawned(b)) \/ Post \/ Handle \/ UNCHANGED sysVars
  <2>1. link' = link
    BY <1>6, HandlerKeeps DEF RunSpawned, Post, sysVars, vars
  <2> QED BY <1>5, <2>1
<1> QED BY <1>2, <1>3, <1>4, <1>5, <1>6, SysCases

\* A live session gets what is delivered to it.
LEMMA LiveDelivery ==
  ASSUME LinkInv, NEW s \in Session, link[s] = "reading", s \notin lost', NEW to, NEW env, Deliver(to, env)
  PROVE  /\ s \notin lost
         /\ s \in to => sendq'[s] = Append(sendq[s], env)
         /\ s \notin to => sendq'[s] = sendq[s]
<1>1. s \notin closed
  BY DEF LinkInv, ClosedGone
<1> QED BY <1>1, DeliverReaches DEF Deliver

\* Nothing new for a session: what is under way to it and its channel stay.
LEMMA EnteredSame ==
  ASSUME EnteredOK, NEW s \in Session, Live(s), UNCHANGED outbox, sendq'[s] = sendq[s], sess'[s] = sess[s]
  PROVE  /\ Owed(s)' \/ ChannelOK(sendq'[s], sess'[s].current)
         /\ \A i \in DOMAIN outbox' : s \in outbox'[i].to /\ Entered(outbox'[i].env) =>
              outbox'[i].env.chan = sess'[s].current
BY DEF EnteredOK, Owed

LEMMA EnteredStep ==
  ASSUME SysTypes, LinkInv, EnteredOK, [SysNext]_sysVars
  PROVE  EnteredOK'
<1>1. /\ link \in [Session -> {"new", "reading", "ended", "gone"}] /\ outbox \in Seq(Out)
      /\ sendq \in [Session -> Seq(EnvelopeType)] /\ inbound \in Seq([from : Session, event : EventType])
      /\ \A b \in spawned : b.env \in EnvelopeType
  BY DEF SysTypes, TypeInv, LinkOK, QueueTypes, HubInv, CoreOK
<1>2. \A o \in Out : o.env \in EnvelopeType
  BY DEF Out
<1> HIDE DEF EnvelopeType, Out
<1> SUFFICES ASSUME NEW s \in Session, link'[s] = "reading", s \notin lost'
             PROVE  /\ Owed(s)' \/ ChannelOK(sendq'[s], sess'[s].current)
                    /\ \A i \in DOMAIN outbox' : s \in outbox'[i].to /\ Entered(outbox'[i].env) =>
                         outbox'[i].env.chan = sess'[s].current
  BY DEF EnteredOK, Live, Owed
<1> DEFINE Goal == /\ Owed(s)' \/ ChannelOK(sendq'[s], sess'[s].current)
                   /\ \A i \in DOMAIN outbox' : s \in outbox'[i].to /\ Entered(outbox'[i].env) =>
                        outbox'[i].env.chan = sess'[s].current
           q == sendq[s]
           chan == sess[s].current
<1>3. q \in Seq(EnvelopeType)
  BY <1>1
<1>4. ASSUME NEW c \in Client, NEW k \in DOMAIN Conns[c], Dial(c, k) PROVE Goal
  <2> DEFINE t == Conns[c][k]
  <2>1. /\ t \in Session /\ link[t] = "new" /\ link' = [link EXCEPT ![t] = "reading"] /\ outbox = <<>>
        /\ UNCHANGED <<outbox, sendq, lost, sess>>
    BY <1>4, ChatSystemAssumption DEF Dial, Register, wire, ChatSystemAssumption
  <2>2. CASE t = s
    <3>1. sendq'[s] = <<>> /\ outbox' = <<>>
      BY <2>1, <2>2 DEF LinkInv, NewQuiet
    <3> QED BY <3>1 DEF ChannelOK
  <2>3. CASE t # s
    <3>1. Live(s)
      BY <1>1, <2>1, <2>3 DEF Live
    <3> QED BY <2>1, <3>1, EnteredSame
  <2> QED BY <2>2, <2>3
<1>5. CASE \A c \in Client : \A k \in DOMAIN Conns[c] : ~Dial(c, k)
  <2>1. link[s] = "reading" /\ ~Restart
    BY <1>5, ReadingKept
  <2>2. ASSUME UNCHANGED <<outbox, sendq, lost, sess>> PROVE Goal
    <3>1. Live(s)
      BY <2>1, <2>2 DEF Live
    <3> QED BY <2>2, <3>1, EnteredSame
  <2>3. ASSUME NEW c \in Client, NEW t \in Session, Show(c, t) PROVE Goal
    <3>1. /\ sendq[t] # <<>> /\ sendq' = [sendq EXCEPT ![t] = Tail(@)] /\ outbox = <<>>
          /\ UNCHANGED <<outbox, lost, sess>>
      BY <2>3 DEF Show, WriteOut
    <3>2. Live(s)
      BY <2>1, <3>1 DEF Live
    <3>3. CASE t # s
      <4>1. sendq'[s] = sendq[s]
        BY <1>1, <3>1, <3>3
      <4> QED BY <3>1, <3>2, <4>1, EnteredSame
    <3>4. CASE t = s
      <4>1. sendq'[s] = Tail(q) /\ q # <<>> /\ sess'[s].current = chan
        BY <1>1, <3>1, <3>4
      <4>2. ChannelOK(q, chan)
        BY <3>1, <3>2 DEF EnteredOK, Owed
      <4>3. ChannelOK(Tail(q), chan)
        BY <1>3, <4>1, <4>2, ChannelTail
      <4>4. ChannelOK(sendq'[s], sess'[s].current)
        BY <4>1, <4>3
      <4> QED BY <3>1, <3>2, <4>4 DEF EnteredOK
    <3> QED BY <3>3, <3>4
  <2>4. ASSUME NEW to, NEW e \in EnvelopeType, ~Answering(e), Deliver(to, e), UNCHANGED <<outbox, sess>> PROVE Goal
    <3>1. Live(s) /\ (sendq'[s] = q \/ sendq'[s] = Append(q, e))
      BY <2>1, <2>4, LiveDelivery DEF Live
    <3>2. CASE sendq'[s] = q
      BY <2>4, <3>1, <3>2, EnteredSame
    <3>3. CASE sendq'[s] = Append(q, e) /\ ~Owed(s)
      <4>1. ChannelOK(q, chan) /\ (Entered(e) => e.chan = chan)
        BY <2>4, <3>1, <3>3 DEF EnteredOK, Entered, Answering
      <4> HIDE DEF q, chan
      <4>2. ChannelOK(Append(q, e), chan)
        BY <1>3, <2>4, <4>1, ChannelAppend
      <4>3. sess'[s].current = chan
        BY <2>4 DEF chan
      <4> QED BY <2>4, <3>1, <3>3, <4>2, <4>3 DEF EnteredOK, Owed, chan
    <3>4. CASE Owed(s)
      BY <2>4, <3>1, <3>4 DEF EnteredOK, Owed
    <3> QED BY <3>1, <3>2, <3>3, <3>4
  <2>5. ASSUME NEW b \in spawned, RunSpawned(b) PROVE Goal
    <3>1. /\ Deliver(Members(b.ws), b.env) /\ UNCHANGED <<outbox, sess>> /\ b.env \in EnvelopeType
          /\ ~Answering(b.env)
      BY <1>1, <2>5 DEF RunSpawned, LinkInv, SpawnedLeavings, Answering
    <3> QED BY <2>4, <3>1
  <2>6. CASE Post
    <3>1. /\ Deliver(Head(outbox).to, Head(outbox).env) /\ outbox # <<>> /\ outbox' = Tail(outbox) /\ sess' = sess
      BY <2>6 DEF Post
    <3> DEFINE to == outbox[1].to
               e == outbox[1].env
    <3>2. Deliver(to, e) /\ e \in EnvelopeType
      BY <1>1, <1>2, <3>1, HeadAndTail
    <3>3. /\ Live(s) /\ s \in to => sendq'[s] = Append(q, e)
          /\ s \notin to => sendq'[s] = q
      BY <2>1, <3>2, LiveDelivery DEF Live
    <3>4. \A i \in DOMAIN outbox' : s \in outbox'[i].to /\ Entered(outbox'[i].env) =>
            outbox'[i].env.chan = sess'[s].current
      <4> SUFFICES ASSUME NEW i \in DOMAIN Tail(outbox), s \in Tail(outbox)[i].to, Entered(Tail(outbox)[i].env)
                   PROVE  Tail(outbox)[i].env.chan = sess[s].current
        BY <3>1
      <4>1. i + 1 \in DOMAIN outbox /\ Tail(outbox)[i] = outbox[i + 1]
        BY <1>1, <3>1, HeadAndTail
      <4>2. Live(s)
        BY <2>1, <3>2, LiveDelivery DEF Live
      <4> QED BY <4>1, <4>2 DEF EnteredOK
    <3>5. s \in to /\ Entered(e) => e.chan = chan
      BY <1>1, <2>1, <3>1, <3>2, HeadAndTail, LiveDelivery DEF EnteredOK, Live
    <3>6. Owed(s) => Owed(s)' \/ (s \in to /\ Answering(e))
      <4> SUFFICES ASSUME NEW j \in DOMAIN outbox, s \in outbox[j].to, Answering(outbox[j].env), j # 1
                   PROVE  Owed(s)'
        BY DEF Owed
      <4>1. j - 1 \in DOMAIN outbox' /\ outbox'[j - 1] = outbox[j]
        BY <1>1, <3>1, HeadAndTail
      <4> QED BY <4>1 DEF Owed
    <3>7. Owed(s) \/ ChannelOK(q, chan)
      BY <2>1, <3>2, LiveDelivery DEF EnteredOK, Live
    <3> HIDE DEF to, e, q, chan
    <3>8. ~Owed(s)' => ChannelOK(sendq'[s], chan)
      <4>1. CASE s \in to
        <5>1. ~Owed(s)' => Answering(e) \/ ChannelOK(q, chan)
          BY <3>6, <3>7
        <5>2. ~Owed(s)' => ChannelOK(Append(q, e), chan)
          BY <1>3, <3>2, <3>5, <4>1, <5>1, ChannelAppend
        <5>3. sendq'[s] = Append(q, e)
          BY <2>1, <3>2, <4>1, LiveDelivery DEF q
        <5> QED BY <5>2, <5>3
      <4>2. CASE s \notin to
        <5>1. sendq'[s] = q
          BY <3>3, <4>2
        <5> QED BY <3>6, <3>7, <4>2, <5>1
      <4> QED BY <4>1, <4>2
    <3>9. sess'[s].current = chan
      BY <3>1 DEF chan
    <3> QED BY <3>4, <3>8, <3>9
  <2>7. CASE Handle
    <3>1. /\ outbox = <<>> /\ inbound # <<>> /\ Sender \in Session /\ AllTold
      BY <2>7, HandlerKeeps, HandlerTold, EventTyped DEF SysTypes, HubInv
    <3>2. \A i \in DOMAIN outbox' : s \in outbox'[i].to /\ Entered(outbox'[i].env) =>
            outbox'[i].env.chan = sess'[s].current
      <4> SUFFICES ASSUME NEW i \in DOMAIN outbox', s \in outbox'[i].to, Entered(outbox'[i].env)
                   PROVE  outbox'[i].env.chan = sess'[s].current
        OBVIOUS
      <4>1. Tells(outbox'[i])
        BY <3>1 DEF AllTold
      <4> QED BY <4>1 DEF Tells, Entered, Answering
    <3>3. CASE s = Sender /\ sess'[s].current # sess[s].current
      <4>1. Owed(s)'
        BY <2>7, <3>3, EntryAnswered DEF Owed, SysTypes
      <4> QED BY <3>2, <4>1
    <3>4. CASE sess'[s].current = sess[s].current
      <4>1. \/ UNCHANGED <<sendq, lost>>
            \/ \E to \in SUBSET Members(sess[Sender].ws) : Deliver(to, Envelope("ping_received"))
        BY <2>7, HandlerKeeps
      <4> DEFINE e == Envelope("ping_received")
      <4>2. e \in EnvelopeType /\ ~Answering(e) /\ ~Entered(e)
        <5>1. "ping_received" \in ServerEvent /\ e.type = "ping_received"
          BY DEF ServerEvent, Envelope
        <5>2. e \in EnvelopeType
          BY <5>1, EnvelopeOK
        <5> HIDE DEF e
        <5> QED BY <5>1, <5>2 DEF Answering, Entered
      <4> HIDE DEF e
      <4>3. Live(s) /\ (sendq'[s] = q \/ sendq'[s] = Append(q, e))
        <5>1. CASE UNCHANGED <<sendq, lost>>
          BY <2>1, <5>1 DEF Live
        <5>2. ASSUME NEW to, Deliver(to, e) PROVE Live(s) /\ (sendq'[s] = q \/ sendq'[s] = Append(q, e))
          BY <2>1, <5>2, LiveDelivery DEF Live
        <5> QED BY <4>1, <5>1, <5>2 DEF e
      <4>4. ChannelOK(q, chan)
        BY <3>1, <4>3 DEF EnteredOK, Owed
      <4> HIDE DEF q, chan
      <4>5. ChannelOK(Append(q, e), chan)
        BY <1>3, <4>2, <4>4, ChannelAppend
      <4>6. ChannelOK(sendq'[s], chan) /\ sess'[s].current = chan
        BY <3>4, <4>3, <4>4, <4>5 DEF chan
      <4> QED BY <3>2, <4>6
    <3>5. s # Sender => sess'[s].current = sess[s].current
      BY <2>7, OthersKept DEF SysTypes
    <3> QED BY <3>3, <3>4, <3>5
  <2>8. ASSUME NEW c \in Client, NEW t \in Session, Send(c, t) PROVE Goal
    BY <2>2, <2>8 DEF Send, Read, wire
  <2>9. ASSUME NEW c \in Client, Type(c) \/ EndEffect(c) PROVE Goal
    BY <2>2, <2>9 DEF Type, EndEffect, vars, wire
  <2>10. ASSUME NEW t \in Session, RemoveSession(t) \/ Lose(t) PROVE Goal
    BY <2>2, <2>10 DEF RemoveSession, Lose, wire
  <2>11. CASE UNCHANGED sysVars
    BY <2>2, <2>11 DEF sysVars, vars, wire
  <2> QED BY <1>5, <2>1, <2>3, <2>5, <2>6, <2>7, <2>8, <2>9, <2>10, <2>11, SysCases
<1> QED BY <1>4, <1>5

\* The elements of a sequence that another follows.
LEMMA Followed ==
  ASSUME NEW S, NEW q \in Seq(S), NEW r \in Seq(S)
  PROVE  /\ \A i \in DOMAIN q : i \in DOMAIN (q \o r) /\ (q \o r)[i] = q[i]
         /\ \A i \in DOMAIN r : Len(q) + i \in DOMAIN (q \o r) /\ (q \o r)[Len(q) + i] = r[i]
OBVIOUS

\* The client's only connection that is not over.
LEMMA OneConnection ==
  ASSUME LinkInv, NEW c \in Client, NEW s \in Session, NEW t \in Session, Belongs(s, c), Belongs(t, c),
         link[s] = "reading", link[t] = "reading"
  PROVE  s = t
<1>1. PICK i \in DOMAIN Conns[c] : Conns[c][i] = s
  BY DEF Belongs
<1>2. PICK j \in DOMAIN Conns[c] : Conns[c][j] = t
  BY DEF Belongs
<1>3. i \in Int /\ j \in Int
  BY ChatSystemAssumption DEF ChatSystemAssumption
<1>4. ~(i < j) /\ ~(j < i)
  BY <1>1, <1>2 DEF LinkInv, OneReading
<1>5. i = j
  BY <1>3, <1>4
<1> QED BY <1>1, <1>2, <1>5

LEMMA OneClient ==
  ASSUME NEW c \in Client, NEW d \in Client, NEW s, Belongs(s, c), Belongs(s, d)
  PROVE  c = d
BY ChatSystemAssumption DEF ChatSystemAssumption, Belongs

\* What was not under way to enter a channel still is not, when events were only added.
LEMMA EnteringKept ==
  ASSUME SysTypes, NEW c \in Client, NEW s \in Session, NoneEntering(c, s)',
         \/ queued'[c] = queued[c]
         \/ \E r \in Seq(EventType) : queued'[c] = queued[c] \o r,
         \/ inbound' = inbound
         \/ \E p \in [from : Session, event : EventType] : inbound' = Append(inbound, p)
  PROVE  NoneEntering(c, s)
<1> DEFINE P == [from : Session, event : EventType]
<1>1. queued[c] \in Seq(EventType) /\ inbound \in Seq(P)
  BY DEF SysTypes, ClientTypes, TypeInv, QueueTypes, HubInv, CoreOK
<1>2. /\ \A i \in DOMAIN queued'[c] : ~Entering(queued'[c][i])
      /\ \A i \in DOMAIN inbound' : inbound'[i].from = s => ~Entering(inbound'[i].event)
  BY DEF NoneEntering
<1>3. \A i \in DOMAIN queued[c] : i \in DOMAIN queued'[c] /\ queued'[c][i] = queued[c][i]
  <2> DEFINE q == queued[c]
  <2>1. q \in Seq(EventType)
    BY <1>1
  <2> HIDE DEF q
  <2>2. ASSUME NEW r \in Seq(EventType) PROVE \A i \in DOMAIN q : i \in DOMAIN (q \o r) /\ (q \o r)[i] = q[i]
    BY <2>1, Followed
  <2> QED BY <2>2 DEF q
<1> HIDE DEF P
<1>4. \A i \in DOMAIN inbound : i \in DOMAIN inbound' /\ inbound'[i] = inbound[i]
  <2>1. ASSUME NEW p \in P, inbound' = Append(inbound, p)
        PROVE  \A i \in DOMAIN inbound : i \in DOMAIN inbound' /\ inbound'[i] = inbound[i]
    BY <1>1, <2>1, Appended
  <2> QED BY <2>1 DEF P
<1> QED BY <1>2, <1>3, <1>4 DEF NoneEntering

\* No answer was under way, if none is after a delivery.
LEMMA AnsweringKept ==
  ASSUME SysTypes, LinkInv, NEW s \in Session, link[s] = "reading", s \notin lost', NoneAnswering(s)',
         NEW to, NEW env \in EnvelopeType, Deliver(to, env),
         \/ outbox' = outbox
         \/ outbox # <<>> /\ outbox' = Tail(outbox) /\ to = outbox[1].to /\ env = outbox[1].env
  PROVE  NoneAnswering(s) /\ s \notin lost
<1>1. sendq[s] \in Seq(EnvelopeType) /\ outbox \in Seq(Out)
  BY DEF SysTypes, TypeInv, QueueTypes
<1> HIDE DEF EnvelopeType, Out
<1>2. /\ s \notin lost
      /\ s \in to => sendq'[s] = Append(sendq[s], env)
      /\ s \notin to => sendq'[s] = sendq[s]
  BY LiveDelivery
<1>3. /\ \A i \in DOMAIN sendq'[s] : ~Answering(sendq'[s][i])
      /\ \A i \in DOMAIN outbox' : s \in outbox'[i].to => ~Answering(outbox'[i].env)
  BY DEF NoneAnswering
<1>4. \A i \in DOMAIN sendq[s] : i \in DOMAIN sendq'[s] /\ sendq'[s][i] = sendq[s][i]
  BY <1>1, <1>2, Appended
<1>5. s \in to => ~Answering(env)
  <2> SUFFICES ASSUME s \in to PROVE ~Answering(env)
    OBVIOUS
  <2>1. Len(sendq[s]) + 1 \in DOMAIN sendq'[s] /\ sendq'[s][Len(sendq[s]) + 1] = env
    BY <1>1, <1>2, Appended
  <2> QED BY <1>3, <2>1
<1>6. \A i \in DOMAIN outbox : s \in outbox[i].to => ~Answering(outbox[i].env)
  <2> SUFFICES ASSUME NEW i \in DOMAIN outbox, s \in outbox[i].to PROVE ~Answering(outbox[i].env)
    OBVIOUS
  <2>1. CASE outbox' = outbox
    BY <1>3, <2>1
  <2>2. CASE outbox # <<>> /\ outbox' = Tail(outbox) /\ to = outbox[1].to /\ env = outbox[1].env
    <3>1. CASE i = 1
      BY <1>5, <2>2, <3>1
    <3>2. CASE i # 1
      <4>1. i - 1 \in DOMAIN outbox' /\ outbox'[i - 1] = outbox[i]
        BY <1>1, <2>2, <3>2, HeadAndTail
      <4> QED BY <1>3, <4>1
    <3> QED BY <3>1, <3>2
  <2> QED BY <2>1, <2>2
<1> QED BY <1>2, <1>3, <1>4, <1>6 DEF NoneAnswering

\* What ShownOK says of one client and one of its sessions, after the step.
Agrees(c, s) == view[c].refused \/ view[c].current = sess[s].current[2]
QuietNow(c, s) == Belongs(s, c) /\ link'[s] = "reading" /\ s \notin lost' /\ NoneEntering(c, s)' /\ NoneAnswering(s)'

\* Nothing changed for them.
LEMMA ShownSame ==
  ASSUME ShownOK, NEW c \in Client, NEW s \in Session, Belongs(s, c), Live(s), NoneEntering(c, s), NoneAnswering(s),
         view'[c].refused = view[c].refused, view'[c].current = view[c].current, sess'[s].current = sess[s].current
  PROVE  Agrees(c, s)'
BY DEF ShownOK, Agrees

\* A new connection has its channel to enter yet.
LEMMA ShownDial ==
  ASSUME SysTypes, LinkInv, ShownOK, NEW c \in Client, NEW s \in Session, QuietNow(c, s),
         NEW d \in Client, NEW k \in DOMAIN Conns[d], Dial(d, k)
  PROVE  Agrees(c, s)'
<1> DEFINE t == Conns[d][k]
<1>1. t \in Session /\ Belongs(t, d)
  BY ChatSystemAssumption DEF ChatSystemAssumption, Belongs
<1>2. /\ link \in [Session -> {"new", "reading", "ended", "gone"}] /\ link' = [link EXCEPT ![t] = "reading"]
      /\ UNCHANGED <<inbound, outbox, sendq, lost, sess, view>>
      /\ queued' = [queued EXCEPT ![d] = queued[d] \o Resync(d)] /\ queued \in [Client -> Seq(EventType)]
  BY DEF Dial, Register, wire, SysTypes, ClientTypes, TypeInv, LinkOK
<1>3. c # d
  <2> SUFFICES ASSUME c = d PROVE FALSE
    OBVIOUS
  <2> DEFINE r == Resync(c)
             q == queued[c]
  <2>1. r \in Seq(EventType) /\ Len(r) = 3 /\ q \in Seq(EventType)
    BY <1>2, ResyncTyped
  <2>2. Entering(r[3])
    BY DEF Resync, Entering
  <2>3. queued'[c] = q \o r /\ 3 \in DOMAIN r
    BY <1>2, <2>1
  <2>4. Len(q) + 3 \in DOMAIN queued'[c] /\ queued'[c][Len(q) + 3] = r[3]
    <3>1. Len(q) + 3 \in DOMAIN (q \o r) /\ (q \o r)[Len(q) + 3] = r[3]
      BY <2>1, <2>3, Followed
    <3> QED BY <2>3, <3>1
  <2> QED BY <2>2, <2>4 DEF QuietNow, NoneEntering
<1>4. s # t
  BY <1>1, <1>3, OneClient DEF QuietNow
<1>5. Live(s) /\ NoneAnswering(s) /\ NoneEntering(c, s)
  <2>1. queued'[c] = queued[c]
    BY <1>2, <1>3
  <2>2. link[s] = "reading"
    BY <1>1, <1>2, <1>4 DEF QuietNow
  <2> QED BY <1>2, <2>1, <2>2 DEF QuietNow, Live, NoneAnswering, NoneEntering
<1> QED BY <1>2, <1>5, ShownSame DEF QuietNow

\* Whatever is shown leaves the right channel, when no other answer follows it.
LEMMA ShownShow ==
  ASSUME SysTypes, LinkInv, EnteredOK, ShownOK, NEW c \in Client, NEW s \in Session, QuietNow(c, s),
         NEW d \in Client, NEW t \in Session, Show(d, t)
  PROVE  Agrees(c, s)'
<1> DEFINE env == Head(sendq[t])
           v == view[d]
<1>1. /\ sendq[t] \in Seq(EnvelopeType) /\ sendq[t] # <<>> /\ sendq' = [sendq EXCEPT ![t] = Tail(sendq[t])]
      /\ sendq \in [Session -> Seq(EnvelopeType)] /\ outbox = <<>> /\ link[t] = "reading" /\ Belongs(t, d)
      /\ UNCHANGED <<link, inbound, outbox, lost, sess>>
  BY ShowTyped DEF Show, WriteOut, SysTypes, TypeInv, QueueTypes
<1>2. /\ view' = [view EXCEPT ![d] = Apply(v, env)] /\ queued' = [queued EXCEPT ![d] = queued[d] \o Answer(env)]
      /\ Answer(env) \in Seq(EventType) /\ queued \in [Client -> Seq(EventType)]
      /\ view = [x \in Client |-> view[x]] /\ ViewFields \subseteq DOMAIN v
  BY ShowTyped DEF Show, SysTypes, ClientTypes, ViewOK
<1>3. NoneEntering(c, s)
  <2>1. queued'[c] = queued[c] \/ queued'[c] = queued[c] \o Answer(env)
    BY <1>2
  <2> QED BY <1>1, <1>2, <2>1, EnteringKept DEF QuietNow
<1>4. Live(s)
  BY <1>1 DEF QuietNow, Live
<1>5. CASE d # c
  <2>1. s # t
    BY <1>1, <1>5, OneClient DEF QuietNow
  <2>2. sendq'[s] = sendq[s] /\ view'[c] = view[c]
    BY <1>1, <1>2, <1>5, <2>1
  <2>3. NoneAnswering(s)
    BY <1>1, <2>2 DEF QuietNow, NoneAnswering
  <2> QED BY <1>1, <1>3, <1>4, <2>2, <2>3, ShownSame DEF QuietNow
<1>6. CASE d = c
  <2>1. s = t
    BY <1>1, <1>4, <1>6, OneConnection DEF QuietNow, Live
  <2> DEFINE q == sendq[s]
             w == Apply(v, env)
  <2>2. view'[c] = w /\ sendq'[s] = Tail(q) /\ env = q[1] /\ q # <<>> /\ q \in Seq(EnvelopeType)
    <3>1. view'[c] = w
      BY <1>2, <1>6
    <3>2. sendq'[s] = Tail(q) /\ q # <<>> /\ q \in Seq(EnvelopeType)
      BY <1>1, <2>1
    <3> QED BY <3>1, <3>2, <2>1
  <2>3. \A j \in DOMAIN Tail(q) : ~Answering(Tail(q)[j])
    BY <2>2 DEF QuietNow, NoneAnswering
  <2> HIDE DEF EnvelopeType
  <2>4. \A j \in DOMAIN q : j > 1 => ~Answering(q[j])
    <3> SUFFICES ASSUME NEW j \in DOMAIN q, j > 1 PROVE ~Answering(q[j])
      OBVIOUS
    <3>1. j - 1 \in DOMAIN Tail(q) /\ Tail(q)[j - 1] = q[j]
      BY <2>2, HeadAndTail
    <3> QED BY <2>3, <3>1
  <2>5. CASE Entered(env)
    <3>1. ChannelOK(q, sess[s].current)
      BY <1>1, <1>4 DEF EnteredOK, Owed
    <3>2. env.chan = sess[s].current
      BY <2>2, <2>4, <2>5, <3>1, HeadAndTail DEF ChannelOK
    <3>3. w.current = env.chan[2]
      BY <1>2, <2>5, ApplyFields DEF Entered
    <3>4. sess' = sess /\ view'[c].current = sess[s].current[2]
      BY <1>1, <2>2, <3>2, <3>3
    <3> QED BY <3>4 DEF Agrees
  <2>6. CASE env.type = "error"
    <3>1. w.refused
      BY <1>2, <2>6, ApplyFields
    <3> QED BY <2>2, <3>1 DEF Agrees
  <2>7. CASE ~Entered(env) /\ env.type # "error"
    <3>1. w.current = v.current /\ w.refused = v.refused
      BY <1>2, <2>7, ApplyFields DEF Entered
    <3>2. NoneAnswering(s)
      <4>1. ~Answering(q[1])
        BY <2>2, <2>7 DEF Entered, Answering
      <4>2. \A j \in DOMAIN q : ~Answering(q[j])
        BY <2>2, <2>4, <4>1
      <4> QED BY <1>1, <4>2 DEF NoneAnswering
    <3>3. view'[c].current = view[c].current /\ view'[c].refused = view[c].refused
      BY <1>6, <2>2, <3>1
    <3> QED BY <1>1, <1>3, <1>4, <3>2, <3>3, ShownSame DEF QuietNow
  <2> QED BY <2>5, <2>6, <2>7
<1> QED BY <1>5, <1>6

\* An event that moves from the client's queue to the hub's is still under way.
LEMMA ShownSend ==
  ASSUME SysTypes, LinkInv, ShownOK, NEW c \in Client, NEW s \in Session, QuietNow(c, s),
         NEW d \in Client, NEW t \in Session, Send(d, t)
  PROVE  Agrees(c, s)'
<1> DEFINE P == [from : Session, event : EventType]
           q == queued[d]
           p == [from |-> t, event |-> Head(q)]
<1>1. /\ q \in Seq(EventType) /\ q # <<>> /\ queued \in [Client -> Seq(EventType)]
      /\ queued' = [queued EXCEPT ![d] = Tail(q)] /\ link[t] = "reading" /\ Belongs(t, d)
      /\ inbound \in Seq(P) /\ inbound' = Append(inbound, p)
      /\ UNCHANGED <<link, outbox, sendq, lost, sess, view>>
  BY DEF Send, Read, wire, SysTypes, ClientTypes, TypeInv, QueueTypes, HubInv, CoreOK
<1>2. Live(s) /\ NoneAnswering(s)
  BY <1>1 DEF QuietNow, Live, NoneAnswering
<1>3. q[1] \in EventType /\ Head(q) = q[1] /\ p \in P
  BY <1>1, HeadAndTail
<1> HIDE DEF P
<1>4. /\ \A i \in DOMAIN inbound : i \in DOMAIN inbound' /\ inbound'[i] = inbound[i]
      /\ Len(inbound) + 1 \in DOMAIN inbound' /\ inbound'[Len(inbound) + 1] = p
  BY <1>1, <1>3, Appended
<1>5. /\ \A i \in DOMAIN inbound : inbound[i].from = s => ~Entering(inbound[i].event)
      /\ p.from = s => ~Entering(p.event)
      /\ \A i \in DOMAIN queued'[c] : ~Entering(queued'[c][i])
  BY <1>4 DEF QuietNow, NoneEntering
<1>6. \A i \in DOMAIN queued[c] : ~Entering(queued[c][i])
  <2>1. CASE c # d
    BY <1>1, <1>5, <2>1
  <2>2. CASE c = d
    <3>1. s = t
      BY <1>1, <1>2, <2>2, OneConnection DEF QuietNow, Live
    <3>2. ~Entering(q[1])
      BY <1>3, <1>5, <3>1
    <3>3. queued'[c] = Tail(q) /\ queued[c] = q
      BY <1>1, <2>2
    <3> SUFFICES ASSUME NEW i \in DOMAIN q, i # 1 PROVE ~Entering(q[i])
      BY <3>2, <3>3
    <3>4. i - 1 \in DOMAIN Tail(q) /\ Tail(q)[i - 1] = q[i]
      BY <1>1, HeadAndTail
    <3> QED BY <1>5, <3>3, <3>4
  <2> QED BY <2>1, <2>2
<1>7. NoneEntering(c, s)
  BY <1>5, <1>6 DEF NoneEntering
<1> QED BY <1>1, <1>2, <1>7, ShownSame DEF QuietNow

\* A command that changes the channel on the screen sends an event that enters one.
LEMMA ShownType ==
  ASSUME SysTypes, LinkInv, ShownOK, NEW c \in Client, NEW s \in Session, QuietNow(c, s), NEW d \in Client, Type(d)
  PROVE  Agrees(c, s)'
<1>1. PICK cmd \in Head(typing[d]) : /\ view' = [view EXCEPT ![d] = Typed(view[d], cmd)]
                                     /\ queued' = [queued EXCEPT ![d] = queued[d] \o Sent(view[d], cmd)]
  BY DEF Type
<1>2. /\ queued \in [Client -> Seq(EventType)] /\ typing \in [Client -> Seq(SUBSET CommandType)]
      /\ view = [x \in Client |-> view[x]] /\ ViewOK(view[d]) /\ typing[d] # <<>>
      /\ UNCHANGED <<link, inbound, outbox, sendq, lost, sess>>
  BY DEF Type, vars, wire, SysTypes, ClientTypes
<1>3. cmd \in CommandType
  <2>1. typing[d] \in Seq(SUBSET CommandType) /\ typing[d] # <<>>
    BY <1>2
  <2> HIDE DEF CommandType
  <2>2. Head(typing[d]) \in SUBSET CommandType
    BY <2>1, HeadTailProperties
  <2> QED BY <2>2
<1> DEFINE v == view[d]
           r == Sent(v, cmd)
           w == Typed(v, cmd)
<1>4. /\ r \in Seq(EventType) /\ w.refused = v.refused
      /\ w.current = v.current \/ \E i \in DOMAIN r : Entering(r[i])
  BY <1>2, <1>3, SentEvents, TypedFields DEF ViewOK
<1>5. Live(s) /\ NoneAnswering(s)
  BY <1>2 DEF QuietNow, Live, NoneAnswering
<1>6. NoneEntering(c, s)
  <2>1. queued'[c] = queued[c] \/ (c = d /\ queued'[c] = queued[c] \o r)
    BY <1>1, <1>2
  <2> QED BY <1>2, <1>4, <2>1, EnteringKept DEF QuietNow
<1>7. view'[c].refused = view[c].refused /\ view'[c].current = view[c].current
  <2>1. CASE c # d
    BY <1>1, <1>2, <2>1
  <2>2. CASE c = d
    <3>1. view'[c] = w /\ queued'[c] = queued[c] \o r /\ queued[c] \in Seq(EventType)
      BY <1>1, <1>2, <2>2
    <3>2. ASSUME NEW i \in DOMAIN r, Entering(r[i]) PROVE FALSE
      <4> DEFINE n == Len(queued[c]) + i
      <4>1. n \in DOMAIN (queued[c] \o r) /\ (queued[c] \o r)[n] = r[i]
        <5>1. r \in Seq(EventType) /\ queued[c] \in Seq(EventType) /\ i \in DOMAIN r
          BY <1>4, <3>1
        <5> HIDE DEF r
        <5> QED BY <5>1, Followed
      <4>2. n \in DOMAIN queued'[c] /\ Entering(queued'[c][n])
        BY <3>1, <3>2, <4>1
      <4> QED BY <4>2 DEF QuietNow, NoneEntering
    <3>3. w.current = v.current
      BY <1>4, <3>2
    <3> QED BY <1>4, <2>2, <3>1, <3>3
  <2> QED BY <2>1, <2>2
<1> QED BY <1>2, <1>5, <1>6, <1>7, ShownSame DEF QuietNow

\* A handler that enters a channel, or is asked to, answers.
LEMMA ShownHandle ==
  ASSUME SysTypes, LinkInv, ShownOK, NEW c \in Client, NEW s \in Session, QuietNow(c, s), Handle, UNCHANGED clientVars
  PROVE  Agrees(c, s)'
<1>1. /\ outbox = <<>> /\ inbound # <<>> /\ inbound' = Tail(inbound) /\ UNCHANGED link /\ Sender \in Session
      /\ \/ UNCHANGED <<sendq, lost>>
         \/ \E to \in SUBSET Members(sess[Sender].ws) : Deliver(to, Envelope("ping_received"))
  BY HandlerKeeps, EventTyped DEF SysTypes, HubInv
<1>2. sendq[s] \in Seq(EnvelopeType) /\ inbound \in Seq([from : Session, event : EventType])
  BY DEF SysTypes, TypeInv, QueueTypes, HubInv, CoreOK
<1>3. \A i \in DOMAIN outbox' : ~(s \in outbox'[i].to /\ Answering(outbox'[i].env))
  BY DEF QuietNow, NoneAnswering
<1>4. s = Sender => ~Entering(Event) /\ sess'[s].current = sess[s].current
  BY <1>3, EntryAnswered DEF SysTypes
<1>5. sess'[s].current = sess[s].current
  <2>1. s # Sender => sess'[s] = sess[s]
    BY OthersKept DEF SysTypes
  <2> QED BY <1>4, <2>1
<1>6. NoneEntering(c, s)
  <2>1. queued'[c] = queued[c]
    BY DEF clientVars
  <2>2. \A i \in DOMAIN inbound : inbound[i].from = s => ~Entering(inbound[i].event)
    <3> SUFFICES ASSUME NEW i \in DOMAIN inbound, inbound[i].from = s PROVE ~Entering(inbound[i].event)
      OBVIOUS
    <3>1. CASE i = 1
      <4>1. Head(inbound) = inbound[1]
        BY <1>1, <1>2, HeadAndTail
      <4> QED BY <1>4, <3>1, <4>1 DEF Sender, Event
    <3>2. CASE i # 1
      <4>1. i - 1 \in DOMAIN inbound' /\ inbound'[i - 1] = inbound[i]
        BY <1>1, <1>2, <3>2, HeadAndTail
      <4> QED BY <4>1 DEF QuietNow, NoneEntering
    <3> QED BY <3>1, <3>2
  <2> QED BY <2>1, <2>2 DEF QuietNow, NoneEntering
<1>7. s \notin lost /\ \A i \in DOMAIN sendq[s] : ~Answering(sendq[s][i])
  <2>1. \A i \in DOMAIN sendq'[s] : ~Answering(sendq'[s][i])
    BY DEF QuietNow, NoneAnswering
  <2> DEFINE e == Envelope("ping_received")
  <2>2. e \in EnvelopeType
    BY EnvelopeOK DEF ServerEvent
  <2> HIDE DEF EnvelopeType
  <2>3. ASSUME NEW to, Deliver(to, e) PROVE s \notin lost /\ (sendq'[s] = sendq[s] \/ sendq'[s] = Append(sendq[s], e))
    BY <1>1, <2>3, LiveDelivery DEF QuietNow
  <2> HIDE DEF e
  <2>4. s \notin lost /\ (sendq'[s] = sendq[s] \/ sendq'[s] = Append(sendq[s], e))
    BY <1>1, <2>3 DEF QuietNow, e
  <2>5. \A i \in DOMAIN sendq[s] : i \in DOMAIN sendq'[s] /\ sendq'[s][i] = sendq[s][i]
    BY <1>2, <2>2, <2>4, Appended
  <2> QED BY <2>1, <2>4, <2>5
<1>8. Live(s) /\ NoneAnswering(s)
  BY <1>1, <1>7 DEF Live, NoneAnswering, QuietNow
<1> QED BY <1>5, <1>6, <1>8, ShownSame DEF QuietNow, clientVars

LEMMA ShownStep ==
  ASSUME SysTypes, LinkInv, EnteredOK, ShownOK, [SysNext]_sysVars
  PROVE  ShownOK'
<1> SUFFICES ASSUME NEW c \in Client, NEW s \in Session, QuietNow(c, s)
             PROVE  Agrees(c, s)'
  BY DEF ShownOK, QuietNow, Agrees, Live, Belongs
<1>1. ASSUME NEW d \in Client, NEW k \in DOMAIN Conns[d], Dial(d, k) PROVE Agrees(c, s)'
  BY <1>1, ShownDial
<1>2. ASSUME NEW d \in Client, NEW t \in Session, Show(d, t) PROVE Agrees(c, s)'
  BY <1>2, ShownShow
<1>3. ASSUME NEW d \in Client, NEW t \in Session, Send(d, t) PROVE Agrees(c, s)'
  BY <1>3, ShownSend
<1>4. ASSUME NEW d \in Client, Type(d) PROVE Agrees(c, s)'
  BY <1>4, ShownType
<1>5. CASE Handle /\ UNCHANGED clientVars
  BY <1>5, ShownHandle
<1>6. CASE \A d \in Client : \A k \in DOMAIN Conns[d] : ~Dial(d, k)
  <2>1. link[s] = "reading" /\ ~Restart
    BY <1>6, ReadingKept DEF QuietNow
  <2>2. ASSUME UNCHANGED <<queued, inbound, sess>>,
               NoneAnswering(s) /\ s \notin lost,
               view'[c].refused = view[c].refused /\ view'[c].current = view[c].current
        PROVE  Agrees(c, s)'
    <3>1. Live(s) /\ NoneEntering(c, s)
      BY <2>1, <2>2 DEF QuietNow, Live, NoneEntering
    <3> QED BY <2>2, <3>1, ShownSame DEF QuietNow
  <2>3. ASSUME NEW d \in Client, EndEffect(d) PROVE Agrees(c, s)'
    <3>1. /\ UNCHANGED <<link, queued, inbound, sess, sendq, outbox, lost>>
          /\ view' = [view EXCEPT ![d] = [view[d] EXCEPT !.effect = NoEffect]]
          /\ view = [x \in Client |-> view[x]] /\ ViewFields \subseteq DOMAIN view[d]
      BY <2>3 DEF EndEffect, vars, wire, SysTypes, ClientTypes, ViewOK
    <3> DEFINE v == view[d]
               w == [v EXCEPT !.effect = NoEffect]
    <3>2. w.refused = v.refused /\ w.current = v.current
      BY <3>1 DEF ViewFields
    <3>3. view'[c] = view[c] \/ (c = d /\ view'[c] = w)
      BY <3>1
    <3>4. view'[c].refused = view[c].refused /\ view'[c].current = view[c].current
      BY <3>2, <3>3
    <3>5. NoneAnswering(s) /\ s \notin lost
      BY <3>1 DEF QuietNow, NoneAnswering
    <3> QED BY <2>2, <3>1, <3>4, <3>5
  <2>4. ASSUME NEW t \in Session, Lose(t) \/ (RemoveSession(t) /\ UNCHANGED clientVars) PROVE Agrees(c, s)'
    <3>1. UNCHANGED <<queued, inbound, sess, sendq, outbox, lost, view>>
      BY <2>4 DEF Lose, RemoveSession, clientVars, wire
    <3> QED BY <2>2, <3>1 DEF QuietNow, NoneAnswering
  <2>5. ASSUME NEW b \in spawned, RunSpawned(b), UNCHANGED clientVars PROVE Agrees(c, s)'
    <3>1. /\ UNCHANGED <<queued, inbound, sess, outbox, view>> /\ Deliver(Members(b.ws), b.env) /\ b.env \in EnvelopeType
      BY <2>5 DEF RunSpawned, clientVars, SysTypes, TypeInv, QueueTypes
    <3>2. NoneAnswering(s) /\ s \notin lost
      BY <2>1, <3>1, AnsweringKept DEF QuietNow
    <3> QED BY <2>2, <3>1, <3>2
  <2>6. CASE Post /\ UNCHANGED clientVars
    <3>1. /\ UNCHANGED <<queued, inbound, sess, view>> /\ outbox # <<>> /\ outbox' = Tail(outbox)
          /\ Deliver(Head(outbox).to, Head(outbox).env) /\ outbox \in Seq(Out)
      BY <2>6 DEF Post, clientVars, SysTypes, TypeInv, QueueTypes
    <3>2. \A o \in Out : o.env \in EnvelopeType
      BY DEF Out
    <3> HIDE DEF Out, EnvelopeType
    <3> DEFINE to == outbox[1].to
               env == outbox[1].env
    <3>3. Deliver(to, env) /\ env \in EnvelopeType
      BY <3>1, <3>2, HeadAndTail
    <3>4. NoneAnswering(s) /\ s \notin lost
      BY <2>1, <3>1, <3>3, AnsweringKept DEF QuietNow
    <3> QED BY <2>2, <3>1, <3>4
  <2>7. CASE UNCHANGED sysVars
    <3>1. UNCHANGED <<queued, inbound, sess, sendq, outbox, lost, view>>
      BY <2>7 DEF sysVars, vars, clientVars, wire
    <3> QED BY <2>2, <3>1 DEF QuietNow, NoneAnswering
  <2> QED BY <1>2, <1>3, <1>4, <1>5, <1>6, <2>1, <2>3, <2>4, <2>5, <2>6, <2>7, SysCases
<1> QED BY <1>1, <1>6

\* What is typed once the last join is answered goes to the channel on the
\* screen (Hub.sendMessage files under the session's channel, App.Current is
\* the screen's): EnteredOK follows the answers to the client and ShownOK says
\* that what they leave on the screen is the session's channel, since a client
\* has one connection at a time and resyncs it.
THEOREM ScreenAgrees == SysSpec => []SentWhereShown
<1>1. SysInit => EnteredOK /\ ShownOK
  <2> SUFFICES ASSUME SysInit PROVE EnteredOK /\ ShownOK
    OBVIOUS
  <2>1. \A s \in Session : link[s] = "new"
    BY DEF SysInit, Init
  <2> QED BY <2>1 DEF EnteredOK, ShownOK, Live
<1>2. SysTypes /\ LinkInv /\ EnteredOK /\ ShownOK /\ [SysNext]_sysVars => (EnteredOK /\ ShownOK)'
  BY EnteredStep, ShownStep
<1>3. ShownOK => SentWhereShown
  BY DEF ShownOK, SentWhereShown, Live
<1> QED BY <1>1, <1>2, <1>3, LinkInvariant, PTL DEF SysSpec
-----------------------------------------------------------------------------
(* The order of the messages on a screen.                                  *)

Carries(env) == env.type \in News \cup {"history_batch"}
Known(list, d) == \A i \in DOMAIN list : list[i] \in DOMAIN d.messages
Below(list, id) == \A i \in DOMAIN list : list[i] < id

\* The messages a client keeps, on the screen or cleared from it.
Lists(v) == {v.msgs[name] : name \in DOMAIN v.msgs} \cup {v.cleared[name] : name \in DOMAIN v.cleared}

\* What an envelope carries is in the order it was saved in; news is one message.
CarriedOK(env, d) ==
  /\ Carries(env) => Increasing(env.msgs) /\ Known(env.msgs, d)
  /\ env.type \in News => Len(env.msgs) = 1

\* Everything the envelopes q carry was saved before id.
Passed(q, id) == \A i \in DOMAIN q : Carries(q[i]) => Below(q[i].msgs, id)

\* News among the envelopes q is newer than what the earlier ones carry.
InOrder(q) ==
  \A i, j \in DOMAIN q : i < j /\ Carries(q[i]) /\ q[j].type \in News => Below(q[i].msgs, q[j].msgs[1])

AllCarriedOK ==
  /\ \A s \in Session : \A i \in DOMAIN sendq[s] : CarriedOK(sendq[s][i], db)
  /\ \A i \in DOMAIN outbox : CarriedOK(outbox[i].env, db)

\* News is newer than everything sent to the session before,
NewsInOrder ==
  /\ \A s \in Session : InOrder(sendq[s])
  /\ \A i \in DOMAIN outbox : outbox[i].env.type \in News =>
       i = 1 /\ Len(outbox) = 1 /\ \A s \in outbox[i].to : Passed(sendq[s], outbox[i].env.msgs[1])

\* and than everything on the screen it is under way to.
Unseen(list, q) == \A i \in DOMAIN q : q[i].type \in News => Below(list, q[i].msgs[1])
NewsUnseen ==
  \A c \in Client : \A s \in Session : Belongs(s, c) /\ link[s] = "reading" =>
    \A list \in Lists(view[c]) :
      /\ Unseen(list, sendq[s])
      /\ \A i \in DOMAIN outbox : s \in outbox[i].to /\ outbox[i].env.type \in News =>
           Below(list, outbox[i].env.msgs[1])

ListsOK == \A c \in Client : \A list \in Lists(view[c]) : list \in Seq(Nat) /\ Increasing(list) /\ Known(list, db)

OrderInv == AllCarriedOK /\ NewsInOrder /\ NewsUnseen /\ ListsOK

\* A sequence with one element after its n is in order, if the element is above them.
LEMMA NewestLast ==
  ASSUME NEW list \in Seq(Nat), Increasing(list), NEW id, Below(list, id), NEW longer \in Seq(Nat),
         Len(longer) = Len(list) + 1, longer[Len(list) + 1] = id, \A i \in 1..Len(list) : longer[i] = list[i]
  PROVE  Increasing(longer)
<1> DEFINE n == Len(list)
<1>1. n \in Nat /\ DOMAIN longer = 1..(n + 1) /\ DOMAIN list = 1..n
  OBVIOUS
<1>4. longer[n + 1] = id /\ \A i \in 1..n : longer[i] = list[i]
  OBVIOUS
<1> HIDE DEF n
<1>2. \A i \in 1..(n + 1) : i \in 1..n \/ i = n + 1
  BY <1>1
<1>3. ASSUME NEW i \in DOMAIN longer, NEW j \in DOMAIN longer, i < j PROVE longer[i] < longer[j]
  <2>1. i \in 1..n /\ longer[i] = list[i]
    BY <1>4, <1>1, <1>3
  <2>2. CASE j = n + 1
    BY <1>4, <1>1, <2>1, <2>2 DEF Below
  <2>3. CASE j \in 1..n
    BY <1>4, <1>1, <1>3, <2>1, <2>3 DEF Increasing
  <2> QED BY <1>1, <1>2, <2>2, <2>3
<1> QED BY <1>3 DEF Increasing

\* A sequence that one element is added to.
LEMMA OneMore ==
  ASSUME NEW list \in Seq(Nat), NEW new \in Seq(Nat), Len(new) = 1
  PROVE  /\ list \o new \in Seq(Nat) /\ Len(list \o new) = Len(list) + 1 /\ (list \o new)[Len(list) + 1] = new[1]
         /\ \A i \in 1..Len(list) : (list \o new)[i] = list[i]
         /\ DOMAIN (list \o new) = 1..(Len(list) + 1)
<1>1. /\ list \o new \in Seq(Nat) /\ Len(list \o new) = Len(list) + Len(new)
      /\ \A i \in 1..(Len(list) + Len(new)) : (list \o new)[i] = IF i <= Len(list) THEN list[i] ELSE new[i - Len(list)]
  BY ConcatProperties
<1>2. Len(list) \in Nat
  OBVIOUS
<1> DEFINE n == Len(list)
<1>3. n \in Nat /\ n + 1 \in 1..(n + 1) /\ ~(n + 1 <= n) /\ n + 1 - n = 1
  BY <1>2
<1>4. (list \o new)[n + 1] = new[1]
  BY <1>1, <1>3
<1>5. \A i \in 1..n : (list \o new)[i] = list[i]
  BY <1>1, <1>3
<1>6. DOMAIN (list \o new) = 1..Len(list \o new)
  BY <1>1
<1> QED BY <1>1, <1>4, <1>5, <1>6

\* The end of a sequence has some of its elements.
LEMMA EndOf ==
  ASSUME NEW list \in Seq(Nat), NEW m \in Nat \ {0}
  PROVE  /\ SubSeq(list, m, Len(list)) \in Seq(Nat)
         /\ \A i \in DOMAIN SubSeq(list, m, Len(list)) :
              \E j \in DOMAIN list : SubSeq(list, m, Len(list))[i] = list[j]
<1> DEFINE n == Len(list)
           part == SubSeq(list, m, n)
           k == IF m <= n THEN n - m + 1 ELSE 0
<1>1. n \in Nat /\ DOMAIN list = 1..n
  OBVIOUS
<1>2. part \in Seq(Nat) /\ Len(part) = k /\ \A i \in 1..(n - m + 1) : part[i] = list[m + i - 1]
  <2>1. m \in Int /\ n \in Int /\ \A i \in m..n : list[i] \in Nat
    BY <1>1
  <2> QED BY <2>1, SubSeqProperties
<1> HIDE DEF part
<1>3. ASSUME NEW i \in DOMAIN part PROVE i \in 1..(n - m + 1)
  <2>1. i \in 1..k
    BY <1>2
  <2> HIDE DEF n
  <2> QED BY <1>1, <2>1
<1> HIDE DEF n, k
<1>4. \A i \in 1..(n - m + 1) : m + i - 1 \in 1..n
  BY <1>1
<1>5. \A i \in DOMAIN part : \E j \in DOMAIN list : part[i] = list[j]
  BY <1>1, <1>2, <1>3, <1>4
<1> QED BY <1>2, <1>5 DEF part, n

\* A message newer than the list goes to its end.
LEMMA AppendOrdered ==
  ASSUME NEW list \in Seq(Nat), Increasing(list), NEW new \in Seq(Nat), Len(new) = 1, Below(list, new[1])
  PROVE  /\ AppendMessage(list, new) \in Seq(Nat) /\ Increasing(AppendMessage(list, new))
         /\ \A i \in DOMAIN AppendMessage(list, new) :
              \/ AppendMessage(list, new)[i] = new[1]
              \/ \E j \in DOMAIN list : AppendMessage(list, new)[i] = list[j]
<1> DEFINE longer == list \o new
           from == IF Len(longer) > ViewCap THEN Len(longer) - ViewCap + 1 ELSE 1
           part == SubSeq(longer, from, Len(longer))
<1>1. /\ longer \in Seq(Nat) /\ Len(longer) = Len(list) + 1 /\ longer[Len(list) + 1] = new[1]
      /\ \A i \in 1..Len(list) : longer[i] = list[i]
      /\ DOMAIN longer = 1..(Len(list) + 1)
  BY OneMore
<1>2. AppendMessage(list, new) = part
  BY DEF AppendMessage
<1>3. Increasing(longer)
  <2> HIDE DEF longer
  <2> QED BY <1>1, NewestLast
<1>4. \A i \in DOMAIN longer : longer[i] = new[1] \/ \E j \in DOMAIN list : longer[i] = list[j]
  <2> HIDE DEF longer
  <2>1. DOMAIN list = 1..Len(list) /\ Len(list) \in Nat
    OBVIOUS
  <2> QED BY <1>1, <2>1
<1> HIDE DEF longer
<1>5. Len(longer) \in Nat /\ from \in Nat \ {0}
  BY <1>1, ChatClientAssumption DEF ChatClientAssumption
<1> HIDE DEF from
<1>6. part \in Seq(Nat) /\ \A i \in DOMAIN part : \E j \in DOMAIN longer : part[i] = longer[j]
  BY <1>1, <1>5, EndOf
<1>7. Increasing(part)
  BY <1>1, <1>3, <1>5, IncreasingPart
<1> HIDE DEF part
<1>8. \A i \in DOMAIN part : part[i] = new[1] \/ \E j \in DOMAIN list : part[i] = list[j]
  BY <1>4, <1>6
<1> QED BY <1>2, <1>6, <1>7, <1>8

\* The tables keep the messages.
LEMMA MessagesStay ==
  ASSUME SysTypes, [SysNext]_sysVars
  PROVE  DOMAIN db.messages \subseteq DOMAIN db'.messages
<1>1. ASSUME NEW c \in Client, NEW i \in DOMAIN Conns[c], Dial(c, i) PROVE db' = db
  BY <1>1 DEF Dial, Register
<1>2. ASSUME NEW c \in Client, NEW t \in Session, Show(c, t) \/ Send(c, t) PROVE db' = db
  BY <1>2 DEF Show, WriteOut, Send, Read
<1>3. ASSUME NEW c \in Client, Type(c) \/ EndEffect(c) PROVE db' = db
  BY <1>3 DEF Type, EndEffect, vars
<1>4. ASSUME NEW t \in Session, RemoveSession(t) \/ Lose(t) PROVE db' = db
  BY <1>4 DEF RemoveSession, Lose
<1>5. CASE Restart \/ (\E b \in spawned : RunSpawned(b)) \/ Post
  BY <1>5 DEF Restart, RunSpawned, Post
<1>6. CASE UNCHANGED sysVars
  BY <1>6 DEF sysVars, vars
<1>7. CASE Handle
  BY <1>7, MessagesKept DEF Next, SysTypes
<1> QED BY <1>1, <1>2, <1>3, <1>4, <1>5, <1>6, <1>7, SysCases

\* What the client keeps is what it kept, but for what an envelope carries.
LEMMA ListsShown ==
  ASSUME NEW v, ViewFields \subseteq DOMAIN v, NEW env, NEW list \in Lists(Apply(v, env))
  PROVE  \/ list \in Lists(v)
         \/ env.type = "history_batch" /\ list = env.msgs
         \/ env.type \in News /\ \E old \in Lists(v) \cup {<<>>} : list = AppendMessage(old, env.msgs)
<1> DEFINE w == Apply(v, env)
           name == env.chan[2]
           old == At(v.msgs, name, <<>>)
           joined == AppendMessage(old, env.msgs)
<1>1. /\ w.cleared = v.cleared
      /\ w.msgs = IF env.type = "history_batch" THEN With(v.msgs, name, env.msgs)
                  ELSE IF env.type \in {"message_new", "emote_new"} THEN With(v.msgs, name, joined)
                  ELSE v.msgs
  BY ApplyFields
<1>2. old \in Lists(v) \cup {<<>>}
  BY DEF Lists, At
<1> HIDE DEF w, name, old, joined
<1>3. \/ \E n \in DOMAIN w.msgs : list = w.msgs[n]
      \/ \E n \in DOMAIN v.cleared : list = v.cleared[n]
  BY <1>1 DEF Lists, w
<1>4. CASE \E n \in DOMAIN v.cleared : list = v.cleared[n]
  BY <1>4 DEF Lists
<1>5. CASE \E n \in DOMAIN w.msgs : list = w.msgs[n]
  <2>1. PICK n \in DOMAIN w.msgs : list = w.msgs[n]
    BY <1>5
  <2>2. CASE w.msgs = v.msgs
    BY <2>1, <2>2 DEF Lists
  <2>3. ASSUME NEW l, w.msgs = With(v.msgs, name, l) PROVE list = l \/ list \in Lists(v)
    BY <2>1, <2>3 DEF Lists, With
  <2>4. CASE env.type = "history_batch"
    BY <1>1, <2>3, <2>4
  <2>5. CASE env.type \in News
    <3>1. w.msgs = With(v.msgs, name, joined)
      BY <1>1, <2>5 DEF News
    <3>2. list = joined \/ list \in Lists(v)
      BY <2>3, <3>1
    <3> QED BY <1>2, <2>5, <3>2 DEF joined
  <2>6. CASE env.type # "history_batch" /\ env.type \notin News
    BY <1>1, <2>2, <2>6 DEF News
  <2> QED BY <2>4, <2>5, <2>6
<1> QED BY <1>3, <1>4, <1>5

\* /clear and /restore move a list; no command makes one.
LEMMA ListsTyped ==
  ASSUME NEW v, ViewFields \subseteq DOMAIN v, NEW cmd
  PROVE  Lists(Typed(v, cmd)) \subseteq Lists(v)
<1> DEFINE w == Typed(v, cmd)
           here == At(v.msgs, v.current, <<>>)
           saved == At(v.cleared, v.current, <<>>)
<1>1. \/ w.msgs = v.msgs /\ w.cleared = v.cleared
      \/ /\ w.msgs = Without(v.msgs, v.current)
         /\ w.cleared = IF here # <<>> THEN With(v.cleared, v.current, here) ELSE v.cleared
      \/ /\ saved # <<>> /\ w.msgs = With(v.msgs, v.current, saved)
         /\ w.cleared = Without(v.cleared, v.current)
  BY TypedFields
<1>2. (here # <<>> => here \in Lists(v)) /\ (saved # <<>> => saved \in Lists(v))
  BY DEF Lists, At
<1> HIDE DEF w, here, saved
<1>3. CASE w.msgs = v.msgs /\ w.cleared = v.cleared
  BY <1>3 DEF Lists, w
<1>4. ASSUME w.msgs = Without(v.msgs, v.current),
             w.cleared = IF here # <<>> THEN With(v.cleared, v.current, here) ELSE v.cleared
      PROVE  Lists(w) \subseteq Lists(v)
  <2>1. CASE here = <<>>
    BY <1>4, <2>1 DEF Lists, Without
  <2>2. CASE here # <<>>
    BY <1>2, <1>4, <2>2 DEF Lists, Without, With
  <2> QED BY <2>1, <2>2
<1>5. ASSUME saved # <<>>, w.msgs = With(v.msgs, v.current, saved), w.cleared = Without(v.cleared, v.current)
      PROVE  Lists(w) \subseteq Lists(v)
  BY <1>2, <1>5 DEF Lists, Without, With
<1> QED BY <1>1, <1>3, <1>4, <1>5 DEF w

LEMMA AsideCarries ==
  ASSUME NEW env, env.type \in Aside
  PROVE  ~Carries(env) /\ env.type \notin News /\ \A d : CarriedOK(env, d)
BY DEF Aside, Carries, News, CarriedOK

\* A sequence of envelopes after a step that takes the first, adds one or none.
LEMMA CarriedAfter ==
  ASSUME NEW q \in Seq(EnvelopeType), NEW d, \A i \in DOMAIN q : CarriedOK(q[i], d)
  PROVE  /\ q # <<>> => \A i \in DOMAIN Tail(q) : CarriedOK(Tail(q)[i], d)
         /\ \A e \in EnvelopeType : CarriedOK(e, d) => \A i \in DOMAIN Append(q, e) : CarriedOK(Append(q, e)[i], d)
<1> HIDE DEF EnvelopeType
<1>1. q # <<>> => \A i \in DOMAIN Tail(q) : CarriedOK(Tail(q)[i], d)
  BY HeadAndTail
<1>2. ASSUME NEW e \in EnvelopeType, CarriedOK(e, d), NEW i \in DOMAIN Append(q, e) PROVE CarriedOK(Append(q, e)[i], d)
  <2>1. /\ i \in DOMAIN q \/ Append(q, e)[i] = e
        /\ i \in DOMAIN q => Append(q, e)[i] = q[i]
    BY Appended
  <2> QED BY <1>2, <2>1
<1> QED BY <1>1, <1>2

LEMMA CarriedStep ==
  ASSUME SysTypes, SysTypes', LinkInv, AllCarriedOK, [SysNext]_sysVars
  PROVE  AllCarriedOK'
<1>1. /\ sendq \in [Session -> Seq(EnvelopeType)] /\ outbox \in Seq(Out) /\ IsTables(db')
      /\ \A o \in Out : o.env \in EnvelopeType
  BY DEF SysTypes, TypeInv, QueueTypes, HubInv, CoreOK, Out
<1> HIDE DEF EnvelopeType, Out
<1>2. ASSUME NEW env, CarriedOK(env, db) PROVE CarriedOK(env, db')
  BY <1>2, MessagesStay DEF CarriedOK, Known
<1>3. \A i \in DOMAIN outbox : CarriedOK(outbox[i].env, db')
  BY <1>2 DEF AllCarriedOK
<1>4. ASSUME NEW s \in Session, NEW i \in DOMAIN sendq'[s] PROVE CarriedOK(sendq'[s][i], db')
  <2> DEFINE q == sendq[s]
  <2>1. q \in Seq(EnvelopeType) /\ \A j \in DOMAIN q : CarriedOK(q[j], db')
    BY <1>1, <1>2 DEF AllCarriedOK
  <2>2. CASE sendq'[s] = q \/ sendq'[s] = <<>>
    BY <1>4, <2>1, <2>2
  <2>3. CASE q # <<>> /\ sendq'[s] = Tail(q)
    BY <1>4, <2>1, <2>3, CarriedAfter
  <2>4. ASSUME NEW env \in EnvelopeType, sendq'[s] = Append(q, env),
               \/ outbox # <<>> /\ outbox' = Tail(outbox) /\ env = outbox[1].env /\ s \in outbox[1].to
               \/ env.type \in Aside
        PROVE  CarriedOK(sendq'[s][i], db')
    <3>1. CarriedOK(env, db')
      <4>1. CASE env.type \in Aside
        BY <4>1, AsideCarries
      <4>2. CASE outbox # <<>> /\ env = outbox[1].env
        BY <1>1, <1>3, <4>2, HeadAndTail
      <4> QED BY <2>4, <4>1, <4>2
    <3> QED BY <1>4, <2>1, <2>4, <3>1, CarriedAfter
  <2> QED BY <2>2, <2>3, <2>4, SysWire
<1>5. ASSUME NEW i \in DOMAIN outbox' PROVE CarriedOK(outbox'[i].env, db')
  <2>1. CASE outbox' = outbox \/ outbox' = <<>>
    BY <1>3, <1>5, <2>1
  <2>2. CASE outbox # <<>> /\ outbox' = Tail(outbox)
    BY <1>1, <1>3, <1>5, <2>2, HeadAndTail
  <2>3. CASE Handle
    <3> DEFINE o == outbox'[i]
               env == o.env
    <3>1. Tells(o)
      BY <1>5, <2>3, HandlerTold DEF SysTypes, AllTold
    <3> HIDE DEF o
    <3>2. CASE env.type = "history_batch"
      <4>1. env.msgs = ListHistory(db', env.chan)
        BY <3>1, <3>2 DEF Tells
      <4>2. /\ Increasing(ListHistory(db', env.chan))
            /\ \A n \in DOMAIN ListHistory(db', env.chan) : ListHistory(db', env.chan)[n] \in DOMAIN db'.messages
        BY <1>1, HistoryOf
      <4> QED BY <3>2, <4>1, <4>2 DEF CarriedOK, Known, News, o
    <3>3. CASE env.type \in News
      <4> DEFINE id == SavedId
      <4>1. env.msgs = <<id>> /\ id \in DOMAIN db'.messages
        BY <3>1, <3>3 DEF Tells, Saves
      <4> HIDE DEF id
      <4>2. DOMAIN <<id>> = {1} /\ Len(<<id>>) = 1 /\ <<id>>[1] = id
        OBVIOUS
      <4>3. Increasing(<<id>>) /\ Known(<<id>>, db')
        BY <4>1, <4>2 DEF Increasing, Known
      <4> QED BY <4>1, <4>2, <4>3 DEF CarriedOK, o
    <3>4. CASE env.type # "history_batch" /\ env.type \notin News
      BY <3>4 DEF CarriedOK, Carries, o
    <3> QED BY <3>2, <3>3, <3>4
  <2> QED BY <2>1, <2>2, <2>3, SysOutbox
<1> QED BY <1>4, <1>5 DEF AllCarriedOK

\* What is saved next is newer than everything known.
LEMMA KnownBelow ==
  ASSUME SysTypes
  PROVE  \A list : Known(list, db) => Below(list, SavedId)
<1>1. DOMAIN db.messages = 1..Len(db.messages) /\ Len(db.messages) \in Nat
  BY DEF SysTypes, HubInv, CoreOK, IsTables
<1> SUFFICES ASSUME NEW list, Known(list, db), NEW i \in DOMAIN list PROVE list[i] < SavedId
  BY DEF Below
<1>2. list[i] \in 1..Len(db.messages)
  BY <1>1 DEF Known
<1> QED BY <1>1, <1>2 DEF SavedId

LEMMA OrderAfter ==
  ASSUME NEW q \in Seq(EnvelopeType), InOrder(q)
  PROVE  /\ q # <<>> => InOrder(Tail(q))
         /\ \A e \in EnvelopeType : (e.type \in News => Passed(q, e.msgs[1])) => InOrder(Append(q, e))
<1> HIDE DEF EnvelopeType
<1>1. ASSUME q # <<>> PROVE InOrder(Tail(q))
  <2> SUFFICES ASSUME NEW i \in DOMAIN Tail(q), NEW j \in DOMAIN Tail(q), i < j,
                      Carries(Tail(q)[i]), Tail(q)[j].type \in News
               PROVE  Below(Tail(q)[i].msgs, Tail(q)[j].msgs[1])
    BY DEF InOrder
  <2>1. /\ i + 1 \in DOMAIN q /\ Tail(q)[i] = q[i + 1]
        /\ j + 1 \in DOMAIN q /\ Tail(q)[j] = q[j + 1]
    BY <1>1, HeadAndTail
  <2>2. i + 1 < j + 1
    <3>1. i \in Int /\ j \in Int
      BY <1>1
    <3> QED BY <3>1
  <2> QED BY <2>1, <2>2 DEF InOrder
<1>2. ASSUME NEW e \in EnvelopeType, e.type \in News => Passed(q, e.msgs[1]) PROVE InOrder(Append(q, e))
  <2> DEFINE p == Append(q, e)
             n == Len(q) + 1
  <2>1. /\ \A i \in DOMAIN q : p[i] = q[i] /\ i < n
        /\ \A i \in DOMAIN p : i \in DOMAIN q \/ (i = n /\ p[i] = e)
        /\ \A i \in DOMAIN q : i \in Int
        /\ n \in Int
    BY Appended
  <2> HIDE DEF p, n
  <2> SUFFICES ASSUME NEW i \in DOMAIN p, NEW j \in DOMAIN p, i < j, Carries(p[i]), p[j].type \in News
               PROVE  Below(p[i].msgs, p[j].msgs[1])
    BY DEF InOrder, p
  <2>2. i \in DOMAIN q /\ p[i] = q[i]
    BY <2>1
  <2>3. CASE j \in DOMAIN q
    BY <2>1, <2>2, <2>3 DEF InOrder
  <2>4. CASE p[j] = e
    BY <1>2, <2>2, <2>4 DEF Passed
  <2> QED BY <2>1, <2>3, <2>4
<1> QED BY <1>1, <1>2

LEMMA PassedAfter ==
  ASSUME NEW q \in Seq(EnvelopeType), NEW id, Passed(q, id)
  PROVE  /\ q # <<>> => Passed(Tail(q), id)
         /\ \A e \in EnvelopeType : ~Carries(e) => Passed(Append(q, e), id)
<1> HIDE DEF EnvelopeType
<1>1. q # <<>> => Passed(Tail(q), id)
  BY HeadAndTail DEF Passed
<1>2. ASSUME NEW e \in EnvelopeType, ~Carries(e) PROVE Passed(Append(q, e), id)
  <2> DEFINE p == Append(q, e)
  <2>1. \A i \in DOMAIN p : (i \in DOMAIN q /\ p[i] = q[i]) \/ p[i] = e
    BY Appended
  <2> HIDE DEF p
  <2>2. Passed(p, id)
    BY <1>2, <2>1 DEF Passed
  <2> QED BY <2>2 DEF p
<1> QED BY <1>1, <1>2

\* A queue that gets nothing from outbox is passed by what passed it.
LEMMA PassedKept ==
  ASSUME SysTypes, LinkInv, [SysNext]_sysVars, ~(outbox # <<>> /\ outbox' = Tail(outbox)),
         NEW s \in Session, NEW id, Passed(sendq[s], id)
  PROVE  Passed(sendq'[s], id)
<1> DEFINE q == sendq[s]
<1>1. q \in Seq(EnvelopeType)
  BY DEF SysTypes, TypeInv, QueueTypes
<1>2. CASE sendq'[s] = q
  BY <1>2
<1>3. CASE sendq'[s] = <<>>
  BY <1>3 DEF Passed
<1>4. CASE q # <<>> /\ sendq'[s] = Tail(q)
  BY <1>1, <1>4, PassedAfter
<1>5. ASSUME NEW env \in EnvelopeType, sendq'[s] = Append(q, env), env.type \in Aside PROVE Passed(sendq'[s], id)
  BY <1>1, <1>5, PassedAfter, AsideCarries
<1> QED BY <1>2, <1>3, <1>4, <1>5, SysWire

LEMMA NewsInOrderStep ==
  ASSUME SysTypes, SysTypes', LinkInv, AllCarriedOK, NewsInOrder, [SysNext]_sysVars
  PROVE  NewsInOrder'
<1>1. /\ sendq \in [Session -> Seq(EnvelopeType)] /\ outbox \in Seq(Out) /\ outbox' \in Seq(Out)
      /\ \A o \in Out : o.env \in EnvelopeType /\ o.to \subseteq Session
  BY DEF SysTypes, TypeInv, QueueTypes, Out
<1> HIDE DEF EnvelopeType, Out
<1>2. ASSUME NEW s \in Session PROVE InOrder(sendq'[s])
  <2> DEFINE q == sendq[s]
  <2>1. q \in Seq(EnvelopeType) /\ InOrder(q)
    BY <1>1 DEF NewsInOrder
  <2>2. CASE sendq'[s] = q
    BY <2>1, <2>2
  <2>3. CASE sendq'[s] = <<>>
    BY <2>3 DEF InOrder
  <2>4. CASE q # <<>> /\ sendq'[s] = Tail(q)
    BY <2>1, <2>4, OrderAfter
  <2>5. ASSUME NEW env \in EnvelopeType, sendq'[s] = Append(q, env),
               \/ outbox # <<>> /\ outbox' = Tail(outbox) /\ env = outbox[1].env /\ s \in outbox[1].to
               \/ env.type \in Aside
        PROVE  InOrder(sendq'[s])
    <3>1. env.type \in News => Passed(q, env.msgs[1])
      <4>1. CASE env.type \in Aside
        BY <4>1, AsideCarries
      <4>2. CASE outbox # <<>> /\ env = outbox[1].env /\ s \in outbox[1].to
        BY <1>1, <4>2, HeadAndTail DEF NewsInOrder
      <4> QED BY <2>5, <4>1, <4>2
    <3> QED BY <2>1, <2>5, <3>1, OrderAfter
  <2> QED BY <2>2, <2>3, <2>4, <2>5, SysWire
<1>3. ASSUME NEW i \in DOMAIN outbox', outbox'[i].env.type \in News
      PROVE  i = 1 /\ Len(outbox') = 1 /\ \A s \in outbox'[i].to : Passed(sendq'[s], outbox'[i].env.msgs[1])
  <2>1. outbox'[i] \in Out /\ outbox'[i].to \subseteq Session
    BY <1>1, <1>3
  <2>2. CASE outbox' = outbox /\ ~(outbox # <<>> /\ outbox' = Tail(outbox))
    <3>1. i = 1 /\ Len(outbox) = 1 /\ \A s \in outbox[i].to : Passed(sendq[s], outbox[i].env.msgs[1])
      BY <1>3, <2>2 DEF NewsInOrder
    <3>3. \A s \in outbox[i].to : Passed(sendq'[s], outbox[i].env.msgs[1])
      BY <2>1, <2>2, <3>1, PassedKept
    <3> QED BY <2>2, <3>1, <3>3
  <2>3. CASE outbox # <<>> /\ outbox' = Tail(outbox)
    <3>1. i + 1 \in DOMAIN outbox /\ outbox'[i] = outbox[i + 1] /\ i \in Nat \ {0}
      BY <1>1, <1>3, <2>3, HeadAndTail
    <3>2. i + 1 = 1
      BY <1>3, <3>1 DEF NewsInOrder
    <3> QED BY <3>1, <3>2
  <2>4. CASE outbox' = <<>>
    BY <1>3, <2>4
  <2>5. CASE Handle
    <3> DEFINE o == outbox'[i]
    <3>1. outbox' = <<o>> /\ o.env.msgs = <<SavedId>>
      <4>1. Tells(o) /\ o.env.type \in News
        BY <1>3, <2>5, HandlerTold DEF SysTypes, AllTold
      <4> QED BY <4>1 DEF Tells
    <3>2. i = 1 /\ Len(outbox') = 1 /\ outbox'[i].env.msgs[1] = SavedId
      <4> HIDE DEF o
      <4>1. Len(outbox') = 1 /\ DOMAIN outbox' = {1}
        BY <3>1
      <4> QED BY <1>3, <3>1, <4>1 DEF o
    <3>3. ASSUME NEW s \in outbox'[i].to PROVE Passed(sendq'[s], SavedId)
      <4>1. s \in Session /\ outbox = <<>>
        BY <2>1, <2>5, <3>3, HandlerKeeps
      <4>2. Passed(sendq[s], SavedId)
        BY <4>1, KnownBelow DEF AllCarriedOK, CarriedOK, Passed
      <4> QED BY <4>1, <4>2, PassedKept
    <3> QED BY <3>2, <3>3
  <2> QED BY <2>2, <2>3, <2>4, <2>5, SysOutbox
<1> QED BY <1>2, <1>3 DEF NewsInOrder

LEMMA ListsKept ==
  ASSUME SysTypes, [SysNext]_sysVars, NEW c \in Client
  PROVE  \/ Lists(view'[c]) \subseteq Lists(view[c])
         \/ \E s \in Session : Show(c, s) /\ view'[c] = Apply(view[c], Head(sendq[s]))
<1> DEFINE v == view[c]
<1>1. ViewFields \subseteq DOMAIN v
  BY DEF SysTypes, ClientTypes, ViewOK
<1> DEFINE w == [v EXCEPT !.effect = NoEffect]
<1>2. Lists(w) \subseteq Lists(v)
  <2>1. w.msgs = v.msgs /\ w.cleared = v.cleared
    BY <1>1 DEF ViewFields
  <2> HIDE DEF w
  <2> QED BY <2>1 DEF Lists
<1>3. \A cmd : Lists(Typed(v, cmd)) \subseteq Lists(v)
  BY <1>1, ListsTyped
<1> QED BY <1>2, <1>3, SysViews

\* What is shown is in order and newer news comes after it.
LEMMA ShownInOrder ==
  ASSUME SysTypes, AllCarriedOK, NewsInOrder, NewsUnseen, ListsOK, NEW c \in Client, NEW s \in Session, Show(c, s),
         NEW list \in Lists(Apply(view[c], Head(sendq[s])))
  PROVE  /\ list \in Seq(Nat) /\ Increasing(list) /\ Known(list, db)
         /\ \A j \in DOMAIN sendq[s] : j > 1 /\ sendq[s][j].type \in News => Below(list, sendq[s][j].msgs[1])
<1> DEFINE q == sendq[s]
           v == view[c]
           env == q[1]
           Good(l) == /\ l \in Seq(Nat) /\ Increasing(l) /\ Known(l, db)
                      /\ \A j \in DOMAIN q : j > 1 /\ q[j].type \in News => Below(l, q[j].msgs[1])
<1>1. /\ q \in Seq(EnvelopeType) /\ q # <<>> /\ ViewFields \subseteq DOMAIN v
      /\ Belongs(s, c) /\ link[s] = "reading" /\ InOrder(q)
  BY ShowTyped DEF Show, SysTypes, ClientTypes, ViewOK, NewsInOrder
<1>2. env = Head(q) /\ 1 \in DOMAIN q /\ env \in EnvelopeType /\ CarriedOK(env, db)
  <2>1. env = Head(q) /\ 1 \in DOMAIN q
    <3> HIDE DEF EnvelopeType
    <3> QED BY <1>1, HeadAndTail
  <2> QED BY <1>1, <2>1, ShowTyped DEF AllCarriedOK
<1>3. env.msgs \in Seq(Nat)
  BY <1>2, EnvelopeTexts
<1>4. \A l \in Lists(v) : Good(l) /\ (env.type \in News => Below(l, env.msgs[1]))
  BY <1>1, <1>2 DEF ListsOK, NewsUnseen, Unseen
<1>5. CASE list \in Lists(v)
  BY <1>4, <1>5
<1>6. ASSUME Carries(env) PROVE Good(env.msgs)
  <2>1. Increasing(env.msgs) /\ Known(env.msgs, db)
    BY <1>2, <1>6 DEF CarriedOK
  <2>2. \A j \in DOMAIN q : j > 1 /\ q[j].type \in News => Below(env.msgs, q[j].msgs[1])
    BY <1>1, <1>2, <1>6 DEF InOrder
  <2> QED BY <1>3, <2>1, <2>2
<1>7. CASE env.type = "history_batch" /\ list = env.msgs
  BY <1>6, <1>7 DEF Carries
<1>8. CASE env.type \in News /\ \E old \in Lists(v) \cup {<<>>} : list = AppendMessage(old, env.msgs)
  <2>1. PICK old \in Lists(v) \cup {<<>>} : list = AppendMessage(old, env.msgs)
    BY <1>8
  <2>2. Good(old) /\ Below(old, env.msgs[1])
    <3>1. CASE old \in Lists(v)
      BY <1>4, <1>8, <3>1
    <3>2. CASE old = <<>>
      BY <3>2 DEF Increasing, Known, Below
    <3> QED BY <3>1, <3>2
  <2> DEFINE m == env.msgs
  <2>3. Good(m) /\ Len(m) = 1
    BY <1>2, <1>6, <1>8 DEF CarriedOK, Carries
  <2>4. m \in Seq(Nat) /\ old \in Seq(Nat) /\ Increasing(old) /\ Below(old, m[1]) /\ list = AppendMessage(old, m)
    BY <1>3, <2>1, <2>2
  <2>5. 1 \in DOMAIN m
    BY <2>3, <2>4
  <2> HIDE DEF m
  <2>6. /\ list \in Seq(Nat) /\ Increasing(list)
        /\ \A i \in DOMAIN list : list[i] = m[1] \/ \E j \in DOMAIN old : list[i] = old[j]
    BY <2>3, <2>4, AppendOrdered
  <2>7. Known(list, db)
    BY <2>2, <2>3, <2>5, <2>6 DEF Known
  <2>8. \A id : Below(old, id) /\ Below(m, id) => Below(list, id)
    BY <2>5, <2>6 DEF Below
  <2>9. \A j \in DOMAIN q : j > 1 /\ q[j].type \in News => Below(list, q[j].msgs[1])
    BY <2>2, <2>3, <2>8
  <2> QED BY <2>6, <2>7, <2>9
<1>9. \/ list \in Lists(v)
      \/ env.type = "history_batch" /\ list = env.msgs
      \/ env.type \in News /\ \E old \in Lists(v) \cup {<<>>} : list = AppendMessage(old, env.msgs)
  <2>1. list \in Lists(Apply(v, env))
    BY <1>2
  <2> HIDE DEF v, env
  <2> QED BY <1>1, <2>1, ListsShown
<1> QED BY <1>5, <1>7, <1>8, <1>9

LEMMA ListsOKStep ==
  ASSUME SysTypes, AllCarriedOK, NewsInOrder, NewsUnseen, ListsOK, [SysNext]_sysVars
  PROVE  ListsOK'
<1> SUFFICES ASSUME NEW c \in Client, NEW list \in Lists(view'[c])
             PROVE  list \in Seq(Nat) /\ Increasing(list) /\ Known(list, db')
  BY DEF ListsOK
<1>1. list \in Seq(Nat) /\ Increasing(list) /\ Known(list, db)
  <2>1. CASE list \in Lists(view[c])
    BY <2>1 DEF ListsOK
  <2>2. ASSUME NEW s \in Session, Show(c, s), view'[c] = Apply(view[c], Head(sendq[s]))
        PROVE  list \in Seq(Nat) /\ Increasing(list) /\ Known(list, db)
    BY <2>2, ShownInOrder
  <2> QED BY <2>1, <2>2, ListsKept
<1> QED BY <1>1, MessagesStay DEF Known

LEMMA UnseenAfter ==
  ASSUME NEW q \in Seq(EnvelopeType), NEW list, Unseen(list, q)
  PROVE  /\ q # <<>> => Unseen(list, Tail(q))
         /\ \A e \in EnvelopeType : (e.type \in News => Below(list, e.msgs[1])) => Unseen(list, Append(q, e))
<1> HIDE DEF EnvelopeType
<1>1. q # <<>> => Unseen(list, Tail(q))
  BY HeadAndTail DEF Unseen
<1>2. ASSUME NEW e \in EnvelopeType, e.type \in News => Below(list, e.msgs[1]) PROVE Unseen(list, Append(q, e))
  <2> DEFINE p == Append(q, e)
  <2>1. \A i \in DOMAIN p : (i \in DOMAIN q /\ p[i] = q[i]) \/ p[i] = e
    BY Appended
  <2> HIDE DEF p
  <2>2. Unseen(list, p)
    BY <1>2, <2>1 DEF Unseen
  <2> QED BY <2>2 DEF p
<1> QED BY <1>1, <1>2

LEMMA NewsUnseenStep ==
  ASSUME SysTypes, SysTypes', LinkInv, AllCarriedOK, NewsInOrder, NewsUnseen, ListsOK, [SysNext]_sysVars
  PROVE  NewsUnseen'
<1>1. /\ sendq \in [Session -> Seq(EnvelopeType)] /\ outbox \in Seq(Out)
      /\ link \in [Session -> {"new", "reading", "ended", "gone"}]
  BY DEF SysTypes, TypeInv, QueueTypes, LinkOK
<1> HIDE DEF EnvelopeType, Out
<1> SUFFICES ASSUME NEW c \in Client, NEW s \in Session, Belongs(s, c), link'[s] = "reading",
                    NEW list \in Lists(view'[c])
             PROVE  /\ Unseen(list, sendq'[s])
                    /\ \A i \in DOMAIN outbox' : s \in outbox'[i].to /\ outbox'[i].env.type \in News =>
                         Below(list, outbox'[i].env.msgs[1])
  BY DEF NewsUnseen, Belongs
<1> DEFINE Goal == /\ Unseen(list, sendq'[s])
                   /\ \A i \in DOMAIN outbox' : s \in outbox'[i].to /\ outbox'[i].env.type \in News =>
                        Below(list, outbox'[i].env.msgs[1])
           q == sendq[s]
<1>2. ASSUME NEW d \in Client, NEW k \in DOMAIN Conns[d], Dial(d, k), link[s] # "reading" PROVE Goal
  <2>1. /\ link' = [link EXCEPT ![Conns[d][k]] = "reading"] /\ link[Conns[d][k]] = "new"
        /\ outbox = <<>> /\ UNCHANGED <<sendq, outbox>>
    BY <1>2 DEF Dial, Register, wire
  <2>2. link[s] = "new"
    BY <1>1, <1>2, <2>1
  <2>3. sendq'[s] = <<>> /\ outbox' = <<>>
    BY <2>1, <2>2 DEF LinkInv, NewQuiet
  <2> QED BY <2>3 DEF Unseen
<1>3. CASE link[s] = "reading"
  <2>1. ASSUME NEW t \in Session, Show(c, t), view'[c] = Apply(view[c], Head(sendq[t])) PROVE Goal
    <3>1. link[t] = "reading" /\ Belongs(t, c)
      BY <2>1 DEF Show
    <3>2. t = s
      BY <1>3, <3>1, OneConnection
    <3>3. q # <<>> /\ sendq'[s] = Tail(q) /\ outbox' = <<>> /\ q \in Seq(EnvelopeType)
      <4>1. sendq' = [sendq EXCEPT ![t] = Tail(sendq[t])] /\ sendq[t] # <<>> /\ outbox = <<>> /\ outbox' = outbox
        BY <2>1 DEF Show, WriteOut
      <4> QED BY <1>1, <3>2, <4>1
    <3>4. \A j \in DOMAIN q : j > 1 /\ q[j].type \in News => Below(list, q[j].msgs[1])
      BY <2>1, <3>2, ShownInOrder
    <3>5. \A i \in DOMAIN Tail(q) : i + 1 \in DOMAIN q /\ Tail(q)[i] = q[i + 1] /\ i + 1 > 1
      <4>1. \A i \in DOMAIN Tail(q) : i \in Nat \ {0}
        BY <3>3
      <4> QED BY <3>3, <4>1, HeadAndTail
    <3>6. Unseen(list, Tail(q))
      BY <3>4, <3>5 DEF Unseen
    <3> QED BY <3>3, <3>6
  <2>2. CASE Lists(view'[c]) \subseteq Lists(view[c])
    <3>1. /\ q \in Seq(EnvelopeType) /\ Unseen(list, q)
          /\ \A i \in DOMAIN outbox : s \in outbox[i].to /\ outbox[i].env.type \in News =>
               Below(list, outbox[i].env.msgs[1])
      BY <1>1, <1>3, <2>2 DEF NewsUnseen
    <3>2. Unseen(list, sendq'[s])
      <4>1. CASE sendq'[s] = q \/ sendq'[s] = <<>>
        BY <3>1, <4>1 DEF Unseen
      <4>2. CASE q # <<>> /\ sendq'[s] = Tail(q)
        BY <3>1, <4>2, UnseenAfter
      <4>3. ASSUME NEW env \in EnvelopeType, sendq'[s] = Append(q, env),
                   \/ outbox # <<>> /\ outbox' = Tail(outbox) /\ env = outbox[1].env /\ s \in outbox[1].to
                   \/ env.type \in Aside
            PROVE  Unseen(list, sendq'[s])
        <5>1. env.type \in News => Below(list, env.msgs[1])
          <6>1. CASE env.type \in Aside
            BY <6>1, AsideCarries
          <6>2. CASE outbox # <<>> /\ env = outbox[1].env /\ s \in outbox[1].to
            BY <1>1, <3>1, <6>2, HeadAndTail
          <6> QED BY <4>3, <6>1, <6>2
        <5> QED BY <3>1, <4>3, <5>1, UnseenAfter
      <4> QED BY <4>1, <4>2, <4>3, SysWire
    <3>3. ASSUME NEW i \in DOMAIN outbox', s \in outbox'[i].to, outbox'[i].env.type \in News
          PROVE  Below(list, outbox'[i].env.msgs[1])
      <4>1. CASE outbox' = outbox \/ outbox' = <<>>
        BY <3>1, <3>3, <4>1
      <4>2. CASE outbox # <<>> /\ outbox' = Tail(outbox)
        BY <1>1, <3>1, <3>3, <4>2, HeadAndTail
      <4>3. CASE Handle
        <5> DEFINE o == outbox'[i]
                   id == SavedId
        <5>1. Tells(o) /\ o.env.type \in News
          BY <3>3, <4>3, HandlerTold DEF SysTypes, AllTold
        <5>2. o.env.msgs = <<id>>
          BY <5>1 DEF Tells
        <5>3. o.env.msgs[1] = id
          <6> HIDE DEF o, id
          <6> QED BY <5>2
        <5>4. Below(list, id)
          BY <2>2, KnownBelow DEF ListsOK
        <5> QED BY <5>3, <5>4
      <4> QED BY <4>1, <4>2, <4>3, SysOutbox
    <3> QED BY <3>2, <3>3
  <2> QED BY <2>1, <2>2, ListsKept
<1>4. link[s] = "reading" \/ \E d \in Client : \E k \in DOMAIN Conns[d] : Dial(d, k)
  BY ReadingKept
<1> QED BY <1>2, <1>3, <1>4

\* At first nothing is sent and nothing shown.
LEMMA OrderInit ==
  ASSUME SysInit
  PROVE  OrderInv
<1>1. /\ link = [s \in Session |-> "new"] /\ sendq = [s \in Session |-> <<>>] /\ outbox = <<>>
      /\ view = [c \in Client |-> NewView(Account[c])]
  BY DEF SysInit, Init
<1>2. AllCarriedOK /\ NewsInOrder
  BY <1>1 DEF AllCarriedOK, NewsInOrder, InOrder
<1>3. NewsUnseen
  BY <1>1 DEF NewsUnseen
<1>4. \A c \in Client : Lists(view[c]) = {}
  <2> SUFFICES ASSUME NEW c \in Client PROVE Lists(view[c]) = {}
    OBVIOUS
  <2>1. DOMAIN view[c].msgs = {} /\ DOMAIN view[c].cleared = {}
    BY <1>1 DEF NewView
  <2> QED BY <2>1 DEF Lists
<1> QED BY <1>2, <1>3, <1>4 DEF OrderInv, ListsOK

\* A client shows each message of a channel at most once and in the order of
\* the messages table (App.Messages, which appendMessage and a history batch
\* fill): what is sent to a session is in that order, news is newer than all
\* that was sent to it before and than all its client keeps, and a client that
\* dials again starts with nothing under way.
THEOREM ScreensOrdered == SysSpec => []ViewOrdered
<1>1. SysInit => OrderInv
  BY OrderInit
<1>2. SysTypes /\ SysTypes' /\ LinkInv /\ OrderInv /\ [SysNext]_sysVars => OrderInv'
  BY CarriedStep, NewsInOrderStep, NewsUnseenStep, ListsOKStep DEF OrderInv
<1>3. OrderInv => ViewOrdered
  <2> SUFFICES ASSUME OrderInv, NEW c \in Client, NEW name \in DOMAIN view[c].msgs PROVE Increasing(view[c].msgs[name])
    BY DEF ViewOrdered, Increasing
  <2>1. view[c].msgs[name] \in Lists(view[c])
    BY DEF Lists
  <2> QED BY <2>1 DEF OrderInv, ListsOK
<1> QED BY <1>1, <1>2, <1>3, LinkInvariant, PTL DEF SysSpec

\* What a screen shows of a channel (ViewComplete). Elems is what a list holds,
\* Ids what the messages table holds of a channel; the list has no gap when all
\* that is newer than something in it is in it or still to come, and it shows
\* enough when it is as long as the history or holds all there is.
Elems(list) == {list[i] : i \in DOMAIN list}
Ids(d, chan) == {i \in DOMAIN d.messages : d.messages[i].chan = chan}
NoGap(list, later, ids) == \A x \in Elems(list) : \A y \in ids : y > x => y \in Elems(list) \cup later
Enough(list, later, ids) == Len(list) >= HistoryLimit \/ ids \subseteq Elems(list) \cup later
Covers(list, later, ids) == NoGap(list, later, ids) /\ Enough(list, later, ids)

\* The order of the places in a list that grows is that of the numbers.
LEMMA PlaceOf ==
  ASSUME NEW list \in Seq(Nat), Increasing(list), NEW i \in DOMAIN list, NEW j \in DOMAIN list
  PROVE  /\ list[i] < list[j] <=> i < j
         /\ list[i] = list[j] => i = j
<1>1. i \in Nat /\ j \in Nat /\ list[i] \in Nat /\ list[j] \in Nat
  OBVIOUS
<1>2. (i < j => list[i] < list[j]) /\ (j < i => list[j] < list[i])
  BY DEF Increasing
<1>3. i < j \/ i = j \/ j < i
  BY <1>1
<1> QED BY <1>1, <1>2, <1>3

\* All the numbers of the set are in it.
LEMMA OrderedWhole ==
  ASSUME NEW S \in SUBSET Nat, IsFiniteSet(S)
  PROVE  /\ Ordered(S) \in Seq(Nat) /\ Increasing(Ordered(S))
         /\ \A n \in DOMAIN Ordered(S) : Ordered(S)[n] \in S
         /\ \A x \in S : \E n \in DOMAIN Ordered(S) : Ordered(S)[n] = x
<1> DEFINE log == Ordered(S)
           N == Cardinality(S)
<1>1. log \in Seq(S) /\ Increasing(log)
  BY OrderedElements
<1>2. N \in Nat /\ log = [n \in 1..N |-> CHOOSE i \in S : Cardinality({j \in S : j <= i}) = n]
  BY FS_CardinalityType DEF Ordered
<1>3. DOMAIN log = 1..N
  <2> HIDE DEF N
  <2> QED BY <1>2
<1>4. \A n \in 1..N : log[n] \in S
  <2> HIDE DEF log, N
  <2>1. \A n \in DOMAIN log : log[n] \in S
    BY <1>1
  <2> QED BY <1>3, <2>1
<1>11. log = [n \in 1..N |-> log[n]]
  <2> HIDE DEF N
  <2> QED BY <1>2
<1> HIDE DEF log, N
<1>5. log \in Injection(1..N, S)
  <2>1. log \in [1..N -> S]
    BY <1>4, <1>11
  <2>2. ASSUME NEW m \in 1..N, NEW n \in 1..N, log[m] = log[n] PROVE m = n
    <3>1. log[m] \in Nat /\ log[n] \in Nat
      BY <1>4
    <3>2. ~(m < n) /\ ~(n < m)
      BY <1>1, <1>3, <2>2, <3>1 DEF Increasing
    <3> QED BY <1>2, <3>2
  <2> QED BY <2>1, <2>2 DEF Injection, IsInjective
<1>6. Cardinality(1..N) = N
  BY <1>2, FS_Interval
<1>7. log \in Surjection(1..N, S)
  BY <1>5, <1>6, FS_Injection DEF N
<1>8. \A x \in S : \E n \in 1..N : log[n] = x
  BY <1>7 DEF Surjection
<1>9. log \in Seq(Nat)
  <2>1. \A n \in 1..N : log[n] \in Nat
    BY <1>4
  <2>2. N \in Nat /\ log \in [1..N -> Nat]
    BY <1>2, <1>11, <2>1
  <2> QED BY <2>2
<1>10. \A n \in DOMAIN log : log[n] \in S
  BY <1>3, <1>4
<1>12. \A x \in S : \E n \in DOMAIN log : log[n] = x
  BY <1>3, <1>8
<1> QED BY <1>1, <1>9, <1>10, <1>12 DEF log

\* In a list that grows and leaves out nothing above its first number, a place
\* tells how many numbers are not below the one there.
LEMMA PlaceCounts ==
  ASSUME NEW S \in SUBSET Nat, NEW list \in Seq(Nat), Increasing(list), Elems(list) \subseteq S, NoGap(list, {}, S),
         NEW i \in DOMAIN list
  PROVE  Cardinality({y \in S : y >= list[i]}) = Len(list) - i + 1
<1> DEFINE n == Len(list)
           Above == {y \in S : y >= list[i]}
           f == [j \in i..n |-> list[j]]
<1>1. n \in Nat /\ DOMAIN list = 1..n /\ i \in 1..n /\ \A j \in 1..n : list[j] \in Nat
  OBVIOUS
<1> HIDE DEF n
<1>2. \A j \in i..n : j \in 1..n /\ list[j] \in Above
  <2> SUFFICES ASSUME NEW j \in i..n PROVE j \in 1..n /\ list[j] \in Above
    OBVIOUS
  <2>1. j \in 1..n
    BY <1>1
  <2>2. list[j] \in S
    BY <1>1, <2>1 DEF Elems
  <2>3. list[j] >= list[i]
    <3>1. CASE j = i
      BY <1>1, <3>1
    <3>2. CASE i < j
      BY <1>1, <2>1, <3>2 DEF Increasing
    <3> QED BY <1>1, <3>1, <3>2
  <2> QED BY <2>1, <2>2, <2>3
<1>3. \A y \in Above : \E j \in i..n : list[j] = y
  <2> SUFFICES ASSUME NEW y \in Above PROVE \E j \in i..n : list[j] = y
    OBVIOUS
  <2>1. y \in S /\ y >= list[i] /\ y \in Nat /\ list[i] \in Nat
    BY <1>1
  <2>2. CASE y = list[i]
    BY <1>1, <2>2
  <2>3. CASE y > list[i]
    <3>1. list[i] \in Elems(list)
      BY DEF Elems
    <3>2. y \in Elems(list)
      BY <2>1, <2>3, <3>1 DEF NoGap
    <3>3. PICK j \in 1..n : list[j] = y
      BY <1>1, <3>2 DEF Elems
    <3>4. i < j
      BY <1>1, <2>1, <2>3, <3>3, PlaceOf
    <3> QED BY <1>1, <3>3, <3>4
  <2> QED BY <2>1, <2>2, <2>3
<1> HIDE DEF Above
<1>4. f \in Bijection(i..n, Above)
  <2>1. f \in [i..n -> Above]
    BY <1>2
  <2>2. ASSUME NEW j \in i..n, NEW k \in i..n, f[j] = f[k] PROVE j = k
    <3>1. j \in 1..n /\ k \in 1..n /\ list[j] = list[k] /\ list[j] \in Nat
      BY <1>1, <1>2, <2>2
    <3>2. ~(j < k) /\ ~(k < j)
      BY <1>1, <3>1 DEF Increasing
    <3> QED BY <3>1, <3>2
  <2>3. \A y \in Above : \E j \in i..n : f[j] = y
    BY <1>3
  <2> HIDE DEF f
  <2> QED BY <2>1, <2>2, <2>3 DEF Bijection, Injection, IsInjective, Surjection
<1>5. Cardinality(i..n) = n - i + 1 /\ IsFiniteSet(i..n)
  BY <1>1, FS_Interval
<1>6. Cardinality(Above) = Cardinality(i..n)
  BY <1>4, <1>5, FS_Bijection DEF ExistsBijection
<1> QED BY <1>5, <1>6 DEF Above, n

\* Such a list is the end of the whole, and as long as it if it lacks nothing.
LEMMA TailOfAll ==
  ASSUME NEW S \in SUBSET Nat, IsFiniteSet(S), NEW list \in Seq(Nat), Increasing(list), Elems(list) \subseteq S,
         NoGap(list, {}, S)
  PROVE  /\ IsTail(list, Ordered(S))
         /\ S \subseteq Elems(list) => Len(list) = Len(Ordered(S))
<1> DEFINE log == Ordered(S)
           n == Len(log)
           k == Len(list)
<1>1. /\ log \in Seq(Nat) /\ Increasing(log) /\ \A m \in DOMAIN log : log[m] \in S
      /\ \A x \in S : \E m \in DOMAIN log : log[m] = x
  BY OrderedWhole
<1> HIDE DEF log
<1>2. n \in Nat /\ DOMAIN log = 1..n /\ k \in Nat /\ DOMAIN list = 1..k
  BY <1>1
<1>3. Elems(log) \subseteq S /\ NoGap(log, {}, S)
  BY <1>1 DEF Elems, NoGap
<1> HIDE DEF n, k
<1>4. ASSUME NEW i \in 1..k PROVE n - k + i \in 1..n /\ list[i] = log[n - k + i]
  <2>1. list[i] \in S
    BY <1>2 DEF Elems
  <2>2. PICK m \in 1..n : log[m] = list[i]
    BY <1>1, <1>2, <2>1
  <2>3. Cardinality({y \in S : y >= list[i]}) = k - i + 1
    BY <1>2, PlaceCounts DEF k
  <2>4. Cardinality({y \in S : y >= log[m]}) = n - m + 1
    BY <1>1, <1>2, <1>3, PlaceCounts DEF n
  <2>5. m = n - k + i
    BY <1>2, <2>2, <2>3, <2>4
  <2> QED BY <2>2, <2>5
<1>5. k <= n
  <2>1. CASE k = 0
    BY <1>2, <2>1
  <2>2. CASE k # 0
    <3>1. 1 \in 1..k
      BY <1>2, <2>2
    <3>2. n - k + 1 \in 1..n
      BY <1>4, <3>1
    <3> QED BY <1>2, <3>2
  <2> QED BY <2>1, <2>2
<1>6. list = SubSeq(log, n - k + 1, n)
  <2> DEFINE part == SubSeq(log, n - k + 1, n)
             a == n - k + 1
  <2>1. a \in 1..(n + 1)
    BY <1>2, <1>5
  <2>2. part \in Seq(Nat) /\ Len(part) = k /\ \A i \in 1..k : part[i] = log[a + i - 1]
    <3>1. a \in Int /\ n \in Int /\ (\A i \in a..n : log[i] \in Nat) /\ (a <= n + 1) /\ n - a + 1 = k
      <4>1. a >= 1
        BY <2>1
      <4>2. \A i \in a..n : i \in 1..n
        BY <1>2, <2>1
      <4> QED BY <1>1, <1>2, <2>1, <4>2
    <3> HIDE DEF a
    <3> QED BY <3>1, SubSeqProperties
  <2> HIDE DEF part
  <2>3. \A i \in 1..k : a + i - 1 = n - k + i
    BY <1>2
  <2>4. \A i \in 1..k : part[i] = list[i]
    BY <1>4, <2>2, <2>3
  <2>5. DOMAIN part = 1..k
    BY <1>2, <2>2
  <2>6. part = list
    BY <1>2, <2>2, <2>4, <2>5
  <2> QED BY <2>6 DEF part
<1>7. IsTail(list, log)
  BY <1>5, <1>6 DEF IsTail, n, k
<1>8. ASSUME S \subseteq Elems(list) PROVE k = n
  <2>1. CASE n = 0
    BY <1>2, <1>5, <2>1
  <2>2. CASE n # 0
    <3>1. 1 \in 1..n /\ log[1] \in S
      BY <1>1, <1>2, <2>2
    <3>2. PICK j \in 1..k : list[j] = log[1]
      BY <1>2, <1>8, <3>1 DEF Elems
    <3>3. n - k + j \in 1..n /\ log[n - k + j] = log[1]
      BY <1>4, <3>2
    <3>4. n - k + j = 1
      BY <1>1, <1>2, <3>1, <3>3, PlaceOf
    <3> QED BY <1>2, <1>5, <3>2, <3>3, <3>4
  <2> QED BY <2>1, <2>2
<1> QED BY <1>7, <1>8 DEF log, n, k

LEMMA IdsFinite ==
  ASSUME NEW d, IsTables(d), NEW chan
  PROVE  Ids(d, chan) \in SUBSET Nat /\ IsFiniteSet(Ids(d, chan)) /\ MessagesOf(d, chan) = Ordered(Ids(d, chan))
<1>1. DOMAIN d.messages = 1..Len(d.messages) /\ Len(d.messages) \in Nat
  BY DEF IsTables
<1>2. IsFiniteSet(DOMAIN d.messages)
  BY <1>1, FS_Interval
<1>3. Ids(d, chan) \in SUBSET (DOMAIN d.messages)
  BY DEF Ids
<1>4. IsFiniteSet(Ids(d, chan))
  BY <1>2, <1>3, FS_Subset
<1>5. DOMAIN d.messages \subseteq Nat
  BY <1>1
<1> QED BY <1>3, <1>4, <1>5 DEF MessagesOf, Ids

\* The end of a list that grows has all of the list above its first number.
LEMMA EndKeeps ==
  ASSUME NEW list \in Seq(Nat), Increasing(list), NEW m \in 1..(Len(list) + 1),
         NEW part, part = SubSeq(list, m, Len(list))
  PROVE  /\ part \in Seq(Nat) /\ Len(part) = Len(list) - m + 1 /\ Elems(part) \subseteq Elems(list)
         /\ \A x \in Elems(part) : \A y \in Elems(list) : y > x => y \in Elems(part)
         /\ m = 1 => Elems(part) = Elems(list)
<1> DEFINE n == Len(list)
           k == n - m + 1
<1>1. n \in Nat /\ DOMAIN list = 1..n /\ m \in 1..(n + 1) /\ part = SubSeq(list, m, n)
  OBVIOUS
<1> HIDE DEF n
<1>2. k \in Nat /\ Len(part) = k /\ part \in Seq(Nat) /\ \A i \in 1..k : part[i] = list[m + i - 1]
  <2>1. \A i \in m..n : list[i] \in Nat
    BY <1>1
  <2> QED BY <1>1, <2>1, SubSeqProperties
<1>3. DOMAIN part = 1..k
  BY <1>2
<1>4. \A j \in m..n : list[j] \in Elems(part)
  <2> SUFFICES ASSUME NEW j \in m..n PROVE list[j] \in Elems(part)
    OBVIOUS
  <2>1. j - m + 1 \in 1..k /\ m + (j - m + 1) - 1 = j
    BY <1>1
  <2> HIDE DEF k
  <2>2. part[j - m + 1] = list[j]
    BY <1>2, <2>1
  <2> QED BY <1>3, <2>1, <2>2 DEF Elems
<1>5. \A i \in 1..k : m + i - 1 \in m..n /\ m + i - 1 \in 1..n
  BY <1>1
<1>6. Elems(part) \subseteq Elems(list)
  BY <1>1, <1>2, <1>3, <1>5 DEF Elems
<1>7. ASSUME NEW i \in 1..k, NEW j \in 1..n, list[j] > part[i] PROVE list[j] \in Elems(part)
  <2>1. part[i] = list[m + i - 1] /\ m + i - 1 \in m..n /\ m + i - 1 \in 1..n
    BY <1>2, <1>5
  <2>2. list[m + i - 1] < list[j]
    BY <1>1, <1>7, <2>1
  <2>3. m + i - 1 < j
    BY <1>1, <2>1, <2>2, PlaceOf
  <2>4. j \in m..n
    BY <1>1, <2>1, <2>3
  <2> QED BY <1>4, <2>4
<1>8. m = 1 => Elems(list) \subseteq Elems(part)
  BY <1>1, <1>4 DEF Elems
<1>9. ASSUME NEW x \in Elems(part), NEW y \in Elems(list), y > x PROVE y \in Elems(part)
  <2>1. PICK i \in 1..k : part[i] = x
    BY <1>3 DEF Elems
  <2>2. PICK j \in 1..n : list[j] = y
    BY <1>1 DEF Elems
  <2> QED BY <1>7, <1>9, <2>1, <2>2
<1>10. m = 1 => Elems(part) = Elems(list)
  BY <1>6, <1>8
<1>11. part \in Seq(Nat) /\ Len(part) = n - m + 1
  BY <1>2
<1> QED BY <1>6, <1>9, <1>10, <1>11 DEF n

\* A history has no gap and as many messages as it can.
LEMMA HistoryCovers ==
  ASSUME NEW d, IsTables(d), NEW chan
  PROVE  /\ Covers(ListHistory(d, chan), {}, Ids(d, chan))
         /\ Len(ListHistory(d, chan)) \in Nat /\ Len(ListHistory(d, chan)) <= HistoryLimit
         /\ Len(ListHistory(d, chan)) <= Len(MessagesOf(d, chan))
<1> DEFINE S == Ids(d, chan)
           log == MessagesOf(d, chan)
           n == Len(log)
           from == IF n > HistoryLimit THEN n - HistoryLimit + 1 ELSE 1
           L == ListHistory(d, chan)
<1>1. /\ log \in Seq(Nat) /\ Increasing(log) /\ \A m \in DOMAIN log : log[m] \in S
      /\ \A x \in S : \E m \in DOMAIN log : log[m] = x
  <2>1. S \in SUBSET Nat /\ IsFiniteSet(S) /\ log = Ordered(S)
    BY IdsFinite
  <2> HIDE DEF S, log
  <2> QED BY <2>1, OrderedWhole
<1>2. L = SubSeq(log, from, n)
  BY DEF ListHistory
<1> HIDE DEF S, log, L
<1>3. n \in Nat /\ HistoryLimit \in Nat \ {0}
  BY <1>1, StoreAssumption DEF StoreAssumption
<1>4. /\ from \in 1..(n + 1) /\ n - from + 1 <= HistoryLimit /\ n - from + 1 <= n
      /\ n - from + 1 = HistoryLimit \/ from = 1
  <2> HIDE DEF n
  <2> QED BY <1>3
<1> HIDE DEF from
<1>5. /\ L \in Seq(Nat) /\ Len(L) = n - from + 1
      /\ \A x \in Elems(L) : \A y \in Elems(log) : y > x => y \in Elems(L)
      /\ from = 1 => Elems(L) = Elems(log)
  BY <1>1, <1>2, <1>4, EndKeeps
<1>6. S \subseteq Elems(log)
  BY <1>1 DEF Elems
<1> HIDE DEF n
<1>7. NoGap(L, {}, S)
  BY <1>5, <1>6 DEF NoGap
<1>8. Enough(L, {}, S)
  <2>1. CASE n - from + 1 = HistoryLimit
    BY <1>3, <1>5, <2>1 DEF Enough
  <2>2. CASE from = 1
    BY <1>5, <1>6, <2>2 DEF Enough
  <2> QED BY <1>4, <2>1, <2>2
<1>9. Len(L) \in Nat
  BY <1>5
<1> QED BY <1>4, <1>5, <1>7, <1>8, <1>9 DEF Covers, S, L, log, n

\* What is listed and to come covers the messages, when nothing of them is
\* forgotten and what is added is to come.
LEMMA CoversMore ==
  ASSUME NEW list, NEW R, NEW T, NEW ids, NEW more, \A y \in more : y \in ids \cup T /\ (y \in R => y \in T)
  PROVE  /\ NoGap(list, R, ids) => NoGap(list, T, more)
         /\ Covers(list, R, ids) => Covers(list, T, more)
<1>1. NoGap(list, R, ids) => NoGap(list, T, more)
  BY DEF NoGap
<1>2. Enough(list, R, ids) => Enough(list, T, more)
  BY DEF Enough
<1> QED BY <1>1, <1>2 DEF Covers

\* The cap drops the oldest messages only.
LEMMA AppendKeeps ==
  ASSUME NEW list \in Seq(Nat), Increasing(list), NEW new \in Seq(Nat), Len(new) = 1, Below(list, new[1]),
         NEW part, part = AppendMessage(list, new)
  PROVE  /\ Elems(part) \subseteq Elems(list) \cup {new[1]}
         /\ \A z \in Elems(part) : \A y \in Elems(list) \cup {new[1]} : y > z => y \in Elems(part)
         /\ Len(part) = ViewCap \/ (Len(part) = Len(list) + 1 /\ Elems(part) = Elems(list) \cup {new[1]})
<1> DEFINE longer == list \o new
           from == IF Len(longer) > ViewCap THEN Len(longer) - ViewCap + 1 ELSE 1
<1>1. /\ longer \in Seq(Nat) /\ Len(longer) = Len(list) + 1 /\ longer[Len(list) + 1] = new[1]
      /\ \A i \in 1..Len(list) : longer[i] = list[i]
      /\ DOMAIN longer = 1..(Len(list) + 1)
  BY OneMore
<1>2. part = SubSeq(longer, from, Len(longer))
  BY DEF AppendMessage
<1>3. Increasing(longer)
  <2> HIDE DEF longer
  <2> QED BY <1>1, NewestLast
<1> HIDE DEF longer
<1>4. Elems(longer) = Elems(list) \cup {new[1]}
  <2>1. DOMAIN list = 1..Len(list) /\ Len(list) \in Nat
    OBVIOUS
  <2>2. \A i \in 1..(Len(list) + 1) : i \in 1..Len(list) \/ i = Len(list) + 1
    BY <2>1
  <2>3. \A i \in 1..Len(list) : i \in 1..(Len(list) + 1)
    BY <2>1
  <2>4. Len(list) + 1 \in 1..(Len(list) + 1)
    BY <2>1
  <2>5. Elems(longer) \subseteq Elems(list) \cup {new[1]}
    BY <1>1, <2>1, <2>2 DEF Elems
  <2>6. Elems(list) \subseteq Elems(longer)
    BY <1>1, <2>1, <2>3 DEF Elems
  <2>7. new[1] \in Elems(longer)
    BY <1>1, <2>4 DEF Elems
  <2> QED BY <2>5, <2>6, <2>7
<1>5. /\ Len(longer) \in Nat /\ from \in 1..(Len(longer) + 1)
      /\ from = 1 \/ Len(longer) - from + 1 = ViewCap
  BY <1>1, ChatClientAssumption DEF ChatClientAssumption
<1> HIDE DEF from
<1>6. /\ part \in Seq(Nat) /\ Len(part) = Len(longer) - from + 1 /\ Elems(part) \subseteq Elems(longer)
      /\ \A z \in Elems(part) : \A y \in Elems(longer) : y > z => y \in Elems(part)
      /\ from = 1 => Elems(part) = Elems(longer)
  BY <1>1, <1>2, <1>3, <1>5, EndKeeps
<1>7. Len(part) = ViewCap \/ (Len(part) = Len(list) + 1 /\ Elems(part) = Elems(longer))
  <2>1. CASE from = 1
    BY <1>1, <1>5, <1>6, <2>1
  <2>2. CASE Len(longer) - from + 1 = ViewCap
    BY <1>6, <2>2
  <2> QED BY <1>5, <2>1, <2>2
<1> QED BY <1>4, <1>6, <1>7

\* What the screen has after a piece of news: no new gap, and as much as before.
LEMMA AppendCovers ==
  ASSUME HistoryLimit <= ViewCap,
         NEW list \in Seq(Nat), Increasing(list), NEW new \in Seq(Nat), Len(new) = 1, Below(list, new[1]),
         NEW R, NEW T, R \subseteq T \cup {new[1]}, NEW ids, \A y \in ids : y > new[1] => y \in T
  PROVE  /\ NoGap(list, R, ids) => NoGap(AppendMessage(list, new), T, ids)
         /\ Covers(list, R, ids) => Covers(AppendMessage(list, new), T, ids)
<1> DEFINE part == AppendMessage(list, new)
           x == new[1]
<1>1. /\ Elems(part) \subseteq Elems(list) \cup {x}
      /\ \A z \in Elems(part) : \A y \in Elems(list) \cup {x} : y > z => y \in Elems(part)
      /\ Len(part) = ViewCap \/ (Len(part) = Len(list) + 1 /\ Elems(part) = Elems(list) \cup {x})
  BY AppendKeeps
<1>2. R \subseteq T \cup {x} /\ \A y \in ids : y > x => y \in T
  OBVIOUS
<1>3. HistoryLimit \in Nat /\ ViewCap \in Nat /\ Len(list) \in Nat
  BY ChatClientAssumption, StoreAssumption DEF ChatClientAssumption, StoreAssumption
<1> HIDE DEF part, x
<1>4. ASSUME NoGap(list, R, ids) PROVE NoGap(part, T, ids)
  <2> SUFFICES ASSUME NEW z \in Elems(part), NEW y \in ids, y > z PROVE y \in Elems(part) \cup T
    BY DEF NoGap
  <2>1. CASE z = x
    BY <1>2, <2>1
  <2>2. CASE z \in Elems(list)
    <3>1. y \in Elems(list) \cup R
      BY <1>4, <2>2 DEF NoGap
    <3>2. y \in Elems(list) \cup {x} \cup T
      BY <1>2, <3>1
    <3> QED BY <1>1, <3>2
  <2> QED BY <1>1, <2>1, <2>2
<1>5. ASSUME Enough(list, R, ids) PROVE Enough(part, T, ids)
  <2>1. CASE Len(part) = ViewCap
    BY <1>3, <2>1 DEF Enough
  <2>2. CASE Len(part) = Len(list) + 1 /\ Elems(part) = Elems(list) \cup {x}
    <3>1. CASE Len(list) >= HistoryLimit
      BY <1>3, <2>2, <3>1 DEF Enough
    <3>2. CASE ids \subseteq Elems(list) \cup R
      BY <1>2, <2>2, <3>2 DEF Enough
    <3> QED BY <1>5, <3>1, <3>2 DEF Enough
  <2> QED BY <1>1, <2>1, <2>2
<1> QED BY <1>4, <1>5 DEF Covers, part

\* The news in the channel q after its k-th envelope, and in outbox for s.
NewsIn(q, k) == {q[j].msgs[1] : j \in {n \in DOMAIN q : n > k /\ q[n].type \in News}}
NewsFor(out, s) == {out[i].env.msgs[1] : i \in {n \in DOMAIN out : s \in out[n].to /\ out[n].env.type \in News}}
Coming(q, k, out, s) == NewsIn(q, k) \cup NewsFor(out, s)

\* What becomes of the news in a channel when its oldest envelope is taken,
LEMMA NewsTail ==
  ASSUME NEW q \in Seq(EnvelopeType), q # <<>>
  PROVE  /\ \A k \in Nat : NewsIn(Tail(q), k) = NewsIn(q, k + 1)
         /\ q[1].type \notin News => NewsIn(q, 0) = NewsIn(q, 1)
         /\ q[1].type \in News => NewsIn(q, 0) = NewsIn(q, 1) \cup {q[1].msgs[1]}
<1> HIDE DEF EnvelopeType
<1>1. /\ 1 \in DOMAIN q /\ \A i \in DOMAIN Tail(q) : i + 1 \in DOMAIN q /\ Tail(q)[i] = q[i + 1]
      /\ \A i \in DOMAIN q : i # 1 => i - 1 \in DOMAIN Tail(q) /\ Tail(q)[i - 1] = q[i]
  BY HeadAndTail
<1>2. (\A i \in DOMAIN q : i \in Nat \ {0}) /\ (\A i \in DOMAIN Tail(q) : i \in Nat \ {0})
  OBVIOUS
<1> DEFINE p == Tail(q)
<1> HIDE DEF p
<1>3. ASSUME NEW k \in Nat PROVE NewsIn(p, k) = NewsIn(q, k + 1)
  <2>1. \A i \in DOMAIN p : i > k => i + 1 > k + 1
    BY <1>2 DEF p
  <2>2. \A i \in DOMAIN q : i > k + 1 => i # 1 /\ i - 1 > k
    BY <1>2
  <2>3. NewsIn(p, k) \subseteq NewsIn(q, k + 1)
    BY <1>1, <2>1 DEF NewsIn, p
  <2>4. NewsIn(q, k + 1) \subseteq NewsIn(p, k)
    BY <1>1, <2>2 DEF NewsIn, p
  <2> QED BY <2>3, <2>4
<1>4. \A i \in DOMAIN q : i > 0 /\ (i > 1 \/ i = 1) /\ (i > 1 => i > 0)
  BY <1>2
<1>5. q[1].type \notin News => NewsIn(q, 0) = NewsIn(q, 1)
  BY <1>4 DEF NewsIn
<1>6. q[1].type \in News => NewsIn(q, 0) = NewsIn(q, 1) \cup {q[1].msgs[1]}
  BY <1>1, <1>4 DEF NewsIn
<1> QED BY <1>3, <1>5, <1>6 DEF p

\* when one is added,
Grows(p, q, e) == p = Append(q, e)

LEMMA NewsAppend ==
  ASSUME NEW q \in Seq(EnvelopeType), NEW e \in EnvelopeType, NEW p, Grows(p, q, e)
  PROVE  /\ e.type \notin News => \A k \in Nat : NewsIn(p, k) = NewsIn(q, k)
         /\ e.type \in News => \A k \in Nat : k <= Len(q) => NewsIn(p, k) = NewsIn(q, k) \cup {e.msgs[1]}
<1> HIDE DEF EnvelopeType
<1> DEFINE n == Len(q) + 1
<1>1. /\ \A i \in DOMAIN q : i \in DOMAIN p /\ p[i] = q[i]
      /\ \A i \in DOMAIN p : i \in DOMAIN q \/ (i = n /\ p[i] = e)
      /\ n \in DOMAIN p /\ p[n] = e /\ \A k \in Nat : k <= Len(q) => n > k
  BY Appended DEF Grows
<1> HIDE DEF n
<1>2. ASSUME e.type \notin News, NEW k \in Nat PROVE NewsIn(p, k) = NewsIn(q, k)
  BY <1>1, <1>2 DEF NewsIn
<1>3. ASSUME e.type \in News, NEW k \in Nat, k <= Len(q) PROVE NewsIn(p, k) = NewsIn(q, k) \cup {e.msgs[1]}
  BY <1>1, <1>3 DEF NewsIn
<1> QED BY <1>2, <1>3

\* and of that in outbox when the first delivery is made.
LEMMA NewsPosted ==
  ASSUME NEW out \in Seq(Out), out # <<>>, NEW s
  PROVE  /\ s \in out[1].to /\ out[1].env.type \in News => NewsFor(out, s) = NewsFor(Tail(out), s) \cup {out[1].env.msgs[1]}
         /\ ~(s \in out[1].to /\ out[1].env.type \in News) => NewsFor(out, s) = NewsFor(Tail(out), s)
<1> HIDE DEF Out
<1> DEFINE p == Tail(out)
<1>1. /\ 1 \in DOMAIN out /\ \A i \in DOMAIN p : i + 1 \in DOMAIN out /\ p[i] = out[i + 1]
      /\ \A i \in DOMAIN out : i # 1 => i - 1 \in DOMAIN p /\ p[i - 1] = out[i]
  BY HeadAndTail
<1> HIDE DEF p
<1>2. NewsFor(p, s) \subseteq NewsFor(out, s)
  BY <1>1 DEF NewsFor
<1>3. \A x \in NewsFor(out, s) : x \in NewsFor(p, s) \/ (x = out[1].env.msgs[1] /\ s \in out[1].to /\ out[1].env.type \in News)
  BY <1>1 DEF NewsFor
<1>4. s \in out[1].to /\ out[1].env.type \in News => out[1].env.msgs[1] \in NewsFor(out, s)
  BY <1>1 DEF NewsFor
<1> QED BY <1>2, <1>3, <1>4 DEF p

\* A handler leaves the messages there are, and adds one only to tell the
\* workspace of it.
LEMMA SavedTold ==
  ASSUME SysTypes, Handle
  PROVE  /\ \A i \in DOMAIN db.messages : i \in DOMAIN db'.messages /\ db'.messages[i] = db.messages[i]
         /\ \A i \in DOMAIN db'.messages \ DOMAIN db.messages :
              i = SavedId /\ \E o \in Out : outbox' = <<o>> /\ o.env.type \in News /\ o.env.msgs = <<SavedId>> /\ Saves(o)
<1>1. HubInv /\ [Next]_vars
  BY DEF SysTypes, Next
<1>2. \A i \in DOMAIN db.messages : i \in DOMAIN db'.messages /\ db'.messages[i] = db.messages[i]
  BY <1>1, MessagesKept
<1>3. ASSUME NEW i \in DOMAIN db'.messages \ DOMAIN db.messages
      PROVE  i = SavedId /\ \E o \in Out : outbox' = <<o>> /\ o.env.type \in News /\ o.env.msgs = <<SavedId>> /\ Saves(o)
  <2>1. SendMessage
    BY <1>1, <1>3, DbGrows
  <2> DEFINE me == sess[Sender]
  <2>2. PICK kind \in MessageType, type \in News :
             /\ db' = SaveMessage(db, me.ws, me.current, me.user.id, kind)
             /\ outbox' = <<NewMessage(Members(me.ws), type, me.current, Len(db'.messages))>>
    BY <1>3, <2>1 DEF SendMessage, MessageType, News
  <2>3. /\ me.ws \in Text /\ me.current \in Channel /\ me.user.id \in Nat
        /\ IsTables(db)
    BY <1>1, <2>1, EventTyped DEF HubInv, CoreOK, SessionRecord, SendMessage, Serve
  <2>4. DOMAIN db'.messages = DOMAIN db.messages \cup {SavedId}
    <3> HIDE DEF me
    <3> DEFINE e == SaveMessage(db, me.ws, me.current, me.user.id, kind)
    <3>1. DOMAIN e.messages = DOMAIN db.messages \cup {Len(db.messages) + 1}
      BY <2>3, SaveMessageOK
    <3> HIDE DEF e
    <3>2. db' = e
      BY <2>2 DEF e
    <3> QED BY <3>1, <3>2 DEF SavedId
  <2>5. outbox' \in Seq(Out)
    <3>1. TypeInv'
      BY <1>1, TypeInvStep DEF SysTypes
    <3> QED BY <3>1 DEF TypeInv, QueueTypes
  <2> DEFINE m == NewMessage(Members(me.ws), type, me.current, Len(db'.messages))
             o == outbox'[1]
  <2>6. m.env.type \in News
    BY DEF NewMessage, Envelope
  <2>7. outbox' = <<m>>
    BY <2>2
  <2> HIDE DEF m, Out
  <2>8. 1 \in DOMAIN outbox' /\ o = m /\ o \in Out
    BY <2>5, <2>7
  <2>9. Tells(o)
    BY <2>8, HandlerTold DEF SysTypes, AllTold
  <2>10. outbox' = <<o>> /\ o.env.type \in News /\ o.env.msgs = <<SavedId>> /\ Saves(o)
    BY <2>6, <2>8, <2>9 DEF Tells
  <2> QED BY <1>3, <2>4, <2>8, <2>10
<1> QED BY <1>2, <1>3

\* Besides the handlers only a delivery changes what a session that is connected
\* has under way to it, and they leave its fields and the messages.
Noted(p, q) == p = q \/ \E e \in EnvelopeType : e.type \in Aside /\ Grows(p, q, e)
Given(p, q, o, s) == (s \in o.to => Grows(p, q, o.env)) /\ (s \notin o.to => p = q)
Quiet(s) ==
  /\ Noted(sendq'[s], sendq[s])
  /\ Handle \/ UNCHANGED <<outbox, sess, db>>
Shown(s) ==
  /\ \E c \in Client : Show(c, s)
  /\ outbox = <<>> /\ sendq[s] # <<>> /\ sendq'[s] = Tail(sendq[s]) /\ UNCHANGED <<outbox, sess, db>>
Posted(s) ==
  /\ outbox # <<>> /\ outbox' = Tail(outbox) /\ UNCHANGED <<sess, db>> /\ UNCHANGED clientVars
  /\ Given(sendq'[s], sendq[s], outbox[1], s)

LEMMA LiveWire ==
  ASSUME SysTypes, LinkInv, [SysNext]_sysVars, NEW s \in Session, link[s] = "reading", link'[s] = "reading", s \notin lost'
  PROVE  s \notin lost /\ (Quiet(s) \/ Shown(s) \/ Posted(s))
<1>1. /\ sendq \in [Session -> Seq(EnvelopeType)] /\ outbox \in Seq(Out)
      /\ \A b \in spawned : b.env \in EnvelopeType
  BY DEF SysTypes, TypeInv, QueueTypes
<1>2. Envelope("ping_received") \in EnvelopeType /\ Envelope("ping_received").type \in Aside
  <2>1. "ping_received" \in ServerEvent
    BY DEF ServerEvent
  <2>2. Envelope("ping_received").type = "ping_received"
    BY DEF Envelope
  <2> QED BY <2>1, <2>2, EnvelopeOK DEF Aside
<1> DEFINE Added == sendq'[s] = sendq[s] \/ \E e \in EnvelopeType : e.type \in Aside /\ sendq'[s] = Append(sendq[s], e)
           Still == Added /\ (Handle \/ UNCHANGED <<outbox, sess, db>>) /\ s \notin lost
           Taken == /\ \E c \in Client : Show(c, s)
                    /\ outbox = <<>> /\ sendq[s] # <<>> /\ sendq'[s] = Tail(sendq[s]) /\ UNCHANGED <<outbox, sess, db>>
                    /\ s \notin lost
           Passing == /\ outbox # <<>> /\ outbox' = Tail(outbox) /\ UNCHANGED <<sess, db>> /\ UNCHANGED clientVars
                      /\ s \in outbox[1].to => sendq'[s] = Append(sendq[s], outbox[1].env)
                      /\ s \notin outbox[1].to => sendq'[s] = sendq[s]
                      /\ s \notin lost
<1> HIDE DEF EnvelopeType, Out
<1>16. Still => s \notin lost /\ Quiet(s)
  BY DEF Quiet, Noted, Grows
<1>17. Taken => s \notin lost /\ Shown(s)
  BY DEF Shown
<1>18. ASSUME Passing PROVE s \notin lost /\ Posted(s)
  <2>1. (s \in outbox[1].to => sendq'[s] = Append(sendq[s], outbox[1].env)) /\ (s \notin outbox[1].to => sendq'[s] = sendq[s])
    BY <1>18
  <2>2. Given(sendq'[s], sendq[s], outbox[1], s)
    BY <2>1 DEF Given, Grows
  <2>3. outbox # <<>> /\ outbox' = Tail(outbox) /\ UNCHANGED <<sess, db>> /\ UNCHANGED clientVars /\ s \notin lost
    BY <1>18
  <2> QED BY <2>2, <2>3 DEF Posted
<1> SUFFICES Still \/ Taken \/ Passing
  BY <1>16, <1>17, <1>18
<1>3. ASSUME NEW c \in Client, NEW t \in Session, Show(c, t) PROVE Taken \/ Still
  <2>1. /\ outbox = <<>> /\ sendq[t] # <<>> /\ sendq' = [sendq EXCEPT ![t] = Tail(@)]
        /\ UNCHANGED <<outbox, sess, db, lost>>
    BY <1>3 DEF Show, WriteOut
  <2>2. CASE t = s
    BY <1>1, <1>3, <2>1, <2>2
  <2>3. CASE t # s
    BY <1>1, <2>1, <2>3
  <2> QED BY <2>2, <2>3
<1>4. ASSUME NEW b \in spawned, RunSpawned(b) PROVE Still
  <2>1. /\ Deliver(Members(b.ws), b.env) /\ b.env \in EnvelopeType /\ b.env.type \in Aside
        /\ UNCHANGED <<outbox, sess, db>>
    BY <1>1, <1>4 DEF RunSpawned, LinkInv, SpawnedLeavings, Aside
  <2> QED BY <2>1, LiveDelivery
<1>5. ASSUME Post, UNCHANGED clientVars PROVE Passing
  <2>1. /\ Deliver(Head(outbox).to, Head(outbox).env) /\ outbox # <<>> /\ outbox' = Tail(outbox)
        /\ UNCHANGED <<sess, db>>
    BY <1>5 DEF Post
  <2>2. Head(outbox) = outbox[1]
    BY <1>1, <2>1
  <2>3. Deliver(outbox[1].to, outbox[1].env)
    BY <2>1, <2>2
  <2> QED BY <1>5, <2>1, <2>3, LiveDelivery
<1>6. CASE Handle
  <2>1. ASSUME NEW to \in SUBSET Members(sess[Sender].ws), Deliver(to, Envelope("ping_received")) PROVE Still
    <3> DEFINE e == Envelope("ping_received")
    <3>1. e \in EnvelopeType /\ e.type \in Aside /\ Deliver(to, e)
      BY <1>2, <2>1
    <3> HIDE DEF e
    <3> QED BY <1>6, <3>1, LiveDelivery
  <2> QED BY <1>6, <2>1, HandlerKeeps
<1>7. ASSUME NEW c \in Client, NEW i \in DOMAIN Conns[c], Dial(c, i) PROVE Still
  BY <1>7 DEF Dial, Register, wire
<1>8. ASSUME NEW c \in Client, NEW t \in Session, Send(c, t) PROVE Still
  BY <1>8 DEF Send, Read, wire
<1>9. ASSUME NEW c \in Client, Type(c) \/ EndEffect(c) PROVE Still
  BY <1>9 DEF Type, EndEffect, vars, wire
<1>10. ASSUME NEW t \in Session, RemoveSession(t) \/ Lose(t) PROVE Still
  BY <1>10 DEF RemoveSession, Lose, wire
<1>11. CASE UNCHANGED sysVars
  BY <1>11 DEF sysVars, vars, wire
<1>12. ~Restart
  BY DEF Restart
<1>14. CASE \/ (\E t \in Session : RemoveSession(t)) \/ (\E b \in spawned : RunSpawned(b)) \/ Handle
            \/ \E t \in Session : Lose(t)
  BY <1>4, <1>6, <1>10, <1>14
<1>15. CASE \/ (\E c \in Client : \E i \in DOMAIN Conns[c] : Dial(c, i))
            \/ (\E c \in Client : \E t \in Session : Show(c, t))
            \/ (\E c \in Client : \E t \in Session : Send(c, t))
            \/ (\E c \in Client : Type(c) \/ EndEffect(c))
  BY <1>3, <1>7, <1>8, <1>9, <1>15
<1>13. Still \/ Taken \/ Passing
  BY <1>5, <1>11, <1>12, <1>14, <1>15, SysCases
<1> QED BY <1>13

\* The batch for the channel a handler puts the session in.
Fetched ==
  \E i \in DOMAIN outbox' : /\ Sender \in outbox'[i].to /\ outbox'[i].env.type = "history_batch"
                            /\ outbox'[i].env.chan = sess'[Sender].current

\* A session enters channels of its workspace, or a workspace by its lobby, and is
\* sent the history, when no query fails.
LEMMA Moves ==
  ASSUME Faults = {}, SysTypes, Handle
  PROVE  \/ /\ sess'[Sender].ws = sess[Sender].ws /\ sess'[Sender].current = sess[Sender].current
            /\ scoped' = scoped
         \/ /\ Fetched /\ sess'[Sender].current[1] = sess'[Sender].ws /\ sess'[Sender].ws # Blank
            /\ \/ sess'[Sender].ws = sess[Sender].ws /\ scoped' = scoped
               \/ /\ Event.type = "join_workspace" /\ sess'[Sender].ws = Clean(Event.workspace)
                  /\ scoped' = scoped \cup {<<sess'[Sender].ws, Sender>>}
<1> DEFINE s == Sender
           me == sess[s]
<1>1. /\ s \in Session /\ [Next]_vars /\ inbound # <<>> /\ sess \in [Session -> SessionRecord] /\ HubInv
      /\ link \in [Session -> {"new", "reading", "ended", "gone"}]
  BY HandlerKeeps, EventTyped DEF SysTypes, HubInv, CoreOK, Next, TypeInv, LinkOK
<1>2. \A d, chan : /\ SendHistory(s, d, chan) = {HistoryBatch(s, d, chan)}
                   /\ HistoryBatch(s, d, chan).to = {s}
                   /\ HistoryBatch(s, d, chan).env.type = "history_batch" /\ HistoryBatch(s, d, chan).env.chan = chan
  BY DEF SendHistory, HistoryBatch, Envelope
<1>3. CASE JoinWorkspace
  <2> DEFINE all == Members(JoinTarget) \cup {s}
             a == Identified(s, JoinedSess[s].user.handle)
             b == WorkspaceJoined(s, InLobby, Lobby)
             c == UsersList({s}, ListWorkspaceUsers(InLobby, JoinTarget))
             d == Tell(s, "channels_list")
             e == ChannelJoined(s, Lobby)
             f == Tell(s, "system_notice")
             g == HistoryBatch(s, InLobby, Lobby)
             i == PresenceUpdate(all, Snapshot(presence', JoinTarget))
             j == Broadcast(all, "user_joined")
  <2>1. outbox' = <<a, b, c, d, e, f, g, i, j>>
    BY <1>2, <1>3 DEF JoinWorkspace
  <2>2. s \in g.to /\ g.env.type = "history_batch" /\ g.env.chan = Lobby
    BY <1>2
  <2> HIDE DEF a, b, c, d, e, f, g, i, j, all
  <2>3. outbox'[7] = g /\ 7 \in DOMAIN outbox'
    BY <2>1
  <2>4. /\ sess' = InLobbySess /\ scoped' = scoped \cup {<<JoinTarget, s>>} /\ Event.type = "join_workspace"
        /\ ~JoinRejected
    BY <1>3 DEF JoinWorkspace, Serve, Event
  <2>5. sess'[s].current = Lobby
    <3> DEFINE him == JoinedSess[s]
    <3>1. s \in Session /\ him \in SessionRecord /\ JoinedSess = [sess EXCEPT ![s] = him]
      BY <1>1, <2>4, JoinLeaves
    <3>2. InLobbySess = [JoinedSess EXCEPT ![s] = [him EXCEPT !.current = Lobby]]
      BY DEF InLobbySess
    <3>3. DOMAIN JoinedSess = Session
      BY <1>1, <3>1
    <3> HIDE DEF him
    <3> QED BY <2>4, <3>1, <3>2, <3>3 DEF SessionRecord
  <2>6. sess'[s].ws = JoinTarget
    BY <1>1, <1>3, JoinMovesSession DEF Joining
  <2>7. JoinTarget # Blank
    BY <1>1, <2>4, RealLobby
  <2>8. Fetched
    BY <2>2, <2>3, <2>5 DEF Fetched
  <2>9. sess'[s].current[1] = JoinTarget
    BY <2>5 DEF Lobby
  <2>10. JoinTarget = Clean(Event.workspace)
    BY DEF JoinTarget
  <2> HIDE DEF s
  <2> QED BY <2>4, <2>6, <2>7, <2>8, <2>9, <2>10 DEF s
<1>4. ~JoinWorkspaceAbandoned
  BY DEF JoinWorkspaceAbandoned
<1>5. CASE JoinChannel /\ sess' # sess
  <2> DEFINE chan == <<me.ws, Clean(Event.channel)>>
             p == PresenceUpdate(Members(me.ws), {presence'[<<me.ws, me.user.id>>]})
             o == ChannelJoined(s, chan)
  <2>1. PICK h \in SendHistory(s, db', chan) :
          /\ outbox' = <<p>> \o <<o, h>> \/ outbox' = <<>> \o <<o, h>>
          /\ me.ws # Blank /\ sess' = [sess EXCEPT ![s].current = chan] /\ scoped' = scoped
    BY <1>5 DEF JoinChannel
  <2>2. s \in h.to /\ h.env.type = "history_batch" /\ h.env.chan = chan
    BY <1>2, <2>1
  <2> HIDE DEF p, o
  <2>3. (2 \in DOMAIN outbox' /\ outbox'[2] = h) \/ (3 \in DOMAIN outbox' /\ outbox'[3] = h)
    BY <2>1
  <2>4. sess'[s].current = chan /\ sess'[s].ws = me.ws
    BY <1>1, <2>1 DEF SessionRecord
  <2>5. Fetched
    BY <2>2, <2>3, <2>4 DEF Fetched
  <2>6. chan[1] = me.ws
    OBVIOUS
  <2> HIDE DEF chan
  <2> QED BY <2>1, <2>4, <2>5, <2>6
<1>6. CASE ~Joining /\ ~(JoinChannel /\ sess' # sess)
  <2>1. sess'[s].ws = me.ws /\ (JoinChannel \/ sess'[s].current = me.current)
    BY <1>1, <1>6, IdentityKept
  <2>4. sess'[s].current = me.current
    BY <1>6, <2>1
  <2>2. \A t \in Session : ~RemoveSession(t)
    <3>1. link' = link
      BY HandlerKeeps
    <3> QED BY <1>1, <3>1 DEF RemoveSession
  <2>3. scoped' = scoped
    BY <1>1, <1>6, <2>2, ScopedKept
  <2> QED BY <2>1, <2>3, <2>4
<1> QED BY <1>3, <1>4, <1>5, <1>6 DEF Joining

\* Only handlers change the fields of sessions and the tables.
LEMMA Beside ==
  ASSUME [SysNext]_sysVars
  PROVE  Handle \/ (sess' = sess /\ db' = db)
<1>1. ASSUME NEW c \in Client, NEW i \in DOMAIN Conns[c], Dial(c, i) PROVE sess' = sess /\ db' = db
  BY <1>1 DEF Dial, Register
<1>2. ASSUME NEW c \in Client, NEW t \in Session, Show(c, t) \/ Send(c, t) PROVE sess' = sess /\ db' = db
  BY <1>2 DEF Show, WriteOut, Send, Read
<1>3. ASSUME NEW c \in Client, Type(c) \/ EndEffect(c) PROVE sess' = sess /\ db' = db
  BY <1>3 DEF Type, EndEffect, vars
<1>4. ASSUME NEW t \in Session, RemoveSession(t) \/ Lose(t) PROVE sess' = sess /\ db' = db
  BY <1>4 DEF RemoveSession, Lose
<1>5. CASE Restart \/ (\E b \in spawned : RunSpawned(b)) \/ Post
  BY <1>5 DEF Restart, RunSpawned, Post
<1>6. CASE UNCHANGED sysVars
  BY <1>6 DEF sysVars, vars
<1> QED BY <1>1, <1>2, <1>3, <1>4, <1>5, <1>6, SysCases

\* How a session comes to a channel.
Arrives(s) ==
  /\ Handle /\ s = Sender /\ Fetched /\ sess'[s].current[1] = sess'[s].ws /\ sess'[s].ws # Blank
  /\ sess'[s].ws = sess[s].ws \/ (Event.type = "join_workspace" /\ sess'[s].ws = Clean(Event.workspace))

\* A session is elsewhere only after a handler that brought its history.
LEMMA SessMoves ==
  ASSUME Faults = {}, SysTypes, [SysNext]_sysVars, NEW s \in Session
  PROVE  (sess'[s].ws = sess[s].ws /\ sess'[s].current = sess[s].current) \/ Arrives(s)
<1>1. CASE sess' = sess
  BY <1>1
<1>2. CASE Handle /\ s # Sender
  BY <1>2, OthersKept DEF SysTypes
<1>3. CASE Handle /\ s = Sender
  BY <1>3, Moves DEF Arrives
<1> QED BY <1>1, <1>2, <1>3, Beside

\* How a session gets into the hub's map, and that it stays while it is connected.
LEMMA ScopedMoves ==
  ASSUME Faults = {}, SysTypes, [SysNext]_sysVars
  PROVE  /\ \A p \in scoped' : p \in scoped \/ (p[2] \in Session /\ Arrives(p[2]) /\ p = <<sess'[p[2]].ws, p[2]>>)
         /\ \A p \in scoped : p \in scoped' \/ link'[p[2]] # "reading"
         /\ \A s \in Session : sess'[s].ws # sess[s].ws => <<sess'[s].ws, s>> \in scoped'
<1>1. /\ link \in [Session -> {"new", "reading", "ended", "gone"}] /\ scoped \subseteq (Text \ {Blank}) \X Session
  BY DEF SysTypes, TypeInv, LinkOK, ScopedTyped
<1> DEFINE Goal == /\ \A p \in scoped' : p \in scoped \/ (p[2] \in Session /\ Arrives(p[2]) /\ p = <<sess'[p[2]].ws, p[2]>>)
                   /\ \A p \in scoped : p \in scoped' \/ link'[p[2]] # "reading"
                   /\ \A s \in Session : sess'[s].ws # sess[s].ws => <<sess'[s].ws, s>> \in scoped'
<1>2. CASE Handle
  <2>1. Sender \in Session
    BY <1>2, HandlerKeeps, EventTyped DEF SysTypes, HubInv
  <2>2. \A s \in Session \ {Sender} : sess'[s] = sess[s]
    BY <1>2, OthersKept DEF SysTypes
  <2>3. CASE scoped' = scoped /\ sess'[Sender].ws = sess[Sender].ws
    BY <2>2, <2>3
  <2>4. CASE /\ Arrives(Sender) /\ scoped' = scoped \cup {<<sess'[Sender].ws, Sender>>}
    <3> DEFINE x == <<sess'[Sender].ws, Sender>>
    <3>1. x[2] = Sender /\ x = <<sess'[x[2]].ws, x[2]>>
      OBVIOUS
    <3>2. \A p \in scoped' : p \in scoped \/ p = x
      BY <2>4
    <3>3. \A p \in scoped' : p \in scoped \/ (p[2] \in Session /\ Arrives(p[2]) /\ p = <<sess'[p[2]].ws, p[2]>>)
      <4> HIDE DEF x
      <4> QED BY <2>1, <2>4, <3>1, <3>2
    <3>4. \A s \in Session : sess'[s].ws # sess[s].ws => <<sess'[s].ws, s>> \in scoped'
      BY <2>2, <2>4
    <3> QED BY <2>4, <3>3, <3>4
  <2> QED BY <1>2, <2>3, <2>4, Moves DEF Arrives
<1>3. ASSUME sess' = sess, scoped' = scoped PROVE Goal
  BY <1>3
<1>4. ASSUME NEW t \in Session, RemoveSession(t) PROVE Goal
  <2>1. scoped' = scoped \ {<<sess[t].ws, t>>} /\ link' = [link EXCEPT ![t] = "gone"] /\ sess' = sess
    BY <1>4 DEF RemoveSession
  <2>2. link'[t] # "reading"
    BY <1>1, <2>1
  <2>3. \A p \in scoped : p \in scoped' \/ p[2] = t
    BY <1>1, <2>1
  <2> QED BY <2>1, <2>2, <2>3
<1>5. CASE Restart
  <2>1. scoped' = {} /\ link' = [s \in Session |-> IF link[s] = "new" THEN "new" ELSE "gone"] /\ sess' = sess
    BY <1>5 DEF Restart
  <2>2. \A p \in scoped : link'[p[2]] # "reading"
    BY <1>1, <2>1
  <2> QED BY <2>1, <2>2
<1>6. ASSUME NEW c \in Client, NEW i \in DOMAIN Conns[c], Dial(c, i) PROVE Goal
  BY <1>6 DEF Dial, Register
<1>7. ASSUME NEW c \in Client, NEW t \in Session, Show(c, t) \/ Send(c, t) PROVE Goal
  BY <1>7 DEF Show, WriteOut, Send, Read, table
<1>8. ASSUME NEW c \in Client, Type(c) \/ EndEffect(c) PROVE Goal
  BY <1>8 DEF Type, EndEffect, vars, table
<1>9. ASSUME NEW t \in Session, Lose(t) PROVE Goal
  BY <1>9 DEF Lose, table
<1>10. CASE (\E b \in spawned : RunSpawned(b)) \/ Post
  BY <1>10 DEF RunSpawned, Post, table
<1>11. CASE UNCHANGED sysVars
  BY <1>11 DEF sysVars, vars, table
<1> QED BY <1>2, <1>4, <1>5, <1>6, <1>7, <1>8, <1>9, <1>10, <1>11, SysCases

\* A session is dialed once, and one that is connected was new or connected.
LEMMA LinkGrows ==
  ASSUME SysTypes, [SysNext]_sysVars, NEW s \in Session
  PROVE  /\ link'[s] = "new" => link[s] = "new"
         /\ link'[s] = "reading" => link[s] \in {"new", "reading"}
<1>1. link \in [Session -> {"new", "reading", "ended", "gone"}]
  BY DEF SysTypes, TypeInv, LinkOK
<1>2. ASSUME NEW c \in Client, NEW i \in DOMAIN Conns[c], Dial(c, i)
      PROVE  link'[s] = link[s] \/ (link[s] = "new" /\ link'[s] = "reading")
  BY <1>1, <1>2 DEF Dial, Register
<1>3. ASSUME NEW c \in Client, NEW t \in Session, Show(c, t) \/ Send(c, t) PROVE link' = link
  BY <1>3 DEF Show, WriteOut, Send, Read
<1>4. ASSUME NEW c \in Client, Type(c) \/ EndEffect(c) PROVE link' = link
  BY <1>4 DEF Type, EndEffect, vars
<1>5. ASSUME NEW t \in Session, RemoveSession(t) \/ Lose(t) PROVE link'[s] = link[s] \/ link'[s] \in {"gone", "ended"}
  <2>1. link' = [link EXCEPT ![t] = "gone"] \/ link' = [link EXCEPT ![t] = "ended"]
    BY <1>5 DEF RemoveSession, Lose
  <2> QED BY <1>1, <2>1
<1>6. CASE Restart
  <2>1. link' = [t \in Session |-> IF link[t] = "new" THEN "new" ELSE "gone"]
    BY <1>6 DEF Restart
  <2> QED BY <2>1
<1>7. CASE (\E b \in spawned : RunSpawned(b)) \/ Post \/ Handle \/ UNCHANGED sysVars
  <2>1. link' = link
    BY <1>7, HandlerKeeps DEF RunSpawned, Post, sysVars, vars
  <2> QED BY <1>1, <2>1
<1>8. link[s] \in {"new", "reading", "ended", "gone"}
  BY <1>1
<1> QED BY <1>2, <1>3, <1>4, <1>5, <1>6, <1>7, <1>8, SysCases

\* A request is handled only for a connection that was made.
LEMMA NewSilent ==
  ASSUME SysTypes, LinkInv, Handle
  PROVE  Sender \in Session /\ link[Sender] # "new"
<1>1. Sender \in Session /\ inbound # <<>>
  BY HandlerKeeps, EventTyped DEF SysTypes, HubInv
<1> DEFINE P == [from : Session, event : EventType]
<1>2. inbound \in Seq(P)
  BY DEF SysTypes, HubInv, CoreOK
<1> HIDE DEF P
<1>3. 1 \in DOMAIN inbound /\ Head(inbound) = inbound[1]
  BY <1>1, <1>2
<1>4. inbound[1].from = Sender
  BY <1>3 DEF Sender
<1> QED BY <1>1, <1>3, <1>4 DEF LinkInv, NewQuiet

\* A session is in a channel of its workspace, and in the hub's map for it
\* while it is connected.
AtHome ==
  \A s \in Session :
    /\ sess[s].current[1] = sess[s].ws
    /\ sess[s].ws = Blank => sess[s].current = NoChannel
    /\ link[s] = "new" => sess[s].ws = Blank
    /\ link[s] = "reading" /\ sess[s].ws # Blank => <<sess[s].ws, s>> \in scoped
    /\ \A p \in scoped : p[2] = s => sess[s].ws # Blank

\* Every step keeps a session in a channel of its workspace.
LEMMA AtHomeStep ==
  ASSUME Faults = {}, SysTypes, LinkInv, AtHome, [SysNext]_sysVars
  PROVE  AtHome'
<1> SUFFICES ASSUME NEW s \in Session
             PROVE  /\ sess'[s].current[1] = sess'[s].ws
                    /\ sess'[s].ws = Blank => sess'[s].current = NoChannel
                    /\ link'[s] = "new" => sess'[s].ws = Blank
                    /\ link'[s] = "reading" /\ sess'[s].ws # Blank => <<sess'[s].ws, s>> \in scoped'
                    /\ \A p \in scoped' : p[2] = s => sess'[s].ws # Blank
  BY DEF AtHome
<1>1. /\ link \in [Session -> {"new", "reading", "ended", "gone"}]
  BY DEF SysTypes, TypeInv, LinkOK
<1>2. /\ sess[s].current[1] = sess[s].ws
      /\ sess[s].ws = Blank => sess[s].current = NoChannel
      /\ link[s] = "new" => sess[s].ws = Blank
      /\ link[s] = "reading" /\ sess[s].ws # Blank => <<sess[s].ws, s>> \in scoped
      /\ \A p \in scoped : p[2] = s => sess[s].ws # Blank
  BY DEF AtHome
<1>3. link'[s] = "new" => link[s] = "new"
  BY LinkGrows
<1>4. link'[s] = "reading" => link[s] \in {"new", "reading"}
  BY LinkGrows
<1>5. ASSUME Arrives(s) PROVE link[s] # "new"
  BY <1>5, NewSilent DEF Arrives
<1>6. /\ sess'[s].current[1] = sess'[s].ws
      /\ sess'[s].ws = Blank => sess'[s].current = NoChannel
      /\ link'[s] = "new" => sess'[s].ws = Blank
  BY <1>2, <1>3, <1>5, SessMoves DEF Arrives
<1>7. ASSUME link'[s] = "reading", sess'[s].ws # Blank PROVE <<sess'[s].ws, s>> \in scoped'
  <2>1. CASE sess'[s].ws # sess[s].ws
    BY <2>1, ScopedMoves
  <2>2. CASE sess'[s].ws = sess[s].ws
    <3>1. <<sess[s].ws, s>> \in scoped
      BY <1>2, <1>4, <1>7, <2>2
    <3> QED BY <1>7, <2>2, <3>1, ScopedMoves
  <2> QED BY <2>1, <2>2
<1>8. ASSUME NEW p \in scoped', p[2] = s PROVE sess'[s].ws # Blank
  <2>1. p \in scoped \/ Arrives(s)
    BY <1>8, ScopedMoves
  <2> QED BY <1>2, <1>8, <2>1, SessMoves DEF Arrives
<1> QED BY <1>6, <1>7, <1>8

\* The workspace a client's manager joins on every connection; a client asks for
\* no other.
Target(c) == Clean(Account[c].workspace)
JoinsOne(e, c) == e.type = "join_workspace" => e.workspace = Account[c].workspace

JoinedOnly ==
  \A c \in Client :
    /\ \A i \in DOMAIN queued[c] : JoinsOne(queued[c][i], c)
    /\ \A s \in Session : Belongs(s, c) =>
         /\ \A i \in DOMAIN inbound : inbound[i].from = s => JoinsOne(inbound[i].event, c)
         /\ sess[s].ws \in {Blank, Target(c)}
         /\ \A p \in scoped : p[2] = s => p[1] = Target(c)

\* None of a client's commands,
LEMMA SentJoins ==
  ASSUME NEW v, NEW cmd, NEW c, NEW i \in DOMAIN Sent(v, cmd)
  PROVE  JoinsOne(Sent(v, cmd)[i], c)
<1> DEFINE r == Sent(v, cmd)
<1>1. r = <<>> \/ \E e : e.type # "join_workspace" /\ r = <<e>>
  <2>1. ASSUME NEW e, e.type # "join_workspace", r = <<e>> PROVE \E x : x.type # "join_workspace" /\ r = <<x>>
    BY <2>1
  <2>2. CASE cmd.cmd = "say" \/ cmd.cmd = "/me"
    <3> DEFINE e == [type |-> "send_message", body |-> cmd.body]
    <3>1. r = <<e>> /\ e.type # "join_workspace"
      BY <2>2 DEF Sent
    <3> QED BY <2>1, <3>1
  <2>3. CASE cmd.cmd = "/emote"
    <3> DEFINE e == [type |-> "send_emote", body |-> cmd.body]
    <3>1. r = <<e>> /\ e.type # "join_workspace"
      BY <2>3 DEF Sent
    <3> QED BY <2>1, <3>1
  <2>4. CASE cmd.cmd = "/join"
    <3> DEFINE e == [type |-> "join_channel", channel |-> cmd.channel]
    <3>1. r = <<e>> /\ e.type # "join_workspace"
      BY <2>4 DEF Sent
    <3> QED BY <2>1, <3>1
  <2>5. CASE cmd.cmd = "/dm" /\ Clean(cmd.handle) # v.handle
    <3> DEFINE e == [type |-> "join_channel", channel |-> DmChannel(v, cmd.handle)]
    <3>1. r = <<e>> /\ e.type # "join_workspace"
      BY <2>5 DEF Sent
    <3> QED BY <2>1, <3>1
  <2>6. CASE cmd.cmd = "/users"
    <3> DEFINE e == [type |-> "request_users"]
    <3>1. r = <<e>> /\ e.type # "join_workspace"
      BY <2>6 DEF Sent
    <3> QED BY <2>1, <3>1
  <2>7. CASE cmd.cmd = "/channels"
    <3> DEFINE e == [type |-> "request_channels"]
    <3>1. r = <<e>> /\ e.type # "join_workspace"
      BY <2>7 DEF Sent
    <3> QED BY <2>1, <3>1
  <2>8. CASE cmd.cmd = "/ping"
    <3> DEFINE e == PingEvent(cmd)
    <3>1. r = <<e>> /\ e.type # "join_workspace"
      BY <2>8 DEF Sent, PingEvent
    <3> QED BY <2>1, <3>1
  <2>9. CASE cmd.cmd = "/chandle"
    <3> DEFINE e == [type |-> "change_handle", handle |-> cmd.handle]
    <3>1. r = <<e>> /\ e.type # "join_workspace"
      BY <2>9 DEF Sent
    <3> QED BY <2>1, <3>1
  <2>10. CASE /\ cmd.cmd \notin {"say", "/me", "/emote", "/join", "/users", "/channels", "/ping", "/chandle"}
              /\ ~(cmd.cmd = "/dm" /\ Clean(cmd.handle) # v.handle)
    BY <2>10 DEF Sent
  <2> QED BY <2>2, <2>3, <2>4, <2>5, <2>6, <2>7, <2>8, <2>9, <2>10
<1> HIDE DEF r
<1>2. i \in DOMAIN r
  BY DEF r
<1>3. r[i].type # "join_workspace"
  BY <1>1, <1>2
<1> QED BY <1>3 DEF JoinsOne, r

\* of its answers to what it is sent,
LEMMA AnswerJoins ==
  ASSUME NEW env, NEW c, NEW i \in DOMAIN Answer(env)
  PROVE  JoinsOne(Answer(env)[i], c)
<1> DEFINE e == [type |-> "request_users"]
<1>1. e.type # "join_workspace"
  OBVIOUS
<1> HIDE DEF e
<1>2. Answer(env) = <<e>> \/ Answer(env) = <<>>
  BY DEF Answer, e
<1> QED BY <1>1, <1>2 DEF JoinsOne

\* and of what its manager sends on a connection joins another workspace.
LEMMA ResyncJoins ==
  ASSUME NEW c \in Client, NEW i \in DOMAIN Resync(c)
  PROVE  JoinsOne(Resync(c)[i], c)
<1> DEFINE a == Account[c]
           e1 == [type |-> "identify", token |-> a.token, handle |-> a.handle]
           e2 == [type |-> "join_workspace", workspace |-> a.workspace, code |-> a.code]
           e3 == [type |-> "join_channel", channel |-> a.channel]
<1>1. Resync(c) = <<e1, e2, e3>>
  BY DEF Resync
<1>2. JoinsOne(e1, c) /\ JoinsOne(e2, c) /\ JoinsOne(e3, c)
  BY DEF JoinsOne
<1> HIDE DEF e1, e2, e3
<1> QED BY <1>1, <1>2

\* What becomes of a client's queue, and of inbound.
LEMMA QueuedMoves ==
  ASSUME SysTypes, [SysNext]_sysVars, NEW c \in Client
  PROVE  \/ queued'[c] = queued[c]
         \/ queued[c] # <<>> /\ queued'[c] = Tail(queued[c])
         \/ \E r \in Seq(EventType) : (\A i \in DOMAIN r : JoinsOne(r[i], c)) /\ queued'[c] = queued[c] \o r
<1>1. /\ queued \in [Client -> Seq(EventType)] /\ view = [x \in Client |-> view[x]]
      /\ typing \in [Client -> Seq(SUBSET CommandType)] /\ \A d \in Client : ViewOK(view[d])
  BY DEF SysTypes, ClientTypes
<1> HIDE DEF EventType
<1> DEFINE More == \E r \in Seq(EventType) : (\A i \in DOMAIN r : JoinsOne(r[i], c)) /\ queued'[c] = queued[c] \o r
           Goal == \/ queued'[c] = queued[c] \/ (queued[c] # <<>> /\ queued'[c] = Tail(queued[c])) \/ More
<1>2. ASSUME NEW d \in Client, NEW i \in DOMAIN Conns[d], Dial(d, i) PROVE Goal
  <2>1. queued' = [queued EXCEPT ![d] = queued[d] \o Resync(d)] /\ Resync(d) \in Seq(EventType)
    BY <1>2, ResyncTyped DEF Dial
  <2>2. CASE d = c
    <3>1. queued'[c] = queued[c] \o Resync(c) /\ Resync(c) \in Seq(EventType)
      BY <1>1, <2>1, <2>2
    <3> QED BY <3>1, ResyncJoins
  <2>3. CASE d # c
    BY <1>1, <2>1, <2>3
  <2> QED BY <2>2, <2>3
<1>3. ASSUME NEW d \in Client, NEW t \in Session, Show(d, t) PROVE Goal
  <2> DEFINE r == Answer(Head(sendq[t]))
  <2>1. queued' = [queued EXCEPT ![d] = queued[d] \o r] /\ r \in Seq(EventType)
    BY <1>3, ShowTyped DEF Show
  <2>2. CASE d = c
    <3>1. queued'[c] = queued[c] \o r
      BY <1>1, <2>1, <2>2
    <3>2. \A i \in DOMAIN r : JoinsOne(r[i], c)
      BY AnswerJoins
    <3> HIDE DEF r
    <3> QED BY <2>1, <3>1, <3>2
  <2>3. CASE d # c
    BY <1>1, <2>1, <2>3
  <2> QED BY <2>2, <2>3
<1>4. ASSUME NEW d \in Client, NEW t \in Session, Send(d, t) PROVE Goal
  <2>1. queued' = [queued EXCEPT ![d] = Tail(queued[d])] /\ queued[d] # <<>>
    BY <1>4 DEF Send
  <2> QED BY <1>1, <2>1
<1>5. ASSUME NEW d \in Client, Type(d) PROVE Goal
  <2>1. PICK cmd \in Head(typing[d]) : queued' = [queued EXCEPT ![d] = queued[d] \o Sent(view[d], cmd)]
    BY <1>5 DEF Type
  <2>2. typing[d] \in Seq(SUBSET CommandType) /\ typing[d] # <<>>
    BY <1>1, <1>5 DEF Type
  <2> HIDE DEF CommandType
  <2>3. cmd \in CommandType
    <3>1. Head(typing[d]) \in SUBSET CommandType
      BY <2>2, HeadTailProperties
    <3> QED BY <3>1
  <2> DEFINE r == Sent(view[d], cmd)
  <2>4. r \in Seq(EventType) /\ \A i \in DOMAIN r : JoinsOne(r[i], c)
    BY <1>1, <2>3, SentEvents, SentJoins
  <2> HIDE DEF r
  <2>5. queued'[c] = queued[c] \/ queued'[c] = queued[c] \o r
    BY <1>1, <2>1 DEF r
  <2> QED BY <2>4, <2>5
<1>6. ASSUME NEW d \in Client, EndEffect(d) PROVE Goal
  BY <1>6 DEF EndEffect
<1>7. CASE Restart
  BY <1>7 DEF Restart
<1>8. ASSUME NEW t \in Session, Lose(t) PROVE Goal
  BY <1>8 DEF Lose, clientVars
<1>9. CASE UNCHANGED clientVars \/ UNCHANGED sysVars
  BY <1>9 DEF clientVars, sysVars
<1>10. CASE \/ (\E d \in Client : \E i \in DOMAIN Conns[d] : Dial(d, i))
            \/ (\E d \in Client : \E t \in Session : Show(d, t) \/ Send(d, t))
            \/ (\E d \in Client : Type(d) \/ EndEffect(d))
  BY <1>2, <1>3, <1>4, <1>5, <1>6, <1>10
<1>12. CASE \E t \in Session : Lose(t)
  BY <1>8, <1>12
<1>13. \/ (\E d \in Client : \E i \in DOMAIN Conns[d] : Dial(d, i))
       \/ (\E d \in Client : \E t \in Session : Show(d, t) \/ Send(d, t))
       \/ (\E d \in Client : Type(d) \/ EndEffect(d))
       \/ Restart \/ (\E t \in Session : Lose(t)) \/ UNCHANGED clientVars \/ UNCHANGED sysVars
  BY SysCases
<1>11. Goal
  BY <1>7, <1>9, <1>10, <1>12, <1>13, Zenon
<1> QED BY <1>11

\* Hub.inbound gets the first request of a session at its end and gives its own
\* first up.
LEMMA InboundMoves ==
  ASSUME SysTypes, [SysNext]_sysVars
  PROVE  \/ inbound' = inbound \/ inbound' = <<>>
         \/ inbound # <<>> /\ inbound' = Tail(inbound)
         \/ \E c \in Client : \E s \in Session :
              /\ Belongs(s, c) /\ queued[c] # <<>>
              /\ inbound' = Append(inbound, [from |-> s, event |-> Head(queued[c])])
<1>1. ASSUME NEW c \in Client, NEW i \in DOMAIN Conns[c], Dial(c, i) PROVE inbound' = inbound
  BY <1>1 DEF Dial, Register
<1>2. ASSUME NEW c \in Client, NEW t \in Session, Show(c, t) PROVE inbound' = inbound
  BY <1>2 DEF Show, WriteOut
<1>3. ASSUME NEW c \in Client, NEW t \in Session, Send(c, t)
      PROVE  /\ Belongs(t, c) /\ queued[c] # <<>>
             /\ inbound' = Append(inbound, [from |-> t, event |-> Head(queued[c])])
  BY <1>3 DEF Send, Read
<1>4. ASSUME NEW c \in Client, Type(c) \/ EndEffect(c) PROVE inbound' = inbound
  BY <1>4 DEF Type, EndEffect, vars
<1>5. ASSUME NEW t \in Session, RemoveSession(t) \/ Lose(t) PROVE inbound' = inbound
  BY <1>5 DEF RemoveSession, Lose
<1>6. CASE Restart
  BY <1>6 DEF Restart
<1>7. CASE (\E b \in spawned : RunSpawned(b)) \/ Post \/ UNCHANGED sysVars
  BY <1>7 DEF RunSpawned, Post, sysVars, vars
<1>8. CASE Handle
  BY <1>8, HandlerKeeps
<1>9. CASE \/ (\E c \in Client : \E i \in DOMAIN Conns[c] : Dial(c, i))
           \/ (\E c \in Client : \E t \in Session : Show(c, t) \/ Send(c, t))
           \/ (\E c \in Client : Type(c) \/ EndEffect(c))
  BY <1>1, <1>2, <1>3, <1>4, <1>9
<1>10. CASE \E t \in Session : RemoveSession(t) \/ Lose(t)
  BY <1>5, <1>10
<1>11. \/ (\E c \in Client : \E i \in DOMAIN Conns[c] : Dial(c, i))
       \/ (\E c \in Client : \E t \in Session : Show(c, t) \/ Send(c, t))
       \/ (\E c \in Client : Type(c) \/ EndEffect(c))
       \/ Restart \/ (\E t \in Session : RemoveSession(t) \/ Lose(t))
       \/ (\E b \in spawned : RunSpawned(b)) \/ Post \/ UNCHANGED sysVars \/ Handle
  BY SysCases
<1> QED BY <1>6, <1>7, <1>8, <1>9, <1>10, <1>11, Zenon

\* The elements of two sequences, one after the other.
LEMMA FollowedOnly ==
  ASSUME NEW S, NEW q \in Seq(S), NEW r \in Seq(S), NEW i \in DOMAIN (q \o r)
  PROVE  \/ i \in DOMAIN q /\ (q \o r)[i] = q[i]
         \/ \E j \in DOMAIN r : (q \o r)[i] = r[j]
<1>1. CASE i \in DOMAIN q
  BY <1>1
<1>2. CASE i \notin DOMAIN q
  <2>1. i - Len(q) \in DOMAIN r /\ (q \o r)[i] = r[i - Len(q)]
    BY <1>2
  <2> QED BY <2>1
<1> QED BY <1>1, <1>2

\* So a client's sessions are in its workspace or in none.
LEMMA JoinedOnlyStep ==
  ASSUME Faults = {}, SysTypes, LinkInv, JoinedOnly, [SysNext]_sysVars
  PROVE  JoinedOnly'
<1>1. queued \in [Client -> Seq(EventType)] /\ inbound \in Seq([from : Session, event : EventType])
  BY DEF SysTypes, ClientTypes, HubInv, CoreOK
<1> HIDE DEF EventType
<1>2. ASSUME NEW c \in Client, NEW i \in DOMAIN queued'[c] PROVE JoinsOne(queued'[c][i], c)
  <2> DEFINE q == queued[c]
  <2>1. q \in Seq(EventType) /\ \A j \in DOMAIN q : JoinsOne(q[j], c)
    BY <1>1 DEF JoinedOnly
  <2>2. CASE queued'[c] = q
    BY <1>2, <2>1, <2>2
  <2>3. CASE q # <<>> /\ queued'[c] = Tail(q)
    BY <1>2, <2>1, <2>3, HeadAndTail
  <2>4. ASSUME NEW r \in Seq(EventType), \A j \in DOMAIN r : JoinsOne(r[j], c), queued'[c] = q \o r
        PROVE  JoinsOne(queued'[c][i], c)
    <3> HIDE DEF q
    <3>1. i \in DOMAIN (q \o r)
      BY <1>2, <2>4
    <3>2. \/ i \in DOMAIN q /\ (q \o r)[i] = q[i]
          \/ \E j \in DOMAIN r : (q \o r)[i] = r[j]
      BY <2>1, <3>1, FollowedOnly
    <3> QED BY <2>1, <2>4, <3>2
  <2> QED BY <2>2, <2>3, <2>4, QueuedMoves
<1>3. ASSUME NEW c \in Client, NEW s \in Session, Belongs(s, c), NEW i \in DOMAIN inbound', inbound'[i].from = s
      PROVE  JoinsOne(inbound'[i].event, c)
  <2> DEFINE P == [from : Session, event : EventType]
  <2>1. inbound \in Seq(P) /\ \A j \in DOMAIN inbound : inbound[j].from = s => JoinsOne(inbound[j].event, c)
    BY <1>1, <1>3 DEF JoinedOnly
  <2>2. CASE inbound' = inbound \/ inbound' = <<>>
    BY <1>3, <2>1, <2>2
  <2>3. CASE inbound # <<>> /\ inbound' = Tail(inbound)
    <3> HIDE DEF P
    <3> QED BY <1>3, <2>1, <2>3, HeadAndTail
  <2>4. ASSUME NEW d \in Client, NEW t \in Session, Belongs(t, d), queued[d] # <<>>,
               inbound' = Append(inbound, [from |-> t, event |-> Head(queued[d])])
        PROVE  JoinsOne(inbound'[i].event, c)
    <3> DEFINE e == Head(queued[d])
               p == [from |-> t, event |-> e]
    <3>1. e \in EventType /\ JoinsOne(e, d)
      BY <1>1, <2>4, HeadAndTail, HeadTailProperties DEF JoinedOnly
    <3> HIDE DEF e
    <3>2. p \in P /\ p.from = t /\ p.event = e
      BY <3>1
    <3>3. inbound' = Append(inbound, p)
      BY <2>4 DEF e
    <3> HIDE DEF p, P
    <3>4. (i \in DOMAIN inbound /\ inbound'[i] = inbound[i]) \/ inbound'[i] = p
      BY <1>3, <2>1, <3>2, <3>3, Appended
    <3>5. t = s => c = d
      BY <1>3, <2>4, OneClient
    <3> QED BY <1>3, <2>1, <3>1, <3>2, <3>4, <3>5
  <2> QED BY <2>2, <2>3, <2>4, InboundMoves
<1>4. ASSUME NEW c \in Client, NEW s \in Session, Belongs(s, c), Arrives(s) PROVE sess'[s].ws = Target(c) \/ sess'[s].ws = sess[s].ws
  <2>1. Handle /\ s = Sender
    BY <1>4 DEF Arrives
  <2>2. inbound # <<>>
    BY <2>1, HandlerKeeps
  <2> DEFINE P == [from : Session, event : EventType]
  <2>3. 1 \in DOMAIN inbound /\ Head(inbound) = inbound[1]
    <3>1. inbound \in Seq(P)
      BY <1>1
    <3> HIDE DEF P
    <3> QED BY <2>2, <3>1, HeadAndTail
  <2>4. JoinsOne(Event, c)
    BY <1>4, <2>1, <2>3 DEF JoinedOnly, Sender, Event
  <2> QED BY <1>4, <2>4 DEF Arrives, JoinsOne, Target
<1>5. ASSUME NEW c \in Client, NEW s \in Session, Belongs(s, c)
      PROVE  /\ sess'[s].ws \in {Blank, Target(c)}
             /\ \A p \in scoped' : p[2] = s => p[1] = Target(c)
  <2>1. sess[s].ws \in {Blank, Target(c)} /\ \A p \in scoped : p[2] = s => p[1] = Target(c)
    BY <1>5 DEF JoinedOnly
  <2>2. sess'[s].ws \in {Blank, Target(c)}
    BY <1>4, <1>5, <2>1, SessMoves
  <2>3. ASSUME NEW p \in scoped', p[2] = s PROVE p[1] = Target(c)
    <3>1. CASE p \in scoped
      BY <2>1, <2>3, <3>1
    <3>2. CASE Arrives(p[2]) /\ p = <<sess'[p[2]].ws, p[2]>>
      <4>1. p[1] = sess'[s].ws
        BY <2>3, <3>2
      <4>2. sess'[s].ws # Blank
        BY <2>3, <3>2 DEF Arrives
      <4> QED BY <2>2, <4>1, <4>2
    <3> QED BY <3>1, <3>2, ScopedMoves
  <2> QED BY <2>2, <2>3
<1>6. \A c \in Client : \A s \in Session : Belongs(s, c) =>
        /\ \A i \in DOMAIN inbound' : inbound'[i].from = s => JoinsOne(inbound'[i].event, c)
        /\ sess'[s].ws \in {Blank, Target(c)}
        /\ \A p \in scoped' : p[2] = s => p[1] = Target(c)
  BY <1>3, <1>5
<1> QED BY <1>2, <1>6 DEF JoinedOnly, Belongs, Target, JoinsOne

\* What an envelope and a command do to the channels the user cleared.
LEMMA ApplyTouched ==
  ASSUME NEW v, ViewFields \subseteq DOMAIN v, NEW env
  PROVE  Apply(v, env).touched = IF env.type = "history_batch" THEN v.touched \ {env.chan[2]} ELSE v.touched
<1>1. CASE env.type \in {"identified", "history_batch", "message_new", "emote_new", "ping_effect", "error"}
  BY <1>1 DEF Apply, ViewFields
<1>2. CASE env.type \in {"workspace_joined", "channel_joined"}
  BY <1>2 DEF Apply, ViewFields, Enters
<1>3. CASE env.type = "users_list"
  BY <1>3 DEF Apply, ViewFields, Rebuilt
<1>4. CASE env.type = "presence_update"
  BY <1>4 DEF Apply, ViewFields, Rebuilt, WithPresences
<1>5. CASE env.type = "handle_changed"
  BY <1>5 DEF Apply, ViewFields, Renamed
<1>6. CASE env.type \notin {"identified", "workspace_joined", "users_list", "channel_joined", "history_batch",
                            "message_new", "emote_new", "presence_update", "handle_changed", "ping_effect", "error"}
  BY <1>6 DEF Apply
<1> QED BY <1>1, <1>2, <1>3, <1>4, <1>5, <1>6

\* Two screens that differ in one channel only.
SameBut(m, n, name) ==
  /\ DOMAIN m \subseteq DOMAIN n \cup {name} /\ DOMAIN n \subseteq DOMAIN m \cup {name}
  /\ \A x \in DOMAIN m \cap DOMAIN n : x # name => n[x] = m[x]

\* A command changes what is shown only of a channel it marks as touched,
LEMMA TypedTouched ==
  ASSUME NEW v, ViewFields \subseteq DOMAIN v, NEW cmd
  PROVE  LET w == Typed(v, cmd) IN
         \/ w.msgs = v.msgs /\ w.touched = v.touched
         \/ w.touched = v.touched \cup {v.current} /\ SameBut(v.msgs, w.msgs, v.current)
<1> DEFINE here == At(v.msgs, v.current, <<>>)
           saved == At(v.cleared, v.current, <<>>)
           kept == IF here # <<>> THEN With(v.cleared, v.current, here) ELSE v.cleared
           left == Without(v.msgs, v.current)
           back == With(v.msgs, v.current, saved)
           rest == Without(v.cleared, v.current)
           marked == v.touched \cup {v.current}
           w == Typed(v, cmd)
           Goal == \/ w.msgs = v.msgs /\ w.touched = v.touched
                   \/ w.touched = marked /\ SameBut(v.msgs, w.msgs, v.current)
<1>1. CASE cmd.cmd = "/join"
  BY <1>1 DEF Typed, ViewFields
<1>2. CASE cmd.cmd = "/dm" /\ Clean(cmd.handle) # v.handle
  <2> DEFINE d == DmChannel(v, cmd.handle)
  <2>1. w = [v EXCEPT !.current = d]
    BY <1>2 DEF Typed
  <2> HIDE DEF d
  <2> QED BY <2>1 DEF ViewFields
<1>3. CASE cmd.cmd = "/clear"
  <2>1. w = [v EXCEPT !.cleared = kept, !.msgs = left, !.touched = marked]
    BY <1>3, Zenon DEF Typed
  <2>3. SameBut(v.msgs, left, v.current)
    BY DEF SameBut, Without
  <2> HIDE DEF kept, left, marked, w
  <2>2. w.touched = marked /\ w.msgs = left
    BY <2>1 DEF ViewFields
  <2>4. w.touched = marked /\ SameBut(v.msgs, w.msgs, v.current)
    BY <2>2, <2>3
  <2> QED BY <2>4 DEF w, marked
<1>4. CASE cmd.cmd = "/restore" /\ saved # <<>>
  <2>1. w = [v EXCEPT !.msgs = back, !.cleared = rest, !.touched = marked]
    BY <1>4, Zenon DEF Typed
  <2>3. SameBut(v.msgs, back, v.current)
    <3> HIDE DEF saved
    <3> QED BY DEF SameBut, With
  <2> HIDE DEF back, rest, marked, w
  <2>2. w.touched = marked /\ w.msgs = back
    BY <2>1 DEF ViewFields
  <2>4. w.touched = marked /\ SameBut(v.msgs, w.msgs, v.current)
    BY <2>2, <2>3
  <2> QED BY <2>4 DEF w, marked
<1>5. CASE cmd.cmd = "/effects"
  BY <1>5 DEF Typed, ViewFields
<1>6. CASE cmd.cmd = "/muteeffects"
  <2> DEFINE h == Clean(cmd.handle)
             m == IF h \in v.muted THEN v.muted \ {h} ELSE v.muted \cup {h}
  <2>1. w = [v EXCEPT !.muted = m]
    BY <1>6 DEF Typed
  <2> HIDE DEF m
  <2> QED BY <2>1 DEF ViewFields
<1>7. CASE /\ cmd.cmd \notin {"/join", "/clear", "/effects", "/muteeffects"}
           /\ ~(cmd.cmd = "/dm" /\ Clean(cmd.handle) # v.handle)
           /\ ~(cmd.cmd = "/restore" /\ saved # <<>>)
  BY <1>7 DEF Typed
<1> QED BY <1>1, <1>2, <1>3, <1>4, <1>5, <1>6, <1>7

\* What becomes of the messages on a screen.
LEMMA ViewMoves ==
  ASSUME SysTypes, [SysNext]_sysVars, NEW c \in Client
  PROVE  \/ view'[c].msgs = view[c].msgs /\ view'[c].touched = view[c].touched
         \/ \E s \in Session : Show(c, s) /\ view'[c] = Apply(view[c], Head(sendq[s]))
         \/ /\ UNCHANGED vars
            /\ \E name : /\ view'[c].touched = view[c].touched \cup {name}
                         /\ SameBut(view[c].msgs, view'[c].msgs, name)
<1> DEFINE v == view[c]
           w == [v EXCEPT !.effect = NoEffect]
           Same == view'[c].msgs = v.msgs /\ view'[c].touched = v.touched
           Cleared == \E name : /\ view'[c].touched = v.touched \cup {name}
                                /\ SameBut(v.msgs, view'[c].msgs, name)
<1>1. ViewFields \subseteq DOMAIN v
  BY DEF SysTypes, ClientTypes, ViewOK
<1>2. w.msgs = v.msgs /\ w.touched = v.touched
  BY <1>1 DEF ViewFields
<1>3. CASE view'[c] = w
  BY <1>2, <1>3
<1>4. CASE Type(c) /\ \E cmd \in Head(typing[c]) : view'[c] = Typed(v, cmd)
  <2>1. UNCHANGED vars
    BY <1>4 DEF Type
  <2>2. Same \/ Cleared
    BY <1>1, <1>4, TypedTouched
  <2> QED BY <2>1, <2>2
<1>5. CASE view'[c] = v
  BY <1>5
<1>6. \/ view'[c] = v
      \/ \E s \in Session : Show(c, s) /\ view'[c] = Apply(v, Head(sendq[s]))
      \/ Type(c) /\ \E cmd \in Head(typing[c]) : view'[c] = Typed(v, cmd)
      \/ view'[c] = w
  BY SysViews
<1> QED BY <1>3, <1>4, <1>5, <1>6

\* No step loses a message or changes one.
LEMMA MessagesLast ==
  ASSUME SysTypes, [SysNext]_sysVars
  PROVE  \A i \in DOMAIN db.messages : i \in DOMAIN db'.messages /\ db'.messages[i] = db.messages[i]
BY Beside, SavedTold
-----------------------------------------------------------------------------
\* Whoever is in no workspace is sent no messages.
QuietOutside ==
  \A s \in Session : sess[s].ws = Blank =>
    /\ \A i \in DOMAIN sendq[s] : ~Carries(sendq[s][i])
    /\ \A i \in DOMAIN outbox : s \in outbox[i].to => ~Carries(outbox[i].env)

\* What a handler tells a session that is in a workspace or comes to it.
LEMMA CarriedTold ==
  ASSUME Faults = {}, SysTypes, LinkInv, AtHome, AtHome', Handle,
         NEW i \in DOMAIN outbox', Carries(outbox'[i].env), NEW s \in outbox'[i].to
  PROVE  LET env == outbox'[i].env IN
         \/ /\ env.type = "history_batch" /\ s = Sender /\ s \in Session /\ env.msgs = ListHistory(db', env.chan)
            /\ env.chan = sess'[s].current /\ env.chan[1] = sess'[s].ws /\ sess'[s].ws # Blank
         \/ /\ env.type \in News /\ env.msgs = <<SavedId>> /\ UNCHANGED sess
            /\ SavedId \in DOMAIN db'.messages /\ db'.messages[SavedId].chan = env.chan
            /\ env.chan[1] = sess[Sender].ws /\ s \in Session /\ <<env.chan[1], s>> \in scoped
            /\ sess[s].ws # Blank
<1> DEFINE o == outbox'[i]
           env == o.env
<1>1. Tells(o) /\ Carries(env) /\ s \in o.to
  BY HandlerTold DEF SysTypes, AllTold
<1>2. Sender \in Session
  BY NewSilent
<1> HIDE DEF o
<1>3. CASE env.type = "history_batch"
  <2>1. o.to = {Sender} /\ env.msgs = ListHistory(db', env.chan) /\ Current(env.chan)
    BY <1>1, <1>3 DEF Tells
  <2>2. s = Sender /\ env.chan = sess'[s].current /\ env.chan # NoChannel
    BY <1>1, <2>1 DEF Current
  <2>3. sess'[s].current[1] = sess'[s].ws /\ (sess'[s].ws = Blank => sess'[s].current = NoChannel)
    BY <1>2, <2>2 DEF AtHome
  <2> QED BY <1>2, <1>3, <2>1, <2>2, <2>3 DEF o
<1>4. CASE env.type \in News
  <2>1. env.msgs = <<SavedId>> /\ Saves(o)
    BY <1>1, <1>4 DEF Tells
  <2>2. /\ SendMessage /\ o.to = Members(sess[Sender].ws) /\ env.chan = sess[Sender].current
        /\ SavedId \in DOMAIN db'.messages /\ db'.messages[SavedId].chan = env.chan
    BY <2>1 DEF Saves
  <2>3. UNCHANGED sess
    BY <2>2 DEF SendMessage
  <2>4. env.chan[1] = sess[Sender].ws
    BY <1>2, <2>2 DEF AtHome
  <2>5. s \in Session /\ <<env.chan[1], s>> \in scoped
    BY <1>1, <2>2, <2>4 DEF Members
  <2> DEFINE p == <<env.chan[1], s>>
  <2>6. p \in scoped /\ p[2] = s
    BY <2>5
  <2>7. sess[s].ws # Blank
    <3> HIDE DEF p
    <3> QED BY <2>5, <2>6 DEF AtHome
  <2> QED BY <1>4, <2>1, <2>2, <2>3, <2>4, <2>5, <2>7 DEF o
<1> QED BY <1>1, <1>3, <1>4 DEF Carries, o

\* All that is sent to a session is in G after a step if it was and what a handler
\* says is: its channel gets that and what goes aside.
LEMMA WaitingStep ==
  ASSUME SysTypes, LinkInv, [SysNext]_sysVars, NEW s \in Session, NEW G,
         \A e \in EnvelopeType : e.type \in Aside => e \in G,
         \A i \in DOMAIN sendq[s] : sendq[s][i] \in G,
         \A i \in DOMAIN outbox : s \in outbox[i].to => outbox[i].env \in G,
         Handle => \A i \in DOMAIN outbox' : s \in outbox'[i].to => outbox'[i].env \in G
  PROVE  /\ \A i \in DOMAIN sendq'[s] : sendq'[s][i] \in G
         /\ \A i \in DOMAIN outbox' : s \in outbox'[i].to => outbox'[i].env \in G
<1>1. /\ sendq[s] \in Seq(EnvelopeType) /\ outbox \in Seq(Out)
  BY DEF SysTypes, TypeInv, QueueTypes
<1> HIDE DEF EnvelopeType, Out
<1>2. ASSUME NEW i \in DOMAIN sendq'[s] PROVE sendq'[s][i] \in G
  <2> DEFINE q == sendq[s]
  <2>1. q \in Seq(EnvelopeType) /\ \A j \in DOMAIN q : q[j] \in G
    BY <1>1
  <2>2. CASE sendq'[s] = q \/ sendq'[s] = <<>>
    BY <1>2, <2>1, <2>2
  <2>3. CASE q # <<>> /\ sendq'[s] = Tail(q)
    BY <1>2, <2>1, <2>3, HeadAndTail
  <2>4. ASSUME NEW env \in EnvelopeType, sendq'[s] = Append(q, env),
               \/ outbox # <<>> /\ outbox' = Tail(outbox) /\ env = outbox[1].env /\ s \in outbox[1].to
               \/ env.type \in Aside
        PROVE  sendq'[s][i] \in G
    <3>1. env \in G
      BY <1>1, <2>4, HeadAndTail
    <3> QED BY <1>2, <2>1, <2>4, <3>1, Appended
  <2> QED BY <2>2, <2>3, <2>4, SysWire
<1>3. ASSUME NEW i \in DOMAIN outbox', s \in outbox'[i].to PROVE outbox'[i].env \in G
  <2>1. CASE outbox' = outbox \/ outbox' = <<>> \/ Handle
    BY <1>3, <2>1
  <2>2. CASE outbox # <<>> /\ outbox' = Tail(outbox)
    BY <1>1, <1>3, <2>2, HeadAndTail
  <2> QED BY <2>1, <2>2, SysOutbox
<1> QED BY <1>2, <1>3

\* What is under way before and after a step has its type.
LEMMA UnderwayTyped ==
  ASSUME SysTypes, [SysNext]_sysVars
  PROVE  /\ sendq \in [Session -> Seq(EnvelopeType)] /\ outbox \in Seq(Out) /\ outbox' \in Seq(Out)
         /\ \A i \in DOMAIN outbox : outbox[i].env \in EnvelopeType
         /\ \A i \in DOMAIN outbox' : outbox'[i].env \in EnvelopeType
         /\ IsTables(db) /\ IsTables(db')
<1>1. SysTypes'
  BY HubTypesStep, ClientTypesStep DEF SysTypes
<1>2. /\ sendq \in [Session -> Seq(EnvelopeType)] /\ outbox \in Seq(Out) /\ outbox' \in Seq(Out)
      /\ IsTables(db) /\ IsTables(db')
  BY <1>1 DEF SysTypes, TypeInv, QueueTypes, HubInv, CoreOK
<1>3. \A o \in Out : o.env \in EnvelopeType
  BY DEF Out
<1> HIDE DEF EnvelopeType, Out
<1> QED BY <1>2, <1>3

\* Nothing of a channel is sent to a session before it is in a workspace.
LEMMA QuietOutsideStep ==
  ASSUME Faults = {}, SysTypes, LinkInv, AtHome, AtHome', QuietOutside, [SysNext]_sysVars
  PROVE  QuietOutside'
<1> SUFFICES ASSUME NEW s \in Session, sess'[s].ws = Blank
             PROVE  /\ \A i \in DOMAIN sendq'[s] : ~Carries(sendq'[s][i])
                    /\ \A i \in DOMAIN outbox' : s \in outbox'[i].to => ~Carries(outbox'[i].env)
  BY DEF QuietOutside
<1> DEFINE G == {e \in EnvelopeType : ~Carries(e)}
<1>1. sess[s].ws = Blank
  BY SessMoves DEF Arrives
<1>2. /\ sendq[s] \in Seq(EnvelopeType)
      /\ \A i \in DOMAIN outbox : outbox[i].env \in EnvelopeType
      /\ Handle => \A i \in DOMAIN outbox' : outbox'[i].env \in EnvelopeType
  BY UnderwayTyped
<1>3. Handle => \A i \in DOMAIN outbox' : s \in outbox'[i].to => ~Carries(outbox'[i].env)
  <2> SUFFICES ASSUME Handle, NEW i \in DOMAIN outbox', s \in outbox'[i].to, Carries(outbox'[i].env) PROVE FALSE
    OBVIOUS
  <2> QED BY <1>1, CarriedTold
<1>4. \A e \in EnvelopeType : e.type \in Aside => e \in G
  BY AsideCarries
<1>5. \A i \in DOMAIN sendq[s] : sendq[s][i] \in G
  BY <1>1, <1>2 DEF QuietOutside
<1>6. \A i \in DOMAIN outbox : s \in outbox[i].to => outbox[i].env \in G
  BY <1>1, <1>2 DEF QuietOutside
<1>7. Handle => \A i \in DOMAIN outbox' : s \in outbox'[i].to => outbox'[i].env \in G
  BY <1>2, <1>3
<1>8. \A e : e \in G => ~Carries(e)
  OBVIOUS
<1> HIDE DEF G
<1> QED BY <1>4, <1>5, <1>6, <1>7, <1>8, WaitingStep

\* Messages are under way in their channel, of the client's workspace.
FiledFor(env, c, d) ==
  Carries(env) => env.chan[1] = Target(c) /\ \A n \in DOMAIN env.msgs : env.msgs[n] \in Ids(d, env.chan)

CarriedFiled ==
  \A c \in Client : \A s \in Session : Belongs(s, c) =>
    /\ \A i \in DOMAIN sendq[s] : FiledFor(sendq[s][i], c, db)
    /\ \A i \in DOMAIN outbox : s \in outbox[i].to => FiledFor(outbox[i].env, c, db)

\* What is sent to a client is filed where the envelope says, in its workspace,
LEMMA CarriedFiledStep ==
  ASSUME Faults = {}, SysTypes, LinkInv, AtHome, AtHome', JoinedOnly, JoinedOnly', CarriedFiled, [SysNext]_sysVars
  PROVE  CarriedFiled'
<1> SUFFICES ASSUME NEW c \in Client, NEW s \in Session, Belongs(s, c)
             PROVE  /\ \A i \in DOMAIN sendq'[s] : FiledFor(sendq'[s][i], c, db')
                    /\ \A i \in DOMAIN outbox' : s \in outbox'[i].to => FiledFor(outbox'[i].env, c, db')
  BY DEF CarriedFiled, FiledFor, Ids, Belongs, Target
<1> DEFINE G == {e \in EnvelopeType : FiledFor(e, c, db')}
<1>2. /\ sendq[s] \in Seq(EnvelopeType)
      /\ \A i \in DOMAIN outbox : outbox[i].env \in EnvelopeType
      /\ Handle => \A i \in DOMAIN outbox' : outbox'[i].env \in EnvelopeType
      /\ IsTables(db')
  BY UnderwayTyped
<1>3. ASSUME NEW e, FiledFor(e, c, db) PROVE FiledFor(e, c, db')
  BY <1>3, MessagesLast DEF FiledFor, Ids
<1>4. ASSUME Handle, NEW i \in DOMAIN outbox', s \in outbox'[i].to PROVE FiledFor(outbox'[i].env, c, db')
  <2> DEFINE env == outbox'[i].env
  <2> SUFFICES ASSUME Carries(env) PROVE env.chan[1] = Target(c) /\ \A n \in DOMAIN env.msgs : env.msgs[n] \in Ids(db', env.chan)
    BY DEF FiledFor
  <2>1. \/ /\ env.type = "history_batch" /\ env.msgs = ListHistory(db', env.chan)
           /\ env.chan[1] = sess'[s].ws /\ sess'[s].ws # Blank
        \/ /\ env.msgs = <<SavedId>> /\ SavedId \in DOMAIN db'.messages /\ db'.messages[SavedId].chan = env.chan
           /\ <<env.chan[1], s>> \in scoped
    BY <1>4, CarriedTold
  <2> HIDE DEF env
  <2>2. CASE env.msgs = ListHistory(db', env.chan) /\ env.chan[1] = sess'[s].ws /\ sess'[s].ws # Blank
    <3>1. env.chan[1] = Target(c)
      BY <2>2 DEF JoinedOnly, Belongs, Target
    <3>2. \A n \in DOMAIN ListHistory(db', env.chan) : ListHistory(db', env.chan)[n] \in Ids(db', env.chan)
      BY <1>2, HistoryOf DEF Ids
    <3> QED BY <2>2, <3>1, <3>2
  <2>3. CASE /\ env.msgs = <<SavedId>> /\ SavedId \in DOMAIN db'.messages /\ db'.messages[SavedId].chan = env.chan
             /\ <<env.chan[1], s>> \in scoped
    <3> DEFINE p == <<env.chan[1], s>>
               id == SavedId
    <3>1. p \in scoped /\ p[2] = s /\ p[1] = env.chan[1]
      BY <2>3
    <3>2. env.msgs = <<id>> /\ id \in Ids(db', env.chan)
      BY <2>3 DEF Ids
    <3> HIDE DEF p, id
    <3>3. env.chan[1] = Target(c)
      BY <3>1 DEF JoinedOnly
    <3> QED BY <3>2, <3>3
  <2> QED BY <2>1, <2>2, <2>3
<1>5. \A e \in EnvelopeType : e.type \in Aside => e \in G
  BY AsideCarries DEF FiledFor
<1>6. \A i \in DOMAIN sendq[s] : sendq[s][i] \in G
  BY <1>2, <1>3 DEF CarriedFiled
<1>7. \A i \in DOMAIN outbox : s \in outbox[i].to => outbox[i].env \in G
  BY <1>2, <1>3 DEF CarriedFiled
<1>8. Handle => \A i \in DOMAIN outbox' : s \in outbox'[i].to => outbox'[i].env \in G
  BY <1>2, <1>4
<1>9. \A e : e \in G => FiledFor(e, c, db')
  OBVIOUS
<1> HIDE DEF G
<1> QED BY <1>5, <1>6, <1>7, <1>8, <1>9, WaitingStep

\* A message that is news finds a list it comes after on the screen.
LEMMA NewsShown ==
  ASSUME SysTypes, OrderInv, NEW c \in Client, NEW s \in Session, Show(c, s), NEW env, env = Head(sendq[s]),
         NEW name
  PROVE  LET list == At(view[c].msgs, name, <<>>) IN
         /\ list \in Seq(Nat) /\ Increasing(list)
         /\ env.type \in News => env.msgs \in Seq(Nat) /\ Len(env.msgs) = 1 /\ Below(list, env.msgs[1])
<1> DEFINE list == At(view[c].msgs, name, <<>>)
           q == sendq[s]
<1>1. /\ q \in Seq(EnvelopeType) /\ q # <<>> /\ Belongs(s, c) /\ link[s] = "reading" /\ env \in EnvelopeType
  BY ShowTyped DEF Show
<1>2. env = q[1] /\ 1 \in DOMAIN q
  <2> HIDE DEF EnvelopeType
  <2> QED BY <1>1, HeadAndTail
<1>3. env.msgs \in Seq(Nat)
  BY <1>1, EnvelopeTexts
<1>4. CarriedOK(env, db)
  BY <1>2 DEF OrderInv, AllCarriedOK
<1>5. CASE list \in Lists(view[c])
  <2>1. list \in Seq(Nat) /\ Increasing(list)
    BY <1>5 DEF OrderInv, ListsOK
  <2>2. env.type \in News => Below(list, env.msgs[1])
    BY <1>1, <1>2, <1>5 DEF OrderInv, NewsUnseen, Unseen
  <2> QED BY <1>3, <1>4, <2>1, <2>2 DEF CarriedOK
<1>6. CASE list = <<>>
  <2>1. <<>> \in Seq(Nat) /\ Increasing(<<>>) /\ \A id : Below(<<>>, id)
    BY DEF Increasing, Below
  <2> QED BY <1>3, <1>4, <1>6, <2>1 DEF CarriedOK
<1>7. list \in Lists(view[c]) \/ list = <<>>
  BY DEF Lists, At
<1> QED BY <1>5, <1>6, <1>7

\* What a screen shows of a channel the user did not clear is of that channel.
ListsFiled ==
  \A c \in Client : \A name \in DOMAIN view[c].msgs \ view[c].touched :
    Elems(view[c].msgs[name]) \subseteq Ids(db, <<Target(c), name>>)

\* Every step keeps it that way.
LEMMA ListsFiledStep ==
  ASSUME SysTypes, LinkInv, OrderInv, CarriedFiled, ListsFiled, [SysNext]_sysVars
  PROVE  ListsFiled'
<1> SUFFICES ASSUME NEW c \in Client, NEW name \in DOMAIN view'[c].msgs \ view'[c].touched
             PROVE  Elems(view'[c].msgs[name]) \subseteq Ids(db', <<Target(c), name>>)
  BY DEF ListsFiled, Target, Elems, Ids
<1> DEFINE v == view[c]
           chan == <<Target(c), name>>
           Was == name \in DOMAIN v.msgs \ v.touched /\ view'[c].msgs[name] = v.msgs[name]
<1>1. Ids(db, chan) \subseteq Ids(db', chan)
  BY MessagesLast DEF Ids
<1>2. CASE Was
  BY <1>1, <1>2 DEF ListsFiled
<1>3. CASE view'[c].msgs = v.msgs /\ view'[c].touched = v.touched
  BY <1>2, <1>3
<1>4. ASSUME NEW x, view'[c].touched = v.touched \cup {x}, SameBut(v.msgs, view'[c].msgs, x) PROVE Was
  BY <1>4 DEF SameBut
<1>5. ASSUME NEW s \in Session, Show(c, s), view'[c] = Apply(v, Head(sendq[s]))
      PROVE  Elems(view'[c].msgs[name]) \subseteq Ids(db, chan) \/ Was
  <2> DEFINE env == Head(sendq[s])
             k == env.chan[2]
             old == At(v.msgs, k, <<>>)
             joined == AppendMessage(old, env.msgs)
             m == view'[c].msgs
  <2>1. ViewFields \subseteq DOMAIN v
    BY DEF SysTypes, ClientTypes, ViewOK
  <2>2. /\ env \in EnvelopeType /\ env.chan \in Channel
        /\ Belongs(s, c) /\ env = sendq[s][1] /\ 1 \in DOMAIN sendq[s]
    <3>1. env \in EnvelopeType /\ sendq[s] \in Seq(EnvelopeType) /\ sendq[s] # <<>>
      BY <1>5, ShowTyped
    <3>2. env = sendq[s][1] /\ 1 \in DOMAIN sendq[s]
      <4> HIDE DEF EnvelopeType
      <4> QED BY <3>1, HeadAndTail
    <3> QED BY <1>5, <3>1, <3>2, EnvelopeTexts DEF Show
  <2>3. FiledFor(env, c, db)
    BY <2>2 DEF CarriedFiled
  <2> DEFINE w == Apply(v, env)
  <2>11. m = w.msgs /\ view'[c].touched = w.touched
    BY <1>5
  <2>4. w.touched = IF env.type = "history_batch" THEN v.touched \ {k} ELSE v.touched
    BY <2>1, ApplyTouched
  <2>5. w.msgs = IF env.type = "history_batch" THEN With(v.msgs, k, env.msgs)
                 ELSE IF env.type \in {"message_new", "emote_new"} THEN With(v.msgs, k, joined)
                 ELSE v.msgs
    BY <2>1, ApplyFields
  <2>6. Carries(env) => env.chan = <<Target(c), k>> /\ Elems(env.msgs) \subseteq Ids(db, env.chan)
    <3>1. env.chan = <<env.chan[1], k>>
      BY <2>2 DEF Channel
    <3> QED BY <2>3, <3>1 DEF FiledFor, Elems
  <2>7. /\ old \in Seq(Nat) /\ Increasing(old)
        /\ env.type \in News => env.msgs \in Seq(Nat) /\ Len(env.msgs) = 1 /\ Below(old, env.msgs[1])
    BY <1>5, NewsShown
  <2> HIDE DEF env, m, joined, w
  <2>8. CASE env.type \notin News /\ env.type # "history_batch"
    BY <2>4, <2>5, <2>8, <2>11 DEF News, m
  <2>9. CASE env.type = "history_batch"
    <3>1. m = With(v.msgs, k, env.msgs) /\ view'[c].touched = v.touched \ {k} /\ Carries(env)
      BY <2>4, <2>5, <2>9, <2>11 DEF Carries
    <3>2. CASE name = k
      <4>1. m[name] = env.msgs
        BY <3>1, <3>2 DEF With
      <4> QED BY <2>6, <3>1, <3>2, <4>1 DEF m
    <3>3. CASE name # k
      BY <3>1, <3>3 DEF With, m
    <3> QED BY <3>2, <3>3
  <2>10. CASE env.type \in News
    <3>1. m = With(v.msgs, k, joined) /\ view'[c].touched = v.touched /\ Carries(env)
      BY <2>4, <2>5, <2>10, <2>11 DEF News, Carries
    <3>2. CASE name = k
      <4>1. m[name] = joined
        BY <3>1, <3>2 DEF With
      <4> DEFINE new == env.msgs
      <4>2. new \in Seq(Nat) /\ Len(new) = 1 /\ Below(old, new[1]) /\ joined = AppendMessage(old, new)
        BY <2>7, <2>10 DEF joined
      <4>3. Elems(old) \subseteq Ids(db, chan)
        <5>1. name \notin v.touched
          BY <3>1
        <5> QED BY <3>2, <5>1 DEF ListsFiled, Elems, At
      <4>4. new[1] \in Ids(db, chan)
        <5>1. 1 \in DOMAIN new
          BY <4>2
        <5> QED BY <2>6, <3>1, <3>2, <5>1 DEF Elems
      <4> HIDE DEF new, old, chan
      <4>5. Elems(joined) \subseteq Elems(old) \cup {new[1]}
        BY <2>7, <4>2, AppendKeeps
      <4> QED BY <4>1, <4>3, <4>4, <4>5 DEF m, chan
    <3>3. CASE name # k
      BY <3>1, <3>3 DEF With, m
    <3> QED BY <3>2, <3>3
  <2> QED BY <2>8, <2>9, <2>10
<1>6. ASSUME NEW s \in Session, Show(c, s), view'[c] = Apply(v, Head(sendq[s]))
      PROVE  Elems(view'[c].msgs[name]) \subseteq Ids(db', chan)
  BY <1>1, <1>2, <1>5, <1>6
<1> QED BY <1>2, <1>3, <1>4, <1>6, ViewMoves

\* A connection that works, on which nothing was dropped, of a session that joined.
Inside(s) == Live(s) /\ sess[s].ws # Blank

\* Whoever is inside was there before, in the same workspace, or comes by an event.
LEMMA InsideMoves ==
  ASSUME Faults = {}, SysTypes, LinkInv, AtHome, JoinedOnly, JoinedOnly', [SysNext]_sysVars,
         NEW c \in Client, NEW s \in Session, Belongs(s, c), Inside(s)'
  PROVE  /\ link[s] = "reading" /\ link'[s] = "reading" /\ s \notin lost /\ s \notin lost'
         /\ sess'[s].ws = Target(c) /\ Target(c) # Blank
         /\ \/ Inside(s) /\ sess[s].ws = Target(c) /\ <<Target(c), s>> \in scoped
            \/ sess[s].ws = Blank /\ Arrives(s)
<1>1. link'[s] = "reading" /\ s \notin lost' /\ sess'[s].ws # Blank
  BY DEF Inside, Live
<1>2. sess'[s].ws = Target(c)
  BY <1>1 DEF JoinedOnly, Belongs, Target
<1>3. link[s] = "reading"
  <2>1. link[s] \in {"new", "reading"}
    BY <1>1, LinkGrows
  <2>2. CASE link[s] = "new"
    <3>1. sess[s].ws = Blank
      BY <2>2 DEF AtHome
    <3>2. ~Arrives(s)
      BY <2>2, NewSilent DEF Arrives
    <3> QED BY <1>1, <3>1, <3>2, SessMoves
  <2> QED BY <2>1, <2>2
<1>4. s \notin lost
  BY <1>1, <1>3, LiveWire
<1>5. CASE sess[s].ws = Blank
  BY <1>1, <1>2, <1>3, <1>4, <1>5, SessMoves
<1>6. CASE sess[s].ws # Blank
  <2>1. sess[s].ws = Target(c)
    BY <1>6 DEF JoinedOnly
  <2>2. <<Target(c), s>> \in scoped
    BY <1>3, <1>6, <2>1 DEF AtHome
  <2> QED BY <1>1, <1>2, <1>3, <1>4, <1>6, <2>1, <2>2 DEF Inside, Live
<1> QED BY <1>5, <1>6

\* A sequence that an element is added to has it last.
LEMMA AddedLast ==
  ASSUME NEW S, NEW q \in Seq(S), NEW e \in S, NEW p, Grows(p, q, e)
  PROVE  /\ \A i \in DOMAIN p : (i \in DOMAIN q /\ p[i] = q[i]) \/ p[i] = e
         /\ \A i \in DOMAIN q : i \in DOMAIN p /\ p[i] = q[i]
         /\ \E i \in DOMAIN p : p[i] = e
<1>1. /\ \A i \in DOMAIN q : i \in DOMAIN p /\ p[i] = q[i]
      /\ \A i \in DOMAIN p : i \in DOMAIN q \/ (i = Len(q) + 1 /\ p[i] = e)
      /\ Len(q) + 1 \in DOMAIN p /\ p[Len(q) + 1] = e
  BY Appended DEF Grows
<1> QED BY <1>1

\* What goes aside changes no news.
LEMMA QuietWire ==
  ASSUME NEW q \in Seq(EnvelopeType), NEW p, Noted(p, q)
  PROVE  /\ \A k \in Nat : NewsIn(p, k) = NewsIn(q, k)
         /\ \A i \in DOMAIN p : Carries(p[i]) => i \in DOMAIN q /\ p[i] = q[i]
         /\ \A i \in DOMAIN q : i \in DOMAIN p /\ p[i] = q[i]
<1> HIDE DEF EnvelopeType
<1>1. CASE p = q
  BY <1>1
<1>2. ASSUME NEW e \in EnvelopeType, e.type \in Aside, Grows(p, q, e)
      PROVE  /\ \A k \in Nat : NewsIn(p, k) = NewsIn(q, k)
             /\ \A i \in DOMAIN p : Carries(p[i]) => i \in DOMAIN q /\ p[i] = q[i]
             /\ \A i \in DOMAIN q : i \in DOMAIN p /\ p[i] = q[i]
  <2>1. e.type \notin News /\ ~Carries(e)
    BY <1>2, AsideCarries
  <2>2. \A k \in Nat : NewsIn(p, k) = NewsIn(q, k)
    BY <1>2, <2>1, NewsAppend
  <2>3. \A i \in DOMAIN p : (i \in DOMAIN q /\ p[i] = q[i]) \/ p[i] = e
    BY <1>2, AddedLast
  <2>4. \A i \in DOMAIN q : i \in DOMAIN p /\ p[i] = q[i]
    BY <1>2, AddedLast
  <2> QED BY <2>1, <2>2, <2>3, <2>4
<1> QED BY <1>1, <1>2 DEF Noted

\* A delivery takes news from outbox to the channel.
LEMMA PostedWire ==
  ASSUME NEW q \in Seq(EnvelopeType), NEW out \in Seq(Out), out # <<>>, NEW s, NEW p,
         out[1].env \in EnvelopeType,
         Given(p, q, out[1], s)
  PROVE  /\ \A k \in Nat : k <= Len(q) => Coming(p, k, Tail(out), s) = Coming(q, k, out, s)
         /\ \A i \in DOMAIN p : (i \in DOMAIN q /\ p[i] = q[i]) \/ (p[i] = out[1].env /\ s \in out[1].to)
         /\ \A i \in DOMAIN q : i \in DOMAIN p /\ p[i] = q[i]
         /\ s \in out[1].to => \E i \in DOMAIN p : p[i] = out[1].env
<1> HIDE DEF EnvelopeType, Out
<1> DEFINE e == out[1].env
<1>1. CASE s \in out[1].to
  <2>1. e \in EnvelopeType /\ Grows(p, q, e)
    BY <1>1 DEF Given
  <2>4. /\ e.type \in News => NewsFor(out, s) = NewsFor(Tail(out), s) \cup {e.msgs[1]}
        /\ e.type \notin News => NewsFor(out, s) = NewsFor(Tail(out), s)
    BY <1>1, NewsPosted
  <2> HIDE DEF e
  <2>2. /\ \A i \in DOMAIN p : (i \in DOMAIN q /\ p[i] = q[i]) \/ p[i] = e
        /\ \A i \in DOMAIN q : i \in DOMAIN p /\ p[i] = q[i]
        /\ \E i \in DOMAIN p : p[i] = e
    BY <2>1, AddedLast
  <2>5. /\ e.type \notin News => \A k \in Nat : NewsIn(p, k) = NewsIn(q, k)
        /\ e.type \in News => \A k \in Nat : k <= Len(q) => NewsIn(p, k) = NewsIn(q, k) \cup {e.msgs[1]}
    BY <2>1, NewsAppend
  <2>3. ASSUME NEW k \in Nat, k <= Len(q) PROVE Coming(p, k, Tail(out), s) = Coming(q, k, out, s)
    <3>1. CASE e.type \in News
      <4>1. NewsIn(p, k) = NewsIn(q, k) \cup {e.msgs[1]}
        BY <2>3, <2>5, <3>1
      <4>2. NewsFor(out, s) = NewsFor(Tail(out), s) \cup {e.msgs[1]}
        BY <2>4, <3>1
      <4> QED BY <4>1, <4>2 DEF Coming
    <3>2. CASE e.type \notin News
      <4>1. NewsIn(p, k) = NewsIn(q, k)
        BY <2>5, <3>2
      <4>2. NewsFor(out, s) = NewsFor(Tail(out), s)
        BY <2>4, <3>2
      <4> QED BY <4>1, <4>2 DEF Coming
    <3> QED BY <3>1, <3>2
  <2> QED BY <1>1, <2>2, <2>3 DEF e
<1>2. CASE s \notin out[1].to
  <2>1. p = q
    BY <1>2 DEF Given
  <2>2. NewsFor(out, s) = NewsFor(Tail(out), s)
    BY <1>2, NewsPosted
  <2> QED BY <1>2, <2>1, <2>2 DEF Coming
<1> QED BY <1>1, <1>2

\* The same for a delivery to a session, of the state.
LEMMA PostedFlow ==
  ASSUME SysTypes, [SysNext]_sysVars, NEW s \in Session, Posted(s)
  PROVE  /\ \A k \in Nat : k <= Len(sendq[s]) => Coming(sendq'[s], k, outbox', s) = Coming(sendq[s], k, outbox, s)
         /\ \A i \in DOMAIN sendq'[s] : (i \in DOMAIN sendq[s] /\ sendq'[s][i] = sendq[s][i])
                                       \/ (sendq'[s][i] = outbox[1].env /\ s \in outbox[1].to)
         /\ \A i \in DOMAIN sendq[s] : i \in DOMAIN sendq'[s] /\ sendq'[s][i] = sendq[s][i]
         /\ s \in outbox[1].to => \E i \in DOMAIN sendq'[s] : sendq'[s][i] = outbox[1].env
<1> HIDE DEF EnvelopeType, Out
<1> DEFINE q == sendq[s]
           p == sendq'[s]
           out == outbox
<1>1. q \in Seq(EnvelopeType) /\ out \in Seq(Out) /\ \A i \in DOMAIN out : out[i].env \in EnvelopeType
  BY UnderwayTyped
<1>2. out # <<>> /\ Given(p, q, out[1], s)
  BY DEF Posted
<1>3. outbox' = Tail(out)
  BY DEF Posted
<1> SUFFICES /\ \A k \in Nat : k <= Len(q) => Coming(p, k, Tail(out), s) = Coming(q, k, out, s)
             /\ \A i \in DOMAIN p : (i \in DOMAIN q /\ p[i] = q[i]) \/ (p[i] = out[1].env /\ s \in out[1].to)
             /\ \A i \in DOMAIN q : i \in DOMAIN p /\ p[i] = q[i]
             /\ s \in out[1].to => \E i \in DOMAIN p : p[i] = out[1].env
  BY <1>3 DEF Coming
<1> HIDE DEF q, p, out
<1>4. out[1].env \in EnvelopeType
  BY <1>1, <1>2
<1> QED BY <1>1, <1>2, <1>4, PostedWire

\* A handler's news is the newest message, and it goes to all of the workspace.
LEMMA IdsTold ==
  ASSUME Faults = {}, SysTypes, LinkInv, AtHome, AtHome', Handle, NEW s \in Session, NEW ws, <<ws, s>> \in scoped
  PROVE  /\ \A y \in DOMAIN db'.messages \ DOMAIN db.messages : db'.messages[y].chan[1] = ws => y \in NewsFor(outbox', s)
         /\ \A x \in NewsFor(outbox', s) : \A y \in DOMAIN db'.messages : ~(y > x)
         /\ NewsFor(outbox, s) = {}
<1>1. ASSUME NEW y \in DOMAIN db'.messages \ DOMAIN db.messages, db'.messages[y].chan[1] = ws
      PROVE  y \in NewsFor(outbox', s)
  <2>1. PICK o \in Out : y = SavedId /\ outbox' = <<o>> /\ o.env.type \in News /\ o.env.msgs = <<SavedId>> /\ Saves(o)
    BY <1>1, SavedTold
  <2> DEFINE id == SavedId
  <2>2. o.to = Members(sess[Sender].ws) /\ o.env.chan = sess[Sender].current /\ db'.messages[id].chan = o.env.chan
    BY <2>1 DEF Saves
  <2>3. sess[Sender].current[1] = sess[Sender].ws
    BY NewSilent DEF AtHome
  <2>4. s \in o.to
    BY <1>1, <2>1, <2>2, <2>3 DEF Members
  <2> HIDE DEF id, Out
  <2>5. o.env.msgs = <<id>> /\ y = id
    BY <2>1 DEF id
  <2>6. o.env.msgs[1] = y
    BY <2>5
  <2>7. 1 \in DOMAIN outbox' /\ outbox'[1] = o
    BY <2>1
  <2> QED BY <2>1, <2>4, <2>6, <2>7 DEF NewsFor
<1>2. ASSUME NEW x \in NewsFor(outbox', s), NEW y \in DOMAIN db'.messages PROVE ~(y > x)
  <2>1. PICK i \in DOMAIN outbox' : s \in outbox'[i].to /\ outbox'[i].env.type \in News /\ x = outbox'[i].env.msgs[1]
    BY <1>2 DEF NewsFor
  <2>2. outbox'[i].env.msgs = <<SavedId>>
    <3>1. Carries(outbox'[i].env) /\ outbox'[i].env.type # "history_batch"
      BY <2>1 DEF Carries, News
    <3> QED BY <2>1, <3>1, CarriedTold
  <2> DEFINE id == SavedId
  <2>3. x = id
    <3> HIDE DEF id
    <3>1. outbox'[i].env.msgs = <<id>>
      BY <2>2 DEF id
    <3> QED BY <2>1, <3>1
  <2>4. DOMAIN db.messages = 1..Len(db.messages) /\ Len(db.messages) \in Nat
    BY UnderwayTyped DEF IsTables
  <2>5. y \in DOMAIN db.messages \/ y = SavedId
    BY SavedTold
  <2> QED BY <2>3, <2>4, <2>5 DEF SavedId
<1>3. NewsFor(outbox, s) = {}
  <2>1. outbox = <<>>
    BY HandlerKeeps
  <2> QED BY <2>1 DEF NewsFor
<1> QED BY <1>1, <1>2, <1>3

\* The news to come before and after a client takes an envelope.
LEMMA NewsTaken ==
  ASSUME NEW q \in Seq(EnvelopeType), q # <<>>, NEW s
  PROVE  /\ \A k \in Nat : Coming(Tail(q), k, <<>>, s) = Coming(q, k + 1, <<>>, s)
         /\ q[1].type \notin News => Coming(q, 0, <<>>, s) = Coming(q, 1, <<>>, s)
         /\ q[1].type \in News => Coming(q, 0, <<>>, s) = Coming(q, 1, <<>>, s) \cup {q[1].msgs[1]}
         /\ InOrder(q) /\ q[1].type \in News /\ 1 \in DOMAIN q[1].msgs =>
              \A x \in Coming(q, 1, <<>>, s) : q[1].msgs[1] < x
<1> HIDE DEF EnvelopeType
<1>1. NewsFor(<<>>, s) = {}
  BY DEF NewsFor
<1>2. /\ \A k \in Nat : NewsIn(Tail(q), k) = NewsIn(q, k + 1)
      /\ q[1].type \notin News => NewsIn(q, 0) = NewsIn(q, 1)
      /\ q[1].type \in News => NewsIn(q, 0) = NewsIn(q, 1) \cup {q[1].msgs[1]}
  BY NewsTail
<1>3. \A k \in Nat : Coming(q, k, <<>>, s) = NewsIn(q, k) /\ Coming(Tail(q), k, <<>>, s) = NewsIn(Tail(q), k)
  BY <1>1 DEF Coming
<1>4. ASSUME InOrder(q), q[1].type \in News, 1 \in DOMAIN q[1].msgs, NEW x \in NewsIn(q, 1)
      PROVE  q[1].msgs[1] < x
  <2>1. PICK j \in DOMAIN q : j > 1 /\ q[j].type \in News /\ x = q[j].msgs[1]
    BY <1>4 DEF NewsIn
  <2>2. 1 \in DOMAIN q /\ 1 < j
    BY <2>1
  <2>3. Below(q[1].msgs, x)
    BY <1>4, <2>1, <2>2 DEF InOrder, Carries
  <2> QED BY <1>4, <2>3 DEF Below
<1> QED BY <1>2, <1>3, <1>4

\* News under way is of messages in the table.
LEMMA ComingKnown ==
  ASSUME SysTypes, OrderInv, [SysNext]_sysVars, NEW s \in Session, NEW k \in Nat
  PROVE  Coming(sendq[s], k, outbox, s) \subseteq DOMAIN db.messages
<1> HIDE DEF EnvelopeType, Out
<1>1. sendq[s] \in Seq(EnvelopeType) /\ \A i \in DOMAIN outbox : outbox[i].env \in EnvelopeType
  BY UnderwayTyped
<1>2. ASSUME NEW env \in EnvelopeType, CarriedOK(env, db), env.type \in News PROVE env.msgs[1] \in DOMAIN db.messages
  <2>1. env.msgs \in Seq(Nat) /\ Len(env.msgs) = 1
    BY <1>2, EnvelopeTexts DEF CarriedOK
  <2>2. 1 \in DOMAIN env.msgs
    BY <2>1
  <2> QED BY <1>2, <2>2 DEF CarriedOK, Carries, Known
<1>3. \A i \in DOMAIN sendq[s] : sendq[s][i] \in EnvelopeType /\ CarriedOK(sendq[s][i], db)
  BY <1>1 DEF OrderInv, AllCarriedOK
<1>4. \A i \in DOMAIN outbox : CarriedOK(outbox[i].env, db)
  BY DEF OrderInv, AllCarriedOK
<1>5. NewsIn(sendq[s], k) \subseteq DOMAIN db.messages
  BY <1>2, <1>3 DEF NewsIn
<1>6. NewsFor(outbox, s) \subseteq DOMAIN db.messages
  BY <1>1, <1>2, <1>4 DEF NewsFor
<1> QED BY <1>5, <1>6 DEF Coming

\* Whoever was sent news of a workspace is sent all that came after it.
Gapless(c, d, news) ==
  \A x \in news : \A y \in DOMAIN d.messages : d.messages[y].chan[1] = Target(c) /\ y > x => y \in news
NewsComplete ==
  \A c \in Client : \A s \in Session : Belongs(s, c) /\ Inside(s) => Gapless(c, db, Coming(sendq[s], 0, outbox, s))

\* Every step keeps that.
LEMMA NewsCompleteStep ==
  ASSUME Faults = {}, SysTypes, LinkInv, OrderInv, AtHome, AtHome', JoinedOnly, JoinedOnly', QuietOutside,
         NewsComplete, [SysNext]_sysVars
  PROVE  NewsComplete'
<1> HIDE DEF EnvelopeType, Out
<1> SUFFICES ASSUME NEW c \in Client, NEW s \in Session, Belongs(s, c), Inside(s)'
             PROVE  Gapless(c, db', Coming(sendq'[s], 0, outbox', s))
  BY DEF NewsComplete, Gapless, Coming, NewsIn, NewsFor, Target
<1> DEFINE q == sendq[s]
           p == sendq'[s]
<1>1. /\ link[s] = "reading" /\ link'[s] = "reading" /\ s \notin lost'
      /\ \/ Inside(s) /\ sess[s].ws = Target(c) /\ <<Target(c), s>> \in scoped
         \/ sess[s].ws = Blank /\ Arrives(s)
  BY InsideMoves
<1>2. /\ q \in Seq(EnvelopeType) /\ outbox \in Seq(Out) /\ IsTables(db) /\ IsTables(db')
      /\ \A i \in DOMAIN outbox : outbox[i].env \in EnvelopeType
  BY UnderwayTyped
<1>3. CASE sess[s].ws = Blank /\ Arrives(s)
  <2>1. Handle /\ s = Sender /\ sess' # sess
    BY <1>3 DEF Arrives
  <2>2. Noted(p, q)
    BY <1>1, <2>1, LiveWire DEF Quiet, Shown, Posted
  <2>6. \A k \in Nat : NewsIn(p, k) = NewsIn(q, k)
    BY <1>2, <2>2, QuietWire
  <2>3. NewsIn(p, 0) = NewsIn(q, 0)
    BY <2>6
  <2>4. NewsIn(q, 0) = {}
    BY <1>3 DEF QuietOutside, Carries, NewsIn
  <2>5. NewsFor(outbox', s) = {}
    <3> SUFFICES ASSUME NEW i \in DOMAIN outbox', s \in outbox'[i].to, outbox'[i].env.type \in News PROVE FALSE
      BY DEF NewsFor
    <3>1. Carries(outbox'[i].env)
      BY DEF Carries
    <3>2. outbox'[i].env.type # "history_batch"
      BY DEF News
    <3> QED BY <2>1, <3>1, <3>2, CarriedTold
  <2> QED BY <2>3, <2>4, <2>5 DEF Coming, Gapless
<1>4. CASE Inside(s) /\ <<Target(c), s>> \in scoped
  <2>1. Gapless(c, db, Coming(q, 0, outbox, s))
    BY <1>4 DEF NewsComplete
  <2>2. CASE Quiet(s)
    <3>10. Noted(p, q) /\ (Handle \/ UNCHANGED <<outbox, sess, db>>)
      BY <2>2 DEF Quiet
    <3>4. \A k \in Nat : NewsIn(p, k) = NewsIn(q, k)
      BY <1>2, <3>10, QuietWire
    <3>1. NewsIn(p, 0) = NewsIn(q, 0)
      BY <3>4
    <3>2. CASE UNCHANGED <<outbox, sess, db>>
      BY <2>1, <3>1, <3>2 DEF Coming
    <3>3. CASE Handle
      <4>1. /\ \A y \in DOMAIN db'.messages \ DOMAIN db.messages :
                 db'.messages[y].chan[1] = Target(c) => y \in NewsFor(outbox', s)
            /\ \A x \in NewsFor(outbox', s) : \A y \in DOMAIN db'.messages : ~(y > x)
            /\ NewsFor(outbox, s) = {}
        BY <1>4, <3>3, IdsTold
      <4>2. \A y \in DOMAIN db.messages : y \in DOMAIN db'.messages /\ db'.messages[y] = db.messages[y]
        BY MessagesLast
      <4> QED BY <2>1, <3>1, <4>1, <4>2 DEF Coming, Gapless
    <3> QED BY <3>10, <3>2, <3>3
  <2>3. CASE Shown(s)
    <3>10. (\E d \in Client : Show(d, s)) /\ outbox = <<>> /\ q # <<>> /\ p = Tail(q) /\ UNCHANGED <<outbox, sess, db>>
      BY <2>3 DEF Shown
    <3>1. InOrder(q) /\ (q[1].type \in News => 1 \in DOMAIN q[1].msgs)
      <4>1. 1 \in DOMAIN q /\ q[1] \in EnvelopeType
        BY <1>2, <3>10, HeadAndTail
      <4>2. q[1].type \in News => Len(q[1].msgs) = 1 /\ q[1].msgs \in Seq(Nat)
        BY <4>1, EnvelopeTexts DEF OrderInv, AllCarriedOK, CarriedOK
      <4>3. InOrder(q)
        BY DEF OrderInv, NewsInOrder
      <4> QED BY <4>2, <4>3
    <3> DEFINE news == Coming(q, 1, <<>>, s)
               head == q[1].msgs[1]
    <3>2. /\ Coming(p, 0, outbox', s) = news
          /\ q[1].type \notin News => Coming(q, 0, outbox, s) = news
          /\ q[1].type \in News => Coming(q, 0, outbox, s) = news \cup {head} /\ \A x \in news : head < x
      BY <1>2, <3>10, <3>1, NewsTaken
    <3>3. CASE q[1].type \notin News
      BY <2>1, <3>10, <3>2, <3>3
    <3>4. CASE q[1].type \in News
      <4> SUFFICES ASSUME NEW x \in news, NEW y \in DOMAIN db.messages, db.messages[y].chan[1] = Target(c), y > x
                   PROVE  y \in news
        BY <3>10, <3>2 DEF Gapless
      <4>1. y \in news \cup {head}
        BY <2>1, <3>2, <3>4 DEF Gapless
      <4>2. head < x
        BY <3>2, <3>4
      <4>3. x \in Coming(q, 0, outbox, s)
        BY <3>2, <3>4
      <4>4. x \in DOMAIN db.messages /\ head \in DOMAIN db.messages
        <5>1. head \in Coming(q, 0, outbox, s)
          BY <3>2, <3>4
        <5> QED BY <4>3, <5>1, ComingKnown
      <4>6. DOMAIN db.messages = 1..Len(db.messages) /\ Len(db.messages) \in Nat
        BY <1>2 DEF IsTables
      <4> HIDE DEF news, head
      <4>5. x \in Nat /\ y \in Nat /\ head \in Nat
        BY <4>4, <4>6
      <4> QED BY <4>1, <4>2, <4>5
    <3> QED BY <3>3, <3>4
  <2>4. CASE Posted(s)
    <3>10. /\ outbox # <<>> /\ outbox' = Tail(outbox) /\ UNCHANGED <<sess, db>> /\ Given(p, q, outbox[1], s)
      BY <2>4 DEF Posted
    <3>2. \A k \in Nat : k <= Len(q) => Coming(p, k, outbox', s) = Coming(q, k, outbox, s)
      BY <2>4, PostedFlow
    <3>3. Len(q) \in Nat
      BY <1>2
    <3>4. Coming(p, 0, outbox', s) = Coming(q, 0, outbox, s)
      BY <3>2, <3>3
    <3> QED BY <2>1, <3>10, <3>4
  <2> QED BY <1>1, <2>2, <2>3, <2>4, LiveWire
<1> QED BY <1>1, <1>3, <1>4

\* The new messages of a channel are news for the workspace.
LEMMA IdsGrow ==
  ASSUME Faults = {}, SysTypes, LinkInv, AtHome, AtHome', Handle, NEW s \in Session, NEW ws, <<ws, s>> \in scoped,
         NEW chan, chan[1] = ws
  PROVE  Ids(db', chan) \subseteq Ids(db, chan) \cup NewsFor(outbox', s)
<1> SUFFICES ASSUME NEW y \in DOMAIN db'.messages, db'.messages[y].chan = chan, y \notin NewsFor(outbox', s)
             PROVE  y \in Ids(db, chan)
  BY DEF Ids
<1>3. \A z \in DOMAIN db'.messages \ DOMAIN db.messages : db'.messages[z].chan[1] = ws => z \in NewsFor(outbox', s)
  BY IdsTold
<1>4. db'.messages[y].chan[1] = ws
  OBVIOUS
<1>1. y \in DOMAIN db.messages
  BY <1>3, <1>4
<1>2. db'.messages[y] = db.messages[y]
  BY <1>1, SavedTold
<1> QED BY <1>1, <1>2 DEF Ids

\* A batch and the news after it show all of its channel.
BatchesOf(c, s, q, out, d) ==
  /\ \A k \in DOMAIN q : q[k].type = "history_batch" => Covers(q[k].msgs, Coming(q, k, out, s), Ids(d, q[k].chan))
  /\ \A i \in DOMAIN out : s \in out[i].to /\ out[i].env.type = "history_batch" =>
       Covers(out[i].env.msgs, {}, Ids(d, out[i].env.chan))
BatchesComplete ==
  \A c \in Client : \A s \in Session : Belongs(s, c) /\ Inside(s) => BatchesOf(c, s, sendq[s], outbox, db)

\* Every step keeps a batch complete.
LEMMA BatchesCompleteStep ==
  ASSUME Faults = {}, SysTypes, LinkInv, AtHome, AtHome', JoinedOnly, JoinedOnly', QuietOutside, CarriedFiled,
         BatchesComplete, [SysNext]_sysVars
  PROVE  BatchesComplete'
<1> HIDE DEF EnvelopeType, Out
<1> SUFFICES ASSUME NEW c \in Client, NEW s \in Session, Belongs(s, c), Inside(s)'
             PROVE  BatchesOf(c, s, sendq'[s], outbox', db')
  BY DEF BatchesComplete, BatchesOf, Covers, NoGap, Enough, Elems, Ids, Coming, NewsIn, NewsFor
<1> DEFINE q == sendq[s]
           p == sendq'[s]
<1>1. /\ link[s] = "reading" /\ link'[s] = "reading" /\ s \notin lost'
      /\ \/ Inside(s) /\ sess[s].ws = Target(c) /\ <<Target(c), s>> \in scoped
         \/ sess[s].ws = Blank /\ Arrives(s)
  BY InsideMoves
<1>2. /\ q \in Seq(EnvelopeType) /\ outbox \in Seq(Out) /\ IsTables(db) /\ IsTables(db')
      /\ \A i \in DOMAIN outbox : outbox[i].env \in EnvelopeType
  BY UnderwayTyped
\* What a handler sends is complete.
<1>3. ASSUME Handle, NEW i \in DOMAIN outbox', s \in outbox'[i].to, outbox'[i].env.type = "history_batch"
      PROVE  Covers(outbox'[i].env.msgs, {}, Ids(db', outbox'[i].env.chan))
  <2>1. Carries(outbox'[i].env) /\ outbox'[i].env.type \notin News
    BY <1>3 DEF Carries, News
  <2>2. outbox'[i].env.msgs = ListHistory(db', outbox'[i].env.chan)
    BY <1>3, <2>1, CarriedTold
  <2> QED BY <1>2, <2>2, HistoryCovers
<1>4. CASE sess[s].ws = Blank /\ Arrives(s)
  <2>1. Handle /\ sess' # sess
    BY <1>4 DEF Arrives
  <2>2. Noted(p, q)
    BY <1>1, <2>1, LiveWire DEF Quiet, Shown, Posted
  <2>3. \A i \in DOMAIN p : Carries(p[i]) => i \in DOMAIN q /\ p[i] = q[i]
    BY <1>2, <2>2, QuietWire
  <2>4. \A i \in DOMAIN p : p[i].type # "history_batch"
    BY <1>4, <2>3 DEF QuietOutside, Carries
  <2> QED BY <1>3, <2>1, <2>4 DEF BatchesOf
<1>5. CASE Inside(s) /\ <<Target(c), s>> \in scoped
  <2>1. BatchesOf(c, s, q, outbox, db)
    BY <1>5 DEF BatchesComplete
  <2>2. CASE Quiet(s)
    <3>10. Noted(p, q) /\ (Handle \/ UNCHANGED <<outbox, sess, db>>)
      BY <2>2 DEF Quiet
    <3>1. /\ \A k \in Nat : NewsIn(p, k) = NewsIn(q, k)
          /\ \A i \in DOMAIN p : Carries(p[i]) => i \in DOMAIN q /\ p[i] = q[i]
      BY <1>2, <3>10, QuietWire
    <3>2. \A k \in DOMAIN p : p[k].type = "history_batch" => Carries(p[k]) /\ k \in DOMAIN q /\ p[k] = q[k] /\ k \in Nat
      <4> SUFFICES ASSUME NEW k \in DOMAIN p, p[k].type = "history_batch"
                   PROVE  Carries(p[k]) /\ k \in DOMAIN q /\ p[k] = q[k] /\ k \in Nat
        OBVIOUS
      <4>1. Carries(p[k])
        BY DEF Carries
      <4> QED BY <1>2, <3>1, <4>1
    <3>3. CASE UNCHANGED <<outbox, sess, db>>
      BY <2>1, <3>1, <3>2, <3>3 DEF BatchesOf, Coming
    <3>4. CASE Handle
      <4>1. ASSUME NEW k \in DOMAIN p, p[k].type = "history_batch"
            PROVE  Covers(p[k].msgs, Coming(p, k, outbox', s), Ids(db', p[k].chan))
        <5>1. p[k] = q[k] /\ k \in DOMAIN q /\ k \in Nat /\ Carries(q[k])
          BY <3>2, <4>1
        <5>2. q[k].chan[1] = Target(c)
          BY <5>1 DEF CarriedFiled, FiledFor
        <5>3. Covers(q[k].msgs, Coming(q, k, outbox, s), Ids(db, q[k].chan))
          BY <2>1, <4>1, <5>1 DEF BatchesOf
        <5>4. Ids(db', q[k].chan) \subseteq Ids(db, q[k].chan) \cup NewsFor(outbox', s)
          BY <1>5, <3>4, <5>2, IdsGrow
        <5>5. NewsFor(outbox, s) = {}
          BY <3>4, HandlerKeeps DEF NewsFor
        <5>6. NewsIn(p, k) = NewsIn(q, k)
          BY <3>1, <5>1
        <5> DEFINE now1 == Coming(p, k, outbox', s)
                   before == Coming(q, k, outbox, s)
                   ids == Ids(db, q[k].chan)
                   more == Ids(db', q[k].chan)
        <5>7. /\ \A y \in more : y \in ids \cup now1 /\ (y \in before => y \in now1)
              /\ Covers(q[k].msgs, before, ids)
          BY <5>3, <5>4, <5>5, <5>6 DEF Coming
        <5> HIDE DEF now1, before, ids, more
        <5>8. Covers(q[k].msgs, now1, more)
          BY <5>7, CoversMore
        <5> QED BY <5>1, <5>8 DEF now1, more
      <4> QED BY <1>3, <3>4, <4>1 DEF BatchesOf
    <3> QED BY <3>10, <3>3, <3>4
  <2>3. CASE Shown(s)
    <3>10. (\E d \in Client : Show(d, s)) /\ outbox = <<>> /\ q # <<>> /\ p = Tail(q) /\ UNCHANGED <<outbox, sess, db>>
      BY <2>3 DEF Shown
    <3>3. \A k \in Nat : Coming(Tail(q), k, <<>>, s) = Coming(q, k + 1, <<>>, s)
      BY <1>2, <3>10, NewsTaken, Zenon
    <3>1. \A k \in Nat : Coming(p, k, outbox', s) = Coming(q, k + 1, outbox, s)
      BY <3>3, <3>10
    <3>2. \A k \in DOMAIN p : k + 1 \in DOMAIN q /\ p[k] = q[k + 1] /\ k \in Nat
      BY <1>2, <3>10, HeadAndTail
    <3> QED BY <2>1, <3>10, <3>1, <3>2 DEF BatchesOf
  <2>4. CASE Posted(s)
    <3>10. /\ outbox # <<>> /\ outbox' = Tail(outbox) /\ UNCHANGED <<sess, db>> /\ Given(p, q, outbox[1], s)
      BY <2>4 DEF Posted
    <3>1. outbox[1].env \in EnvelopeType /\ 1 \in DOMAIN outbox
      BY <1>2, <3>10, HeadAndTail
    <3>2. /\ \A k \in Nat : k <= Len(q) => Coming(p, k, outbox', s) = Coming(q, k, outbox, s)
          /\ \A i \in DOMAIN p : (i \in DOMAIN q /\ p[i] = q[i]) \/ (p[i] = outbox[1].env /\ s \in outbox[1].to)
      BY <2>4, PostedFlow
    <3>3. \A i \in DOMAIN outbox' : i + 1 \in DOMAIN outbox /\ outbox'[i] = outbox[i + 1]
      BY <1>2, <3>10, HeadAndTail
    <3>4. \A k \in DOMAIN q : k \in Nat /\ k <= Len(q)
      BY <1>2
    <3>5. ASSUME NEW k \in DOMAIN p, p[k].type = "history_batch"
          PROVE  Covers(p[k].msgs, Coming(p, k, outbox', s), Ids(db', p[k].chan))
      <4>1. CASE k \in DOMAIN q /\ p[k] = q[k]
        BY <2>1, <3>10, <3>2, <3>4, <3>5, <4>1 DEF BatchesOf
      <4>2. CASE p[k] = outbox[1].env /\ s \in outbox[1].to
        <5> DEFINE list == p[k].msgs
                   ids == Ids(db, p[k].chan)
                   now1 == Coming(p, k, outbox', s)
        <5>1. Covers(list, {}, ids)
          BY <2>1, <3>1, <3>5, <4>2 DEF BatchesOf
        <5>2. \A y \in ids : y \in ids \cup now1 /\ (y \in {} => y \in now1)
          OBVIOUS
        <5> HIDE DEF list, ids, now1
        <5>3. Covers(list, now1, ids)
          BY <5>1, <5>2, CoversMore
        <5> QED BY <3>10, <5>3 DEF list, ids, now1
      <4> QED BY <3>2, <4>1, <4>2
    <3> QED BY <2>1, <3>10, <3>3, <3>5 DEF BatchesOf
  <2> QED BY <1>1, <2>2, <2>3, <2>4, LiveWire
<1> QED BY <1>1, <1>4, <1>5

\* While no client takes an envelope, all that is saved comes, and what was to
\* come still does.
LEMMA FlowKept ==
  ASSUME Faults = {}, SysTypes, LinkInv, AtHome, AtHome', JoinedOnly, JoinedOnly', [SysNext]_sysVars,
         NEW c \in Client, NEW s \in Session, Belongs(s, c), Inside(s), Inside(s)', ~\E d \in Client : Show(d, s),
         NEW chan, chan[1] = Target(c), NEW y \in Ids(db', chan)
  PROVE  /\ y \in Ids(db, chan) \cup Coming(sendq'[s], 0, outbox', s)
         /\ y \in Coming(sendq[s], 0, outbox, s) => y \in Coming(sendq'[s], 0, outbox', s)
<1> HIDE DEF EnvelopeType, Out
<1> DEFINE q == sendq[s]
           p == sendq'[s]
<1>1. /\ link[s] = "reading" /\ link'[s] = "reading" /\ s \notin lost' /\ <<Target(c), s>> \in scoped
  <2>1. sess[s].ws # Blank
    BY DEF Inside
  <2> QED BY <2>1, InsideMoves DEF Arrives
<1>2. /\ q \in Seq(EnvelopeType) /\ outbox \in Seq(Out) /\ \A i \in DOMAIN outbox : outbox[i].env \in EnvelopeType
  BY UnderwayTyped
<1>3. CASE Quiet(s)
  <2>10. Noted(p, q) /\ (Handle \/ UNCHANGED <<outbox, sess, db>>)
    BY <1>3 DEF Quiet
  <2>4. \A k \in Nat : NewsIn(p, k) = NewsIn(q, k)
    BY <1>2, <2>10, QuietWire
  <2>1. NewsIn(p, 0) = NewsIn(q, 0)
    BY <2>4
  <2>2. CASE UNCHANGED <<outbox, sess, db>>
    BY <2>1, <2>2 DEF Coming
  <2>3. CASE Handle
    <3>1. Ids(db', chan) \subseteq Ids(db, chan) \cup NewsFor(outbox', s)
      BY <1>1, <2>3, IdsGrow
    <3>2. NewsFor(outbox, s) = {}
      BY <2>3, HandlerKeeps DEF NewsFor
    <3> QED BY <2>1, <3>1, <3>2 DEF Coming
  <2> QED BY <2>10, <2>2, <2>3
<1>4. CASE Posted(s)
  <2>10. /\ outbox # <<>> /\ outbox' = Tail(outbox) /\ UNCHANGED <<sess, db>> /\ Given(p, q, outbox[1], s)
    BY <1>4 DEF Posted
  <2>3. \A k \in Nat : k <= Len(q) => Coming(p, k, outbox', s) = Coming(q, k, outbox, s)
    BY <1>4, PostedFlow
  <2>4. Len(q) \in Nat
    BY <1>2
  <2>2. Coming(p, 0, outbox', s) = Coming(q, 0, outbox, s)
    BY <2>3, <2>4
  <2> QED BY <2>10, <2>2
<1>5. ~Shown(s)
  BY DEF Shown
<1> QED BY <1>1, <1>3, <1>4, <1>5, LiveWire

\* The screen takes an envelope: a batch fills its channel, and what had no gap
\* still has none.
LEMMA ScreenTakes ==
  ASSUME HistoryLimit <= ViewCap, SysTypes, OrderInv, CarriedFiled, NewsComplete, BatchesComplete, [SysNext]_sysVars,
         NEW c \in Client, NEW s \in Session, Inside(s), Show(c, s), NEW name
  PROVE  LET env == sendq[s][1]
             list == At(view[c].msgs, name, <<>>)
             after == At(view'[c].msgs, name, <<>>)
             R == Coming(sendq[s], 0, outbox, s)
             T == Coming(sendq'[s], 0, outbox', s)
             ids == Ids(db, <<Target(c), name>>)
         IN \/ env.type = "history_batch" /\ env.chan = <<Target(c), name>> /\ Covers(after, T, ids)
            \/ /\ ~(env.type = "history_batch" /\ env.chan = <<Target(c), name>>)
               /\ name \in view'[c].touched <=> name \in view[c].touched
               /\ NoGap(list, R, ids) => NoGap(after, T, ids)
               /\ Covers(list, R, ids) => Covers(after, T, ids)
<1> HIDE DEF EnvelopeType, Out
<1> DEFINE v == view[c]
           q == sendq[s]
           env == q[1]
           k == env.chan[2]
           w == Apply(v, env)
           list == At(v.msgs, name, <<>>)
           after == At(view'[c].msgs, name, <<>>)
           R == Coming(q, 0, outbox, s)
           T == Coming(sendq'[s], 0, outbox', s)
           here == <<Target(c), name>>
           ids == Ids(db, here)
<1>1. /\ q \in Seq(EnvelopeType) /\ q # <<>> /\ Belongs(s, c) /\ outbox = <<>> /\ outbox' = <<>> /\ sendq'[s] = Tail(q)
      /\ view' = [view EXCEPT ![c] = Apply(@, Head(q))]
  <2>1. q \in Seq(EnvelopeType) /\ q # <<>>
    BY ShowTyped
  <2>2. sendq' = [sendq EXCEPT ![s] = Tail(q)] /\ sendq \in [Session -> Seq(EnvelopeType)]
    BY UnderwayTyped DEF Show, WriteOut
  <2> QED BY <2>1, <2>2 DEF Show, WriteOut
<1>2. env = Head(q) /\ 1 \in DOMAIN q /\ env \in EnvelopeType
  BY <1>1, HeadAndTail
<1>3. env.chan \in Channel /\ env.msgs \in Seq(Nat)
  BY <1>2, EnvelopeTexts
<1>4. view'[c] = w /\ ViewFields \subseteq DOMAIN v
  BY <1>1, <1>2 DEF SysTypes, ClientTypes, ViewOK
<1>5. T = Coming(q, 1, <<>>, s)
  BY <1>1, NewsTaken
<1>6. env.chan = <<env.chan[1], k>>
  BY <1>3 DEF Channel
<1>7. FiledFor(env, c, db) /\ CarriedOK(env, db)
  BY <1>1, <1>2 DEF CarriedFiled, OrderInv, AllCarriedOK
<1>8. Carries(env) => env.chan = <<Target(c), k>> /\ Elems(env.msgs) \subseteq Ids(db, env.chan)
  BY <1>6, <1>7 DEF FiledFor, Elems
<1>9. w.touched = IF env.type = "history_batch" THEN v.touched \ {k} ELSE v.touched
  BY <1>4, ApplyTouched
<1> DEFINE old == At(v.msgs, k, <<>>)
           joined == AppendMessage(old, env.msgs)
<1>10. w.msgs = IF env.type = "history_batch" THEN With(v.msgs, k, env.msgs)
                ELSE IF env.type \in {"message_new", "emote_new"} THEN With(v.msgs, k, joined)
                ELSE v.msgs
  BY <1>4, ApplyFields
<1>11. /\ old \in Seq(Nat) /\ Increasing(old)
       /\ env.type \in News => env.msgs \in Seq(Nat) /\ Len(env.msgs) = 1 /\ Below(old, env.msgs[1])
  BY <1>2, NewsShown
<1>12. /\ env.type \notin News => R = T
       /\ env.type \in News => R = T \cup {env.msgs[1]}
       /\ env.type \in News /\ 1 \in DOMAIN env.msgs => \A x \in T : env.msgs[1] < x
  <2>1. InOrder(q)
    BY DEF OrderInv, NewsInOrder
  <2> QED BY <1>1, <1>5, <2>1, NewsTaken
<1>13. env.type = "history_batch" => Covers(env.msgs, T, Ids(db, env.chan))
  <2>1. BatchesOf(c, s, q, outbox, db)
    BY <1>1 DEF BatchesComplete
  <2> QED BY <1>1, <1>2, <1>5, <2>1 DEF BatchesOf
<1>14. Gapless(c, db, R)
  BY <1>1 DEF NewsComplete
<1>15. view'[c].msgs = w.msgs /\ view'[c].touched = w.touched
  BY <1>4
<1> DEFINE Taken == env.type = "history_batch" /\ env.chan = here /\ Covers(after, T, ids)
           Kept == /\ ~(env.type = "history_batch" /\ env.chan = here)
                   /\ name \in view'[c].touched <=> name \in v.touched
                   /\ NoGap(list, R, ids) => NoGap(after, T, ids)
                   /\ Covers(list, R, ids) => Covers(after, T, ids)
<1> SUFFICES Taken \/ Kept
  OBVIOUS
<1> HIDE DEF v, q, env, k, w, R, T, old, joined
<1>17. CASE env.type \notin News /\ env.type # "history_batch"
  <2>1. R = T /\ after = list /\ view'[c].touched = v.touched /\ view'[c].msgs = v.msgs
    BY <1>9, <1>10, <1>12, <1>15, <1>17 DEF News
  <2> QED BY <1>17, <2>1
<1>18. CASE env.type = "history_batch"
  <2>1. /\ view'[c].msgs = With(v.msgs, k, env.msgs) /\ view'[c].touched = v.touched \ {k} /\ Carries(env)
        /\ env.type \notin News
    BY <1>9, <1>10, <1>15, <1>18 DEF Carries, News
  <2>2. CASE name = k
    <3>1. after = env.msgs
      BY <2>1, <2>2 DEF With, At
    <3>2. env.chan = here
      BY <1>8, <2>1, <2>2
    <3> QED BY <1>13, <1>18, <3>1, <3>2
  <2>3. CASE name # k
    <3>1. after = list /\ R = T
      BY <1>12, <2>1, <2>3 DEF With, At
    <3>2. env.chan # here
      BY <1>6, <2>3
    <3> QED BY <2>1, <2>3, <3>1, <3>2
  <2> QED BY <2>2, <2>3
<1>19. CASE env.type \in News
  <2> DEFINE new == env.msgs
             x == new[1]
  <2>1. /\ view'[c].msgs = With(v.msgs, k, joined) /\ view'[c].touched = v.touched /\ Carries(env)
        /\ env.type # "history_batch"
    BY <1>9, <1>10, <1>15, <1>19 DEF Carries, News
  <2>2. new \in Seq(Nat) /\ Len(new) = 1 /\ 1 \in DOMAIN new /\ Below(old, x) /\ joined = AppendMessage(old, new)
    BY <1>11, <1>19 DEF joined
  <2>3. R = T \cup {x} /\ x \in Nat /\ (\A z \in T : x < z)
    BY <1>12, <1>19, <2>2
  <2>4. x \in Ids(db, env.chan) /\ env.chan = <<Target(c), k>>
    BY <1>8, <2>1, <2>2 DEF Elems
  <2> HIDE DEF x
  <2>5. CASE name = k
    <3>1. after = joined /\ list = old
      BY <2>1, <2>5 DEF With, At, old
    <3>2. ASSUME NEW y \in ids, y > x PROVE y \in T
      <4>1. y \in DOMAIN db.messages /\ db.messages[y].chan[1] = Target(c)
        BY <3>2 DEF Ids
      <4>2. y \in R
        BY <1>14, <2>3, <3>2, <4>1 DEF Gapless
      <4>3. y # x
        BY <2>3, <3>2
      <4> QED BY <2>3, <4>2, <4>3
    <3> HIDE DEF new, ids, after, list
    <3>3. /\ NoGap(old, R, ids) => NoGap(AppendMessage(old, new), T, ids)
          /\ Covers(old, R, ids) => Covers(AppendMessage(old, new), T, ids)
      BY <1>11, <2>2, <2>3, <3>2, AppendCovers DEF x
    <3> QED BY <2>1, <2>2, <3>1, <3>3
  <2>6. CASE name # k
    <3>1. after = list
      BY <2>1, <2>6 DEF With, At
    <3>2. \A y \in ids : y # x
      BY <2>4, <2>6 DEF Ids
    <3>3. \A y \in ids : y \in ids \cup T /\ (y \in R => y \in T)
      BY <2>3, <3>2
    <3> HIDE DEF new, ids, after, list
    <3>4. (NoGap(list, R, ids) => NoGap(list, T, ids)) /\ (Covers(list, R, ids) => Covers(list, T, ids))
      BY <3>3, CoversMore
    <3> QED BY <2>1, <3>1, <3>4
  <2> QED BY <2>5, <2>6
<1> QED BY <1>17, <1>18, <1>19

\* The first of a client's connections, and a batch of a channel under way.
First(s, c) == Conns[c] # <<>> /\ s = Conns[c][1]
BatchComing(q, out, s, chan) ==
  \/ \E k \in DOMAIN q : q[k].type = "history_batch" /\ q[k].chan = chan
  \/ \E i \in DOMAIN out : s \in out[i].to /\ out[i].env.type = "history_batch" /\ out[i].env.chan = chan

\* On its first connection a client shows nothing until it is in a workspace.
StartsClear ==
  \A c \in Client : \A s \in Session :
    Belongs(s, c) /\ First(s, c) /\ link[s] \in {"new", "reading"} /\ sess[s].ws = Blank =>
      DOMAIN view[c].msgs \subseteq view[c].touched

\* Then no channel it shows has a gap,
FirstGapless ==
  \A c \in Client : \A s \in Session : Belongs(s, c) /\ First(s, c) /\ Inside(s) =>
    \A name \in DOMAIN view[c].msgs \ view[c].touched :
      NoGap(view[c].msgs[name], Coming(sendq[s], 0, outbox, s), Ids(db, <<Target(c), name>>))

\* and on every connection the channel the session is in has none, and shows as
\* much as the history has, once the batch has come.
HereComplete ==
  \A c \in Client : \A s \in Session : Belongs(s, c) /\ Inside(s) =>
    LET here == sess[s].current IN
    \/ here[2] \in view[c].touched
    \/ BatchComing(sendq[s], outbox, s, here)
    \/ Covers(At(view[c].msgs, here[2], <<>>), Coming(sendq[s], 0, outbox, s), Ids(db, here))

\* Only the client's one connection changes its screen.
LEMMA OnlyShow ==
  ASSUME SysTypes, LinkInv, [SysNext]_sysVars, NEW c \in Client, NEW s \in Session, Belongs(s, c),
         link[s] = "reading" \/ (First(s, c) /\ link[s] = "new")
  PROVE  /\ \A d \in Client : Show(d, s) => d = c /\ link[s] = "reading"
         /\ \A t \in Session : Show(c, t) => t = s
<1>1. ASSUME NEW d \in Client, Show(d, s) PROVE d = c /\ link[s] = "reading"
  BY <1>1, OneClient DEF Show
<1>2. ASSUME NEW t \in Session, Show(c, t) PROVE t = s
  <2>1. Belongs(t, c) /\ link[t] = "reading"
    BY <1>2 DEF Show
  <2>2. CASE link[s] = "reading"
    BY <2>1, <2>2, OneConnection
  <2>3. CASE First(s, c) /\ link[s] = "new"
    <3>1. PICK j \in DOMAIN Conns[c] : Conns[c][j] = t
      BY <2>1 DEF Belongs
    <3>2. Conns[c] \in Seq(Session)
      BY ChatSystemAssumption DEF ChatSystemAssumption
    <3>3. 1 \in DOMAIN Conns[c] /\ j \in Nat /\ (j = 1 \/ 1 < j)
      BY <3>1, <3>2
    <3>4. ~(1 < j)
      <4> SUFFICES ASSUME 1 < j PROVE FALSE
        OBVIOUS
      <4>1. link[Conns[c][1]] \in {"ended", "gone"}
        BY <2>1, <3>1, <3>3 DEF LinkInv, OneReading
      <4> QED BY <2>3, <4>1 DEF First
    <3> QED BY <2>3, <3>1, <3>3, <3>4 DEF First
  <2> QED BY <2>2, <2>3
<1> QED BY <1>1, <1>2

\* Every step keeps a screen clear that is in no workspace yet,
LEMMA StartsClearStep ==
  ASSUME Faults = {}, SysTypes, LinkInv, QuietOutside, StartsClear, [SysNext]_sysVars
  PROVE  StartsClear'
<1> SUFFICES ASSUME NEW c \in Client, NEW s \in Session, Belongs(s, c), First(s, c),
                    link'[s] \in {"new", "reading"}, sess'[s].ws = Blank
             PROVE  DOMAIN view'[c].msgs \subseteq view'[c].touched
  BY DEF StartsClear, First, Belongs
<1>1. link[s] \in {"new", "reading"}
  BY LinkGrows
<1>2. sess[s].ws = Blank
  BY SessMoves DEF Arrives
<1>3. DOMAIN view[c].msgs \subseteq view[c].touched
  BY <1>1, <1>2 DEF StartsClear
<1>4. CASE view'[c].msgs = view[c].msgs /\ view'[c].touched = view[c].touched
  BY <1>3, <1>4
<1>5. ASSUME NEW name, view'[c].touched = view[c].touched \cup {name}, SameBut(view[c].msgs, view'[c].msgs, name)
      PROVE  DOMAIN view'[c].msgs \subseteq view'[c].touched
  BY <1>3, <1>5 DEF SameBut
<1>6. ASSUME NEW t \in Session, Show(c, t), view'[c] = Apply(view[c], Head(sendq[t]))
      PROVE  DOMAIN view'[c].msgs \subseteq view'[c].touched
  <2>1. t = s
    BY <1>1, <1>6, OnlyShow
  <2> DEFINE env == Head(sendq[s])
  <2>2. env = sendq[s][1] /\ 1 \in DOMAIN sendq[s]
    <3>1. sendq[s] \in Seq(EnvelopeType) /\ sendq[s] # <<>>
      BY <1>6, <2>1, ShowTyped
    <3> HIDE DEF EnvelopeType
    <3> QED BY <3>1, HeadAndTail
  <2>3. ~Carries(env)
    BY <1>2, <2>2 DEF QuietOutside
  <2>4. ViewFields \subseteq DOMAIN view[c]
    BY DEF SysTypes, ClientTypes, ViewOK
  <2> DEFINE v == view[c]
             w == Apply(v, env)
  <2>5. view'[c] = w
    BY <1>6, <2>1
  <2>6. env.type \notin {"history_batch", "message_new", "emote_new"}
    BY <2>3 DEF Carries, News
  <2>7. w.touched = IF env.type = "history_batch" THEN v.touched \ {env.chan[2]} ELSE v.touched
    BY <2>4, ApplyTouched
  <2>8. w.msgs = IF env.type = "history_batch" THEN With(v.msgs, env.chan[2], env.msgs)
                 ELSE IF env.type \in {"message_new", "emote_new"}
                   THEN With(v.msgs, env.chan[2], AppendMessage(At(v.msgs, env.chan[2], <<>>), env.msgs))
                 ELSE v.msgs
    BY <2>4, ApplyFields
  <2> HIDE DEF env, w
  <2>9. w.touched = v.touched /\ w.msgs = v.msgs
    BY <2>6, <2>7, <2>8
  <2> QED BY <1>3, <2>5, <2>9
<1> QED BY <1>4, <1>5, <1>6, ViewMoves

\* A screen that takes no envelope keeps its channels, but for one the user clears.
LEMMA ScreenStays ==
  ASSUME SysTypes, LinkInv, [SysNext]_sysVars, NEW c \in Client, NEW s \in Session, Belongs(s, c), link[s] = "reading",
         ~\E d \in Client : Show(d, s)
  PROVE  /\ view[c].touched \subseteq view'[c].touched
         /\ \A name : \/ name \in view'[c].touched
                      \/ /\ name \in DOMAIN view'[c].msgs <=> name \in DOMAIN view[c].msgs
                         /\ name \in DOMAIN view[c].msgs => view'[c].msgs[name] = view[c].msgs[name]
<1>1. \A t \in Session : ~Show(c, t)
  BY OnlyShow
<1>2. CASE view'[c].msgs = view[c].msgs /\ view'[c].touched = view[c].touched
  BY <1>2
<1>3. ASSUME NEW x, view'[c].touched = view[c].touched \cup {x}, SameBut(view[c].msgs, view'[c].msgs, x)
      PROVE  /\ view[c].touched \subseteq view'[c].touched
             /\ \A name : \/ name \in view'[c].touched
                          \/ /\ name \in DOMAIN view'[c].msgs <=> name \in DOMAIN view[c].msgs
                             /\ name \in DOMAIN view[c].msgs => view'[c].msgs[name] = view[c].msgs[name]
  BY <1>3 DEF SameBut
<1> QED BY <1>1, <1>2, <1>3, ViewMoves

\* What a client is to get stays so while it takes nothing.
LEMMA BatchKept ==
  ASSUME SysTypes, LinkInv, [SysNext]_sysVars, NEW s \in Session, link[s] = "reading", link'[s] = "reading",
         s \notin lost', ~\E d \in Client : Show(d, s), NEW chan, BatchComing(sendq[s], outbox, s, chan)
  PROVE  BatchComing(sendq'[s], outbox', s, chan)
<1> HIDE DEF EnvelopeType, Out
<1> DEFINE q == sendq[s]
           p == sendq'[s]
           Is(env) == env.type = "history_batch" /\ env.chan = chan
<1>1. /\ q \in Seq(EnvelopeType) /\ outbox \in Seq(Out) /\ \A i \in DOMAIN outbox : outbox[i].env \in EnvelopeType
  BY UnderwayTyped
<1>2. (\E k \in DOMAIN q : Is(q[k])) \/ (\E i \in DOMAIN outbox : s \in outbox[i].to /\ Is(outbox[i].env))
  BY DEF BatchComing
<1> SUFFICES (\E k \in DOMAIN p : Is(p[k])) \/ (\E i \in DOMAIN outbox' : s \in outbox'[i].to /\ Is(outbox'[i].env))
  BY DEF BatchComing
<1> HIDE DEF Is
<1>3. CASE Quiet(s)
  <2>10. Noted(p, q) /\ (Handle \/ UNCHANGED <<outbox, sess, db>>)
    BY <1>3 DEF Quiet
  <2>1. \A k \in DOMAIN q : k \in DOMAIN p /\ p[k] = q[k]
    BY <1>1, <2>10, QuietWire
  <2>2. Handle => outbox = <<>>
    BY HandlerKeeps
  <2> QED BY <1>2, <2>10, <2>1, <2>2
<1>4. CASE Posted(s)
  <2>10. /\ outbox # <<>> /\ outbox' = Tail(outbox) /\ UNCHANGED <<sess, db>> /\ Given(p, q, outbox[1], s)
    BY <1>4 DEF Posted
  <2>2. /\ \A k \in DOMAIN q : k \in DOMAIN p /\ p[k] = q[k]
        /\ s \in outbox[1].to => \E k \in DOMAIN p : p[k] = outbox[1].env
    BY <1>4, PostedFlow
  <2>3. \A i \in DOMAIN outbox : i # 1 => i - 1 \in DOMAIN outbox' /\ outbox'[i - 1] = outbox[i]
    BY <1>1, <2>10, HeadAndTail
  <2>4. CASE \E k \in DOMAIN q : Is(q[k])
    BY <2>2, <2>4
  <2>5. ASSUME NEW i \in DOMAIN outbox, s \in outbox[i].to, Is(outbox[i].env)
        PROVE  (\E k \in DOMAIN p : Is(p[k])) \/ (\E j \in DOMAIN outbox' : s \in outbox'[j].to /\ Is(outbox'[j].env))
    <3>1. CASE i = 1
      BY <2>2, <2>5, <3>1
    <3>2. CASE i # 1
      BY <2>3, <2>5, <3>2
    <3> QED BY <3>1, <3>2
  <2> QED BY <1>2, <2>4, <2>5
<1>5. ~Shown(s)
  BY DEF Shown
<1> QED BY <1>3, <1>4, <1>5, LiveWire

\* Every step keeps the lists of a first connection free of gaps,
LEMMA FirstGaplessStep ==
  ASSUME HistoryLimit <= ViewCap, Faults = {}, SysTypes, LinkInv, OrderInv, AtHome, AtHome', JoinedOnly, JoinedOnly',
         CarriedFiled, NewsComplete, BatchesComplete, StartsClear, FirstGapless, [SysNext]_sysVars
  PROVE  FirstGapless'
<1> SUFFICES ASSUME NEW c \in Client, NEW s \in Session, Belongs(s, c), First(s, c), Inside(s)',
                    NEW name \in DOMAIN view'[c].msgs \ view'[c].touched
             PROVE  NoGap(view'[c].msgs[name], Coming(sendq'[s], 0, outbox', s), Ids(db', <<Target(c), name>>))
  BY DEF FirstGapless, First, Belongs, NoGap, Elems, Ids, Coming, NewsIn, NewsFor, Target
<1> DEFINE here == <<Target(c), name>>
           list == At(view[c].msgs, name, <<>>)
           R == Coming(sendq[s], 0, outbox, s)
           T == Coming(sendq'[s], 0, outbox', s)
<1>1. /\ link[s] = "reading" /\ link'[s] = "reading" /\ s \notin lost'
      /\ Inside(s) \/ (sess[s].ws = Blank /\ Arrives(s))
  BY InsideMoves
<1>2. CASE sess[s].ws = Blank /\ Arrives(s)
  <2>1. sess' # sess
    BY <1>2 DEF Arrives
  <2>2. ~\E d \in Client : Show(d, s)
    BY <2>1 DEF Show, WriteOut
  <2>3. DOMAIN view[c].msgs \subseteq view[c].touched
    BY <1>1, <1>2 DEF StartsClear
  <2> QED BY <1>1, <2>2, <2>3, ScreenStays
<1>3. ASSUME Inside(s), NEW ids, name \notin view[c].touched, ids = Ids(db, here) PROVE NoGap(list, R, ids)
  <2>1. CASE name \in DOMAIN view[c].msgs
    BY <1>3, <2>1 DEF FirstGapless, At
  <2>2. CASE name \notin DOMAIN view[c].msgs
    BY <2>2 DEF At, NoGap, Elems
  <2> QED BY <2>1, <2>2
<1>4. CASE Inside(s) /\ \E d \in Client : Show(d, s)
  <2>1. Show(c, s)
    BY <1>1, <1>4, OnlyShow
  <2>2. db' = db
    BY <2>1 DEF Show, WriteOut
  <2> DEFINE after == At(view'[c].msgs, name, <<>>)
             ids == Ids(db, here)
  <2>3. \/ Covers(after, T, ids)
        \/ (name \in view'[c].touched <=> name \in view[c].touched) /\ (NoGap(list, R, ids) => NoGap(after, T, ids))
    BY <1>4, <2>1, ScreenTakes
  <2>4. after = view'[c].msgs[name]
    BY DEF At
  <2>5. name \notin view[c].touched => NoGap(list, R, ids)
    BY <1>3, <1>4
  <2>6. ids = Ids(db', here)
    BY <2>2
  <2> HIDE DEF after, ids, T, R, list, here
  <2>7. NoGap(after, T, ids)
    BY <2>3, <2>5 DEF Covers
  <2> QED BY <2>4, <2>6, <2>7 DEF T, here
<1>5. CASE Inside(s) /\ ~\E d \in Client : Show(d, s)
  <2>1. name \in DOMAIN view[c].msgs /\ name \notin view[c].touched /\ view'[c].msgs[name] = view[c].msgs[name]
    BY <1>1, <1>5, ScreenStays
  <2> DEFINE ids == Ids(db, here)
             more == Ids(db', here)
             shown == view'[c].msgs[name]
  <2>2. NoGap(shown, R, ids)
    BY <1>5, <2>1 DEF FirstGapless
  <2>3. \A y \in more : y \in ids \cup T /\ (y \in R => y \in T)
    BY <1>5, FlowKept
  <2> HIDE DEF ids, more, shown, T, R, here
  <2>4. NoGap(shown, T, more)
    BY <2>2, <2>3, CoversMore
  <2> QED BY <2>4 DEF shown, T, more, here
<1> QED BY <1>1, <1>2, <1>4, <1>5

\* and the current channel covered, or its batch under way.
LEMMA HereCompleteStep ==
  ASSUME HistoryLimit <= ViewCap, Faults = {}, SysTypes, LinkInv, OrderInv, AtHome, AtHome', JoinedOnly, JoinedOnly',
         CarriedFiled, NewsComplete, BatchesComplete, HereComplete, [SysNext]_sysVars
  PROVE  HereComplete'
<1> HIDE DEF EnvelopeType, Out
<1> SUFFICES ASSUME NEW c \in Client, NEW s \in Session, Belongs(s, c), Inside(s)'
             PROVE  \/ sess'[s].current[2] \in view'[c].touched
                    \/ BatchComing(sendq'[s], outbox', s, sess'[s].current)
                    \/ Covers(At(view'[c].msgs, sess'[s].current[2], <<>>), Coming(sendq'[s], 0, outbox', s),
                              Ids(db', sess'[s].current))
  BY DEF HereComplete, BatchComing, At, Covers, NoGap, Enough, Elems, Ids, Coming, NewsIn, NewsFor
<1>1. /\ link[s] = "reading" /\ link'[s] = "reading" /\ s \notin lost'
      /\ (Inside(s) /\ sess[s].ws = Target(c)) \/ Arrives(s)
  BY InsideMoves
<1>2. CASE Arrives(s)
  BY <1>2 DEF Arrives, Fetched, BatchComing
<1>3. CASE ~Arrives(s)
  <2> DEFINE name == sess[s].current[2]
             here == <<Target(c), name>>
             list == At(view[c].msgs, name, <<>>)
             after == At(view'[c].msgs, name, <<>>)
             R == Coming(sendq[s], 0, outbox, s)
             T == Coming(sendq'[s], 0, outbox', s)
             ids == Ids(db, here)
             more == Ids(db', here)
  <2>1. Inside(s) /\ sess[s].ws = Target(c) /\ sess'[s].current = sess[s].current
    BY <1>1, <1>3, SessMoves
  <2>2. sess[s].current = here
    <3>1. sess[s].current \in Channel
      BY DEF SysTypes, HubInv, CoreOK, SessionRecord
    <3>2. sess[s].current[1] = Target(c)
      BY <2>1 DEF AtHome
    <3> QED BY <3>1, <3>2 DEF Channel
  <2>3. name \in view[c].touched \/ BatchComing(sendq[s], outbox, s, here) \/ Covers(list, R, ids)
    BY <2>1, <2>2 DEF HereComplete
  <2> SUFFICES name \in view'[c].touched \/ BatchComing(sendq'[s], outbox', s, here) \/ Covers(after, T, more)
    BY <2>1, <2>2
  <2>4. CASE \E d \in Client : Show(d, s)
    <3>1. Show(c, s)
      BY <1>1, <2>4, OnlyShow
    <3>2. db' = db /\ outbox = <<>>
      BY <3>1 DEF Show, WriteOut
    <3> DEFINE q == sendq[s]
               Is(env) == env.type = "history_batch" /\ env.chan = here
    <3>3. \/ Covers(after, T, ids)
          \/ /\ ~Is(q[1])
             /\ name \in view'[c].touched <=> name \in view[c].touched
             /\ Covers(list, R, ids) => Covers(after, T, ids)
      BY <2>1, <3>1, ScreenTakes
    <3>4. ids = more
      BY <3>2
    <3>5. BatchComing(q, outbox, s, here) => Is(q[1]) \/ BatchComing(sendq'[s], outbox', s, here)
      <4> SUFFICES ASSUME BatchComing(q, outbox, s, here), ~Is(q[1]) PROVE \E k \in DOMAIN sendq'[s] : Is(sendq'[s][k])
        BY DEF BatchComing
      <4>1. PICK k \in DOMAIN q : Is(q[k])
        BY <3>2 DEF BatchComing
      <4>2. q \in Seq(EnvelopeType) /\ q # <<>> /\ sendq'[s] = Tail(q)
        <5>1. sendq' = [sendq EXCEPT ![s] = Tail(q)] /\ sendq \in [Session -> Seq(EnvelopeType)]
          BY <3>1, UnderwayTyped DEF Show, WriteOut
        <5>2. q # <<>>
          BY <3>1, ShowTyped
        <5> QED BY <5>1, <5>2
      <4> HIDE DEF Is, q
      <4>3. k # 1
        BY <4>1
      <4>4. k - 1 \in DOMAIN Tail(q) /\ Tail(q)[k - 1] = q[k]
        BY <4>2, <4>3, HeadAndTail
      <4> QED BY <4>1, <4>2, <4>4
    <3> HIDE DEF name, here, list, after, R, T, ids, more, Is, q
    <3>6. sendq[s] = q
      BY DEF q
    <3> QED BY <2>3, <3>3, <3>4, <3>5, <3>6
  <2>5. CASE ~\E d \in Client : Show(d, s)
    <3>1. /\ view[c].touched \subseteq view'[c].touched
          /\ name \in view'[c].touched \/ after = list
      BY <1>1, <2>5, ScreenStays DEF At
    <3>2. BatchComing(sendq[s], outbox, s, here) => BatchComing(sendq'[s], outbox', s, here)
      BY <1>1, <2>5, BatchKept
    <3>3. \A y \in more : y \in ids \cup T /\ (y \in R => y \in T)
      BY <2>1, <2>5, FlowKept
    <3> HIDE DEF name, here, list, after, R, T, ids, more
    <3>4. Covers(list, R, ids) => Covers(list, T, more)
      BY <3>3, CoversMore
    <3> QED BY <2>3, <3>1, <3>2, <3>4
  <2> QED BY <2>4, <2>5
<1> QED BY <1>2, <1>3

\* The inductive invariant behind ViewComplete, on top of LinkInv and OrderInv.
ScreenInv ==
  /\ AtHome /\ JoinedOnly /\ QuietOutside /\ CarriedFiled /\ ListsFiled
  /\ NewsComplete /\ BatchesComplete /\ StartsClear /\ FirstGapless /\ HereComplete

\* It holds of screens that show nothing,
LEMMA ScreenInit ==
  ASSUME SysInit
  PROVE  ScreenInv
<1>1. /\ link = [s \in Session |-> "new"] /\ sendq = [s \in Session |-> <<>>] /\ outbox = <<>> /\ inbound = <<>>
      /\ scoped = {} /\ queued = [c \in Client |-> <<>>]
      /\ view = [c \in Client |-> NewView(Account[c])]
      /\ \A s \in Session : sess[s].ws = Blank /\ sess[s].current = NoChannel
  BY DEF SysInit, Init, NewSession
<1>2. \A c \in Client : DOMAIN view[c].msgs = {}
  BY <1>1 DEF NewView
<1>3. \A s \in Session : link[s] # "reading" /\ sendq[s] = <<>>
  BY <1>1
<1>4. \A s \in Session : ~Inside(s)
  BY <1>3 DEF Inside, Live
<1>5. AtHome
  <2>1. NoChannel[1] = Blank
    BY DEF NoChannel
  <2> QED BY <1>1, <1>3, <2>1 DEF AtHome
<1>6. JoinedOnly
  BY <1>1 DEF JoinedOnly
<1>7. QuietOutside /\ CarriedFiled
  BY <1>1, <1>3 DEF QuietOutside, CarriedFiled
<1>8. ListsFiled /\ StartsClear
  BY <1>2 DEF ListsFiled, StartsClear
<1>9. NewsComplete /\ BatchesComplete /\ FirstGapless /\ HereComplete
  BY <1>4 DEF NewsComplete, BatchesComplete, FirstGapless, HereComplete
<1> QED BY <1>5, <1>6, <1>7, <1>8, <1>9 DEF ScreenInv

\* and every step keeps it.
LEMMA ScreenStep ==
  ASSUME HistoryLimit <= ViewCap, Faults = {}, SysTypes, LinkInv, OrderInv, ScreenInv, [SysNext]_sysVars
  PROVE  ScreenInv'
<1>1. AtHome' /\ JoinedOnly'
  BY AtHomeStep, JoinedOnlyStep DEF ScreenInv
<1>2. QuietOutside' /\ CarriedFiled' /\ ListsFiled'
  BY <1>1, QuietOutsideStep, CarriedFiledStep, ListsFiledStep DEF ScreenInv
<1>3. NewsComplete' /\ BatchesComplete'
  BY <1>1, NewsCompleteStep, BatchesCompleteStep DEF ScreenInv
<1>4. StartsClear' /\ FirstGapless' /\ HereComplete'
  BY <1>1, StartsClearStep, FirstGaplessStep, HereCompleteStep DEF ScreenInv
<1> QED BY <1>1, <1>2, <1>3, <1>4 DEF ScreenInv

\* A list without a gap is the end of its channel.
LEMMA ScreenWhole ==
  ASSUME SysTypes, OrderInv, ScreenInv
  PROVE  ViewComplete
<1> HIDE DEF EnvelopeType, Out
<1> SUFFICES ASSUME NEW c \in Client, NEW s \in Session, Settled(c, s)
             PROVE  LET ShownIn(name) == At(view[c].msgs, name, <<>>)
                        log(name) == MessagesOf(db, <<sess[s].ws, name>>)
                        here == sess[s].current[2]
                    IN /\ \A name \in DOMAIN view[c].msgs \ view[c].touched :
                            (name = here \/ s = Conns[c][1]) => IsTail(ShownIn(name), log(name))
                       /\ here \in view[c].touched \/ Len(ShownIn(here)) >= Len(ListHistory(db, sess[s].current))
  BY DEF ViewComplete
<1> DEFINE ShownIn(name) == At(view[c].msgs, name, <<>>)
           log(name) == MessagesOf(db, <<sess[s].ws, name>>)
           here == sess[s].current[2]
           ids(name) == Ids(db, <<Target(c), name>>)
<1>1. Belongs(s, c) /\ Inside(s) /\ sess[s].ws = Target(c)
  <2>1. sess[s].ws # Blank
    <3>1. <<sess[s].ws, s>> \in scoped
      BY DEF Settled
    <3> QED BY <3>1 DEF ScreenInv, AtHome
  <2> QED BY <2>1 DEF Settled, Inside, Live, ScreenInv, JoinedOnly
<1>2. sess[s].current = <<Target(c), here>>
  <2>1. sess[s].current \in Channel
    BY DEF SysTypes, HubInv, CoreOK, SessionRecord
  <2>2. sess[s].current[1] = Target(c)
    BY <1>1 DEF ScreenInv, AtHome
  <2> QED BY <2>1, <2>2 DEF Channel
<1>3. Coming(sendq[s], 0, outbox, s) = {} /\ ~BatchComing(sendq[s], outbox, s, sess[s].current)
  BY DEF Settled, Coming, NewsIn, NewsFor, BatchComing
<1>4. here \in view[c].touched \/ Covers(ShownIn(here), {}, ids(here))
  BY <1>1, <1>2, <1>3 DEF ScreenInv, HereComplete
<1>5. IsTables(db)
  BY DEF SysTypes, HubInv, CoreOK
<1>6. ASSUME NEW name \in DOMAIN view[c].msgs \ view[c].touched, NoGap(ShownIn(name), {}, ids(name))
      PROVE  /\ IsTail(ShownIn(name), log(name))
             /\ ids(name) \subseteq Elems(ShownIn(name)) => Len(ShownIn(name)) = Len(log(name))
  <2> DEFINE list == ShownIn(name)
             S == ids(name)
  <2>1. list = view[c].msgs[name]
    BY DEF At
  <2>2. list \in Seq(Nat) /\ Increasing(list)
    BY <2>1 DEF OrderInv, ListsOK, Lists
  <2>3. Elems(list) \subseteq S
    BY <2>1 DEF ScreenInv, ListsFiled
  <2>4. S \in SUBSET Nat /\ IsFiniteSet(S) /\ log(name) = Ordered(S)
    BY <1>1, <1>5, IdsFinite
  <2>5. NoGap(list, {}, S)
    BY <1>6
  <2> HIDE DEF list, S, log
  <2>6. IsTail(list, Ordered(S)) /\ (S \subseteq Elems(list) => Len(list) = Len(Ordered(S)))
    BY <2>2, <2>3, <2>4, <2>5, TailOfAll
  <2> QED BY <2>4, <2>6 DEF list, S
<1>7. ASSUME NEW name \in DOMAIN view[c].msgs \ view[c].touched, name = here \/ s = Conns[c][1]
      PROVE  IsTail(ShownIn(name), log(name))
  <2>1. CASE name = here
    BY <1>4, <1>6, <1>7, <2>1 DEF Covers
  <2>2. CASE s = Conns[c][1]
    <3>1. First(s, c)
      <4>1. Conns[c] \in Seq(Session)
        BY ChatSystemAssumption DEF ChatSystemAssumption
      <4> QED BY <1>1, <2>2, <4>1 DEF First, Belongs
    <3>2. NoGap(view[c].msgs[name], {}, ids(name))
      BY <1>1, <1>3, <3>1 DEF ScreenInv, FirstGapless
    <3> QED BY <1>6, <3>2 DEF At
  <2> QED BY <1>7, <2>1, <2>2
<1>8. ASSUME here \notin view[c].touched PROVE Len(ShownIn(here)) >= Len(ListHistory(db, sess[s].current))
  <2> DEFINE n == Len(ShownIn(here))
             h == Len(ListHistory(db, sess[s].current))
  <2>1. h \in Nat /\ h <= HistoryLimit /\ h <= Len(log(here)) /\ HistoryLimit \in Nat
    BY <1>1, <1>2, <1>5, HistoryCovers, StoreAssumption DEF StoreAssumption
  <2>2. NoGap(ShownIn(here), {}, ids(here)) /\ (n >= HistoryLimit \/ ids(here) \subseteq Elems(ShownIn(here)))
    BY <1>4, <1>8 DEF Covers, Enough
  <2>3. CASE here \in DOMAIN view[c].msgs
    <3>1. ids(here) \subseteq Elems(ShownIn(here)) => n = Len(log(here))
      BY <1>6, <1>8, <2>2, <2>3
    <3>2. n \in Nat
      <4>1. ShownIn(here) \in Seq(Nat)
        BY <2>3 DEF OrderInv, ListsOK, Lists, At
      <4> QED BY <4>1
    <3>3. n >= HistoryLimit \/ n = Len(log(here))
      BY <2>2, <3>1
    <3> HIDE DEF log, h, n
    <3> QED BY <2>1, <3>2, <3>3 DEF n, h
  <2>4. CASE here \notin DOMAIN view[c].msgs
    <3>1. ShownIn(here) = <<>>
      BY <2>4 DEF At
    <3>2. n = 0 /\ Elems(ShownIn(here)) = {}
      BY <3>1 DEF Elems
    <3>3. CASE HistoryLimit = 0
      BY <2>1, <3>2, <3>3
    <3>4. CASE ids(here) = {}
      <4>1. log(here) = Ordered({})
        BY <1>1, <1>5, <3>4, IdsFinite
      <4>2. Len(log(here)) = 0
        <5>1. Ordered({}) \in Seq(Nat) /\ \A i \in DOMAIN Ordered({}) : Ordered({})[i] \in {}
          BY OrderedWhole, FS_EmptySet
        <5> DEFINE none == Ordered({})
        <5> HIDE DEF none
        <5>2. none \in Seq(Nat) /\ DOMAIN none = {}
          BY <5>1 DEF none
        <5>3. Len(none) = 0
          BY <5>2
        <5> QED BY <4>1, <5>3 DEF none
      <4> HIDE DEF log, h, n
      <4> QED BY <2>1, <3>2, <4>2 DEF n, h
    <3> QED BY <2>1, <2>2, <3>2, <3>3, <3>4
  <2> QED BY <2>3, <2>4
<1> QED BY <1>7, <1>8

\* A client that has received all that was sent to it shows, of the channel its
\* session is in, the latest messages without a gap and at least as many as the
\* history has (what the batch sets and appendMessage adds), unless the user
\* changed the list; on its first connection no channel has a gap. That
\* is for queries that do not fail and a history that fits on the screen, as the
\* code's limits do (CHAT_HISTORY_LIMIT 50, appendMessage's 500). The proof
\* follows a message from the table to the screen: a session is sent the news of
\* its workspace from when its history is fetched, so a list has no gap but for
\* what is under way.
THEOREM ScreensComplete == HistoryLimit <= ViewCap /\ Faults = {} => (SysSpec => []ViewComplete)
<1> SUFFICES ASSUME HistoryLimit <= ViewCap, Faults = {} PROVE SysSpec => []ViewComplete
  OBVIOUS
<1>1. SysInit => OrderInv
  BY OrderInit
<1>2. SysTypes /\ SysTypes' /\ LinkInv /\ OrderInv /\ [SysNext]_sysVars => OrderInv'
  BY CarriedStep, NewsInOrderStep, NewsUnseenStep, ListsOKStep DEF OrderInv
<1>3. SysInit => ScreenInv
  BY ScreenInit
<1>4. SysTypes /\ LinkInv /\ OrderInv /\ ScreenInv /\ [SysNext]_sysVars => ScreenInv'
  BY ScreenStep
<1>5. SysTypes /\ OrderInv /\ ScreenInv => ViewComplete
  BY ScreenWhole
<1> QED BY <1>1, <1>2, <1>3, <1>4, <1>5, LinkInvariant, PTL DEF SysSpec
=============================================================================
