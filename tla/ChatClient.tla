----------------------------- MODULE ChatClient -----------------------------
(***************************************************************************)
(* The chat screen of internal/client/ui/model.go: what it keeps, what     *)
(* each envelope does to it (handleWSEvent), and what the commands the     *)
(* user types do to it and send (updateChatKeys, handleSlashCommand).      *)
(*                                                                         *)
(* A view is a record v:                                                   *)
(*   handle, current   App.Handle and App.Current                          *)
(*   msgs, cleared     messagesByChannel and clearedMessages               *)
(*   pres              presence, keyed by handle; nothing removes an entry *)
(*   roster, pane      userRoster and what App.UserMeta shows of it        *)
(*   effects, muted, effect   effectsEnabled, mutedEffectUsers and         *)
(*                     activeEffect (NoEffect when there is none)          *)
(*   touched, refused  history variables: the channels whose messages the  *)
(*                     user cleared or restored since their last batch,    *)
(*                     and whether an error came after the last channel    *)
(*                     that was entered                                    *)
(*                                                                         *)
(* A command is a record [cmd, ...] of CommandType, as strings.Fields      *)
(* leaves it; a text that is no command is "say".                          *)
(***************************************************************************)
EXTENDS Hub

CONSTANTS
  DmName,   \* dmChannelName, on the set of its arguments
  IntMax,   \* the client's int goes from -IntMax-1 to IntMax (2^63-1 on its builds)
  ViewCap   \* messages kept per channel (500 in appendMessage)

ASSUME ChatClientAssumption ==
  /\ DmName \in [{{a, b} : a, b \in Text} -> Text]
  /\ IntMax \in Nat \ {0} /\ ViewCap \in Nat \ {0}

\* The commands; the seconds of a /ping are 0 without a flag of seconds.
CommandType ==
  [cmd : {"say", "/me", "/emote"}, body : Text]
  \cup [cmd : {"/join"}, channel : Text]
  \cup [cmd : {"/dm", "/chandle", "/muteeffects"}, handle : Text]
  \cup [cmd : {"/ping"}, handle : Text, effect : Text, seconds : Int]
  \cup [cmd : {"/effects"}, on : BOOLEAN]
  \cup [cmd : {"/clear", "/restore", "/users", "/channels"}]

NewView(account) ==
  [handle |-> account.handle, current |-> account.channel, msgs |-> <<>>, cleared |-> <<>>,
   pres |-> <<>>, roster |-> {}, pane |-> {}, effects |-> TRUE, muted |-> {},
   effect |-> NoEffect, touched |-> {}, refused |-> FALSE]

\* A Go map that yields the zero value for a key it does not hold.
At(f, k, zero) == IF k \in DOMAIN f THEN f[k] ELSE zero
Without(f, k) == [x \in DOMAIN f \ {k} |-> f[x]]
-----------------------------------------------------------------------------
(* handleWSEvent.                                                          *)

\* rebuildUsers and SetUsersDetailed: the roster, with what the presence map
\* holds under each handle.
Rebuilt(v) ==
  [v EXCEPT !.pane =
     {LET p == At(v.pres, u.handle, [channel |-> Blank, online |-> FALSE])
      IN [id |-> u.id, handle |-> u.handle, channel |-> p.channel, online |-> p.online] : u \in v.roster}]

\* The cap keeps the messages that came first.
AppendMessageFirst(list, new) ==
  LET all == list \o new IN SubSeq(all, 1, IF Len(all) > ViewCap THEN ViewCap ELSE Len(all))

\* appendMessage.
AppendMessage(list, new) ==
  LET all == list \o new
  IN SubSeq(all, IF Len(all) > ViewCap THEN Len(all) - ViewCap + 1 ELSE 1, Len(all))

WithPresences(v, rows) ==
  [v EXCEPT !.pres = [h \in DOMAIN @ \cup {p.handle : p \in rows} |->
     IF \E p \in rows : p.handle = h THEN CHOOSE p \in rows : p.handle = h ELSE @[h]]]

\* The handle of whoever was renamed last.
RenamedAnyone(v, old, new) == [v EXCEPT !.handle = new]
Renamed(v, old, new) == [v EXCEPT !.handle = IF @ = old THEN new ELSE @]

\* The channel the user asked for is kept.
EntersAsTyped(v, name) == [v EXCEPT !.refused = FALSE]
Enters(v, name) == [v EXCEPT !.current = name, !.refused = FALSE]

\* One case per type that changes something here; the others only set the
\* notification line.
Apply(v, env) ==
  LET name == env.chan[2] IN
  CASE env.type = "identified"       -> [v EXCEPT !.handle = env.handle]
    [] env.type = "workspace_joined" -> [Enters(v, name) EXCEPT !.roster = env.users]
    [] env.type = "users_list"       -> Rebuilt([v EXCEPT !.roster = env.users])
    [] env.type = "channel_joined"   -> Enters(v, name)
    [] env.type = "history_batch"    ->
         [v EXCEPT !.msgs = With(@, name, env.msgs), !.touched = @ \ {name}]
    [] env.type \in {"message_new", "emote_new"} ->
         [v EXCEPT !.msgs = With(@, name, AppendMessage(At(@, name, <<>>), env.msgs))]
    [] env.type = "presence_update"  -> Rebuilt(WithPresences(v, env.pres))
    [] env.type = "handle_changed"   -> Renamed(v, env.old, env.handle)
    [] env.type = "ping_effect"      ->
         IF v.effects /\ env.effect.from \notin v.muted THEN [v EXCEPT !.effect = env.effect] ELSE v
    [] env.type = "error"            -> [v EXCEPT !.refused = TRUE]
    [] OTHER                         -> v

\* What handling the envelope sends.
Answer(env) ==
  IF env.type \in {"user_joined", "user_left"} THEN <<[type |-> "request_users"]>> ELSE <<>>
-----------------------------------------------------------------------------
(* updateChatKeys and handleSlashCommand.                                  *)

\* x in an int that overflows.
Wrapped(x) == ((x + IntMax + 1) % (2 * IntMax + 2)) - IntMax - 1

\* parsePingDurationFlag on a flag of n seconds, 0 without such a flag; a
\* number of no seconds is an unknown flag.
DurationMS(n) == Wrapped(n * 1000)

\* dmChannelName on the user's handle and the other's.
DmChannel(v, h) == DmName[{Clean(v.handle), Clean(h)}]

\* The view after a command.  A channel is entered before the server agrees.
Typed(v, c) ==
  LET here == At(v.msgs, v.current, <<>>)
      saved == At(v.cleared, v.current, <<>>)
  IN CASE c.cmd = "/join" -> [v EXCEPT !.current = c.channel]
       [] c.cmd = "/dm" /\ Clean(c.handle) # v.handle -> [v EXCEPT !.current = DmChannel(v, c.handle)]
       [] c.cmd = "/clear" ->
            [v EXCEPT !.cleared = IF here # <<>> THEN With(@, v.current, here) ELSE @,
                      !.msgs = Without(@, v.current), !.touched = @ \cup {v.current}]
       [] c.cmd = "/restore" /\ saved # <<>> ->
            [v EXCEPT !.msgs = With(@, v.current, saved), !.cleared = Without(@, v.current),
                      !.touched = @ \cup {v.current}]
       [] c.cmd = "/effects" ->
            [v EXCEPT !.effects = c.on, !.effect = IF c.on THEN @ ELSE NoEffect]
       [] c.cmd = "/muteeffects" ->
            LET h == Clean(c.handle)
            IN [v EXCEPT !.muted = IF h \in @ THEN @ \ {h} ELSE @ \cup {h}]
       [] OTHER -> v

\* /ping, for one user or for all.
PingEvent(c) ==
  IF Clean(c.handle) = "all"
    THEN [type |-> "ping_all", effect |-> c.effect, ms |-> DurationMS(c.seconds)]
    ELSE [type |-> "ping_user", handle |-> Clean(c.handle), effect |-> c.effect,
          ms |-> DurationMS(c.seconds)]

\* The events a command sends.  The channel that goes with a message is left
\* out: the server does not look at it.
Sent(v, c) ==
  CASE c.cmd = "say" \/ c.cmd = "/me" -> <<[type |-> "send_message", body |-> c.body]>>
    [] c.cmd = "/emote"    -> <<[type |-> "send_emote", body |-> c.body]>>
    [] c.cmd = "/join"     -> <<[type |-> "join_channel", channel |-> c.channel]>>
    [] c.cmd = "/dm" /\ Clean(c.handle) # v.handle ->
         <<[type |-> "join_channel", channel |-> DmChannel(v, c.handle)]>>
    [] c.cmd = "/users"    -> <<[type |-> "request_users"]>>
    [] c.cmd = "/channels" -> <<[type |-> "request_channels"]>>
    [] c.cmd = "/ping"     -> <<PingEvent(c)>>
    [] c.cmd = "/chandle"  -> <<[type |-> "change_handle", handle |-> c.handle]>>
    [] OTHER               -> <<>>
=============================================================================
