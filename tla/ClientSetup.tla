---------------------------- MODULE ClientSetup ----------------------------
(***************************************************************************)
(* The setup screen of the client (internal/client/ui/model.go) and the    *)
(* profile it keeps in a file (internal/client/profile/store.go), for the  *)
(* clients of one machine, which are started, closed and may crash.        *)
(*                                                                         *)
(* A client reads the file when it starts and writes all of it when the    *)
(* server tells it who the user is.  Writing may fail before os.WriteFile  *)
(* has truncated the file, which then keeps what it held, and after it.    *)
(* The server admits a client to a lobby whenever it likes, under whatever *)
(* handle it likes.  The clients of the machine run one after the other    *)
(* and all use one server.                                                 *)
(*                                                                         *)
(* A text is the sequence of its parts between bars, "acme|x" is           *)
(* <<"acme", "x">>: the profile joins names with bars and splits them      *)
(* again.  Neither a text nor a part of one has blanks around it, so that  *)
(* strings.TrimSpace leaves them alone.                                    *)
(***************************************************************************)
EXTENDS Naturals, Sequences

CONSTANTS
  Client,     \* the client processes
  Part,       \* what texts consist of, strings without bars
  Lower,      \* strings.ToLower on a part
  Query,      \* what is typed into the search field, besides "/list"
  Lobby,      \* what is typed as a lobby's name
  Code,       \* what is typed as a lobby's code
  Handle,     \* what is typed as a handle, and what the server answers
  Config,     \* config.Client: the lobby, code and handle the form starts with
  Matches,    \* the pairs <<query, lobby>> for which strings.Contains holds
  MayFail,    \* whether Save may fail, or the client die while it saves
  MaxStart,   \* bound: how often a client is started
  MaxAdmit    \* bound: how often the server admits a client

Empty == ""
Blank == <<Empty>>
ListCommand == <<"/list">>
Text == Seq(Part) \ {<<>>}

ASSUME ClientSetupAssumption ==
  /\ Query \cup Lobby \cup Code \cup Handle \cup {Blank, ListCommand} \subseteq Text
  /\ Config \in [lobby : Text, code : Text, handle : Text]
  /\ Lower \in [Part -> Part] /\ \A p \in Part : Lower[p] = Empty <=> p = Empty
  /\ MayFail \in BOOLEAN /\ MaxStart \in Nat /\ MaxAdmit \in Nat

VARIABLES
  file,     \* profile.json: [is |-> "absent" or "torn"], or [is |-> "whole", ...]
  prof,     \* per client, Store.data, or NoProfile
  writing,  \* per client, where Save stands: "no", "truncate", "write"
  phase,    \* per client: "off", "setup", "chat"
  inputs,   \* per client, the fields: 0 search, 1 lobby, 2 code, 3 username
  step,     \* per client, setupStep
  browsing, \* per client, showLobbyBrowser
  cursor,   \* per client, lobbyCursor
  saved,    \* per client, savedLobbies
  app,      \* per client, Workspace, WorkspaceCode and Handle it connected with
  answers,  \* per client, the handles the server has answered, unhandled
  starts,   \* how many clients were started, the next new device token
  admits,   \* how often the server admitted a client
  latest,   \* the handle last granted for a key, as far as the machine can know (history)
  written   \* latest, as it was when a Save last succeeded (history)

form == <<inputs, step, browsing, cursor>>
disk == <<file, prof, writing, saved>>
granted == <<latest, written>>
vars == <<disk, phase, form, app, answers, starts, admits, granted>>

NoProfile == [is |-> "absent"]
Torn == [is |-> "torn"]
Profile(token, entries) == [is |-> "whole", token |-> token, entries |-> entries]
NoApp == [lobby |-> Blank, code |-> Blank, handle |-> Blank]

Init ==
  /\ file = NoProfile /\ prof = [c \in Client |-> NoProfile] /\ writing = [c \in Client |-> "no"]
  /\ phase = [c \in Client |-> "off"] /\ inputs = [c \in Client |-> [i \in 0..3 |-> Blank]]
  /\ step = [c \in Client |-> 0] /\ browsing = [c \in Client |-> FALSE]
  /\ cursor = [c \in Client |-> 0] /\ saved = [c \in Client |-> <<>>]
  /\ app = [c \in Client |-> NoApp] /\ answers = [c \in Client |-> <<>>]
  /\ starts = 0 /\ admits = 0
  /\ latest = [k \in {} |-> Blank] /\ written = latest
-----------------------------------------------------------------------------
(* The profile: entries [key, handle], the newest first.                   *)

Clean(t) == [i \in DOMAIN t |-> Lower[t[i]]]

\* keyFor: the names joined by a bar, the lobby's in lower case.  (The server
\* is left out.)  "acme|x" with the code "k" has the key of "acme" with "x|k".
KeyFor(lobby, code) == Clean(lobby) \o code

\* List: SplitN gives the first part as the lobby's name, the rest as its code.
Listed(entries) ==
  [i \in DOMAIN entries |-> [lobby  |-> <<Head(entries[i].key)>>, code |-> Tail(entries[i].key),
                             handle |-> entries[i].handle]]

\* Where a key's entry is.  Workspaces is a map: there is at most one.
EntryOf(entries, key) == {i \in DOMAIN entries : entries[i].key = key}

Without(entries, i) == SubSeq(entries, 1, i - 1) \o SubSeq(entries, i + 1, Len(entries))

\* Store.Remember replaces the key's entry.
Remembered(entries, key, h) ==
  LET old == EntryOf(entries, key)
  IN <<[key |-> key, handle |-> Clean(h)]>>
       \o IF old = {} THEN entries ELSE Without(entries, CHOOSE i \in old : TRUE)

HandleIn(entries, key) ==
  LET found == EntryOf(entries, key)
  IN IF found = {} THEN Blank ELSE entries[CHOOSE i \in found : TRUE].handle

\* A lookup that minds the case of the lobby's name.
LookupAsTyped(p, lobby, code) ==
  IF p = NoProfile \/ lobby = Blank \/ code = Blank THEN Blank
  ELSE HandleIn(p.entries, lobby \o code)

\* lookupRememberedHandle: Blank when there is nothing to look up.
Lookup(p, lobby, code) ==
  IF p = NoProfile \/ lobby = Blank \/ code = Blank THEN Blank
  ELSE HandleIn(p.entries, KeyFor(lobby, code))

Idle(c) == writing[c] = "no"

\* Open, which has nothing to remember yet, gives up when Save fails; Remember
\* has changed what is in memory before, and handleWSEvent only logs the error.
GivenUp(c) == IF prof[c].entries = <<>> THEN [prof EXCEPT ![c] = NoProfile] ELSE prof

\* Save, in two steps; the client waits for it.  It may fail before the file
\* is touched (MkdirAll, opening it), before it is written, or on closing it.
SaveStep(c) ==
  /\ \/ /\ writing[c] = "truncate"
        /\ file' = Torn /\ writing' = [writing EXCEPT ![c] = "write"] /\ UNCHANGED <<prof, written>>
     \/ /\ writing[c] = "write"
        /\ file' = prof[c] /\ writing' = [writing EXCEPT ![c] = "no"] /\ written' = latest
        /\ prof' = prof \/ (MayFail /\ prof' = GivenUp(c))
     \/ /\ writing[c] # "no" /\ MayFail
        /\ prof' = GivenUp(c) /\ writing' = [writing EXCEPT ![c] = "no"] /\ UNCHANGED <<file, written>>
  /\ UNCHANGED <<saved, phase, form, app, answers, starts, admits, latest>>

\* A new token is not saved.
OpenUnsaved(c) ==
  /\ prof' = [prof EXCEPT ![c] = IF file.is = "whole" THEN file
                                 ELSE IF file = Torn THEN NoProfile ELSE Profile(starts + 1, <<>>)]
  /\ UNCHANGED writing

\* profile.Open: no file is a new device, one that cannot be read no profile.
Open(c) ==
  \/ file.is = "whole" /\ prof' = [prof EXCEPT ![c] = file] /\ UNCHANGED writing
  \/ file = Torn       /\ prof' = [prof EXCEPT ![c] = NoProfile] /\ UNCHANGED writing
  \/ /\ file.is = "absent"
     /\ prof' = [prof EXCEPT ![c] = Profile(starts + 1, <<>>)]
     /\ writing' = [writing EXCEPT ![c] = "truncate"]

\* What the client could not save is forgotten with it.
Gone(c) ==
  /\ phase' = [phase EXCEPT ![c] = "off"] /\ prof' = [prof EXCEPT ![c] = NoProfile]
  /\ writing' = [writing EXCEPT ![c] = "no"] /\ saved' = [saved EXCEPT ![c] = <<>>]
  /\ inputs' = [inputs EXCEPT ![c] = [i \in 0..3 |-> Blank]] /\ step' = [step EXCEPT ![c] = 0]
  /\ browsing' = [browsing EXCEPT ![c] = FALSE] /\ cursor' = [cursor EXCEPT ![c] = 0]
  /\ app' = [app EXCEPT ![c] = NoApp] /\ answers' = [answers EXCEPT ![c] = <<>>]
  /\ latest' = written
  /\ UNCHANGED <<file, starts, admits, written>>

Quit(c) == phase[c] # "off" /\ Idle(c) /\ Gone(c)

\* The process dies while it saves, before the truncation or after it.
Crash(c) == MayFail /\ ~Idle(c) /\ Gone(c)
-----------------------------------------------------------------------------
(* The setup screen.                                                       *)

AtSetup(c, browser) == phase[c] = "setup" /\ Idle(c) /\ browsing[c] = browser

ConfigFields ==
  [i \in 0..3 |-> CASE i = 0 -> Blank [] i = 1 -> Config.lobby [] i = 2 -> Config.code [] i = 3 -> Config.handle]

\* prefillRememberedHandle, after every key: it also replaces what was typed
\* when the focus has left the field.
Prefilled(p, at, fields) ==
  LET h == Lookup(p, fields[1], fields[2])
  IN IF h # Blank /\ (fields[3] = Blank \/ at < 3) THEN [fields EXCEPT ![3] = h] ELSE fields

\* NewModel, while no other client of the machine runs.
Start(c) ==
  /\ phase = [d \in Client |-> "off"] /\ starts < MaxStart
  /\ Open(c)
  /\ phase' = [phase EXCEPT ![c] = "setup"] /\ starts' = starts + 1
  /\ saved' = [saved EXCEPT ![c] = IF prof'[c] = NoProfile THEN <<>> ELSE Listed(prof'[c].entries)]
  /\ inputs' = [inputs EXCEPT ![c] = Prefilled(prof'[c], step[c], ConfigFields)]
  /\ UNCHANGED <<file, step, browsing, cursor, app, answers, admits, granted>>

FieldText(i) == CASE i = 0 -> Query \cup {ListCommand} [] i = 1 -> Lobby [] i = 2 -> Code [] i = 3 -> Handle

\* Keys typed into the focused field.
Type(c) ==
  /\ AtSetup(c, FALSE)
  /\ \E t \in FieldText(step[c]) :
       inputs' = [inputs EXCEPT ![c] = Prefilled(prof[c], step[c], [@ EXCEPT ![step[c]] = t])]
  /\ UNCHANGED <<disk, phase, step, browsing, cursor, app, answers, starts, admits, granted>>

\* The fields shown are counted without wrapping round.
TabUnwrapped(c) ==
  /\ AtSetup(c, FALSE)
  /\ step' = [step EXCEPT ![c] = @ + 1]
  /\ UNCHANGED <<disk, phase, inputs, browsing, cursor, app, answers, starts, admits, granted>>

\* Tab and Shift+Tab go round the fields that are shown.
Tab(c) ==
  LET visible == IF step[c] >= 3 \/ inputs[c][3] # Blank THEN 4 ELSE 3
  IN /\ AtSetup(c, FALSE)
     /\ \E delta \in {1, visible - 1} :
          step' = [step EXCEPT ![c] = (@ + delta) % visible]
     /\ UNCHANGED <<disk, phase, inputs, browsing, cursor, app, answers, starts, admits, granted>>

Filled(fields, e) == [fields EXCEPT ![1] = e.lobby, ![2] = e.code, ![3] = e.handle]

\* applySearchLobby: the first saved lobby that matches fills the form.
SearchApplied(c) ==
  LET query == Clean(inputs[c][0])
      hits == {i \in DOMAIN saved[c] : <<query, saved[c][i].lobby>> \in Matches}
      first == CHOOSE i \in hits : \A j \in hits : i <= j
  IN IF query = Blank \/ hits = {} THEN inputs[c] ELSE Filled(inputs[c], saved[c][first])

\* connectFromSetup.  What the last connection answered has been handled by
\* now: the user takes longer to get through this screen.
ConnectFromSetup(c, fields) ==
  LET h == IF fields[3] = Blank THEN Lookup(prof[c], fields[1], fields[2]) ELSE fields[3]
  IN /\ answers[c] = <<>>
     /\ phase' = [phase EXCEPT ![c] = "chat"]
     /\ app' = [app EXCEPT ![c] = [lobby |-> fields[1], code |-> fields[2], handle |-> h]]
     /\ inputs' = [inputs EXCEPT ![c] = [fields EXCEPT ![3] = h]]

Advance(c) == step' = [step EXCEPT ![c] = @ + 1] /\ UNCHANGED phase

\* Enter in the search field: the list of saved lobbies, or a search.
EnterSearch(c) ==
  /\ AtSetup(c, FALSE) /\ step[c] = 0
  /\ \/ /\ inputs[c][0] = ListCommand /\ saved[c] = <<>>
        /\ inputs' = [inputs EXCEPT ![c][0] = Blank] /\ UNCHANGED <<step, browsing, cursor>>
     \/ /\ inputs[c][0] = ListCommand /\ saved[c] # <<>>
        /\ browsing' = [browsing EXCEPT ![c] = TRUE] /\ cursor' = [cursor EXCEPT ![c] = 0]
        /\ UNCHANGED <<step, inputs>>
     \/ /\ inputs[c][0] # ListCommand
        /\ inputs' = [inputs EXCEPT ![c] = SearchApplied(c)]
        /\ step' = [step EXCEPT ![c] = 1] /\ UNCHANGED <<browsing, cursor>>
  /\ UNCHANGED <<disk, phase, app, answers, starts, admits, granted>>

\* Enter in another field: the code of a known lobby connects at once.
Enter(c) ==
  LET h == Lookup(prof[c], inputs[c][1], inputs[c][2])
  IN /\ AtSetup(c, FALSE) /\ step[c] # 0
     /\ \/ step[c] = 1 /\ Advance(c) /\ UNCHANGED <<inputs, app>>
        \/ step[c] = 2 /\ h = Blank /\ Advance(c) /\ UNCHANGED <<inputs, app>>
        \/ step[c] = 2 /\ h # Blank /\ ConnectFromSetup(c, [inputs[c] EXCEPT ![3] = h]) /\ UNCHANGED step
        \/ step[c] = 3 /\ ConnectFromSetup(c, inputs[c]) /\ UNCHANGED step
     /\ UNCHANGED <<disk, browsing, cursor, answers, starts, admits, granted>>

\* An off-by-one at the end of the list.
BrowseTooFar(c) ==
  /\ AtSetup(c, TRUE)
  /\ cursor[c] < Len(saved[c]) /\ cursor' = [cursor EXCEPT ![c] = @ + 1]
  /\ UNCHANGED <<disk, phase, inputs, step, browsing, app, answers, starts, admits, granted>>

\* Up, Down and Escape in the list of saved lobbies.
Browse(c) ==
  /\ AtSetup(c, TRUE)
  /\ \/ /\ cursor[c] > 0 /\ cursor' = [cursor EXCEPT ![c] = @ - 1] /\ UNCHANGED <<inputs, browsing>>
     \/ /\ cursor[c] + 1 < Len(saved[c])
        /\ cursor' = [cursor EXCEPT ![c] = @ + 1] /\ UNCHANGED <<inputs, browsing>>
     \/ /\ browsing' = [browsing EXCEPT ![c] = FALSE]
        /\ inputs' = [inputs EXCEPT ![c][step[c]] = Blank] /\ UNCHANGED cursor
  /\ UNCHANGED <<disk, phase, step, app, answers, starts, admits, granted>>

\* Enter in the list connects to the chosen lobby.
Choose(c) ==
  /\ AtSetup(c, TRUE)
  /\ browsing' = [browsing EXCEPT ![c] = FALSE] /\ step' = [step EXCEPT ![c] = 2]
  /\ ConnectFromSetup(c, Filled(inputs[c], saved[c][cursor[c] + 1]))
  /\ UNCHANGED <<disk, cursor, answers, starts, admits, granted>>
-----------------------------------------------------------------------------
(* The chat, as far as it concerns the profile.                            *)

\* /back: the fields keep their texts.  Of the closed manager's events the
\* waiting command still brings one, which may be an answer.
Back(c) ==
  /\ phase[c] = "chat" /\ Idle(c)
  /\ phase' = [phase EXCEPT ![c] = "setup"] /\ step' = [step EXCEPT ![c] = 0]
  /\ browsing' = [browsing EXCEPT ![c] = FALSE]
  /\ \E n \in {k \in 0..1 : k <= Len(answers[c])} : answers' = [answers EXCEPT ![c] = SubSeq(@, 1, n)]
  /\ UNCHANGED <<disk, inputs, cursor, app, starts, admits, granted>>

\* The server admits the client, after resync or after a change of handle.
Admit(c) ==
  /\ phase[c] = "chat" /\ app[c].lobby # Blank /\ app[c].code # Blank /\ app[c].handle # Blank
  /\ admits < MaxAdmit /\ admits' = admits + 1
  /\ \E h \in Handle \ {Blank} : answers' = [answers EXCEPT ![c] = Append(@, h)]
  /\ UNCHANGED <<disk, phase, form, app, starts, granted>>

Granting(key, h) == [k \in DOMAIN latest \cup {key} |-> IF k = key THEN Clean(h) ELSE latest[k]]

\* The identity is remembered for the lobby in the form.
IdentifiedAsTyped(c) ==
  LET h == Head(answers[c])
      known == Remembered(prof[c].entries, KeyFor(inputs[c][1], inputs[c][2]), h)
  IN /\ answers[c] # <<>> /\ Idle(c) /\ prof[c] # NoProfile
     /\ answers' = [answers EXCEPT ![c] = Tail(@)]
     /\ app' = [app EXCEPT ![c].handle = h] /\ inputs' = [inputs EXCEPT ![c][3] = h]
     /\ latest' = Granting(KeyFor(app[c].lobby, app[c].code), h)
     /\ prof' = [prof EXCEPT ![c].entries = known] /\ saved' = [saved EXCEPT ![c] = Listed(known)]
     /\ writing' = [writing EXCEPT ![c] = "truncate"]
     /\ UNCHANGED <<file, phase, step, browsing, cursor, starts, admits, written>>

\* The case "identified" of handleWSEvent; after /back it may come while the
\* setup screen is shown.
Identified(c) ==
  LET h == Head(answers[c])
      key == KeyFor(app[c].lobby, app[c].code)
      known == Remembered(prof[c].entries, key, h)
  IN /\ answers[c] # <<>> /\ Idle(c)
     /\ answers' = [answers EXCEPT ![c] = Tail(@)]
     /\ app' = [app EXCEPT ![c].handle = h] /\ inputs' = [inputs EXCEPT ![c][3] = h]
     /\ \/ /\ prof[c] = NoProfile /\ UNCHANGED <<prof, saved, writing, latest>>
        \/ /\ prof[c] # NoProfile
           /\ latest' = Granting(key, h)
           /\ prof' = [prof EXCEPT ![c].entries = known] /\ saved' = [saved EXCEPT ![c] = Listed(known)]
           /\ writing' = [writing EXCEPT ![c] = "truncate"]
     /\ UNCHANGED <<file, phase, step, browsing, cursor, starts, admits, written>>

Next ==
  \E c \in Client :
    \/ SaveStep(c) \/ Start(c) \/ Quit(c) \/ Crash(c)
    \/ Type(c) \/ Tab(c) \/ EnterSearch(c) \/ Enter(c) \/ Browse(c) \/ Choose(c)
    \/ Back(c) \/ Admit(c) \/ Identified(c)

Spec == Init /\ [][Next]_vars
-----------------------------------------------------------------------------
(* Properties.                                                             *)

Key == {k \in Seq(Part) : Len(k) > 1}
Entry == [key : Key, handle : Text]
WholeProfile == [is : {"whole"}, token : 1..MaxStart, entries : Seq(Entry)]
OneEach(entries) == \A i, j \in DOMAIN entries : entries[i].key = entries[j].key => i = j
SavedLobby == [lobby : Text, code : Text, handle : Text]
IsGrant(f) == DOMAIN f \subseteq Key /\ \A k \in DOMAIN f : f[k] \in Text \ {Blank}

\* Every variable has its type; a key has one entry.
TypeOK ==
  /\ file \in {NoProfile, Torn} \cup WholeProfile /\ prof \in [Client -> {NoProfile} \cup WholeProfile]
  /\ writing \in [Client -> {"no", "truncate", "write"}] /\ saved \in [Client -> Seq(SavedLobby)]
  /\ phase \in [Client -> {"off", "setup", "chat"}] /\ app \in [Client -> [lobby : Text, code : Text, handle : Text]]
  /\ step \in [Client -> 0..3] /\ browsing \in [Client -> BOOLEAN] /\ cursor \in [Client -> Nat]
  /\ inputs \in [Client -> [0..3 -> Text]]
  /\ answers \in [Client -> Seq(Handle \ {Blank})] /\ starts \in 0..MaxStart /\ admits \in 0..MaxAdmit
  /\ IsGrant(latest) /\ IsGrant(written)
  /\ \A c \in Client : prof[c] # NoProfile => OneEach(prof[c].entries)
  /\ file.is = "whole" => OneEach(file.entries)

\* The entry under the cursor exists whenever Enter may choose it, also when
\* an answer that comes after /back replaces the list while it is shown.
CursorInList == \A c \in Client : browsing[c] => cursor[c] + 1 \in DOMAIN saved[c]

Holds(entries, grants) ==
  /\ {entries[i].key : i \in DOMAIN entries} = DOMAIN grants
  /\ \A i \in DOMAIN entries : entries[i].handle = grants[entries[i].key]

\* A client with a profile knows, for every key, the handle granted last, to
\* itself or to a client before it that could save it; the list it shows says
\* the same.  A file that can be read is never half of anything: it holds all
\* that was granted before the last Save that succeeded.  So it is however
\* Saves fail, and when the form shows another lobby by the time of the answer.
EntriesKept ==
  /\ \A c \in Client : prof[c] # NoProfile =>
       Holds(prof[c].entries, latest) /\ saved[c] = Listed(prof[c].entries)
  /\ file.is = "whole" => Holds(file.entries, written)

\* The device a client signs in with is the one the next client will read,
\* unless a write has left the file torn.
DeviceOnDisk ==
  \A c \in Client : prof[c] # NoProfile /\ Idle(c) =>
    \/ file = Torn
    \/ file.is = "whole" /\ file.token = prof[c].token

\* Whichever way the user leaves the setup screen, and however the lobby's
\* name was typed, a lobby whose grant the machine knows is joined under some
\* handle: with none, resync would send nothing.
KnownLobbyIsJoined ==
  \A c \in Client :
    LET a == app[c] IN
    /\ phase[c] = "chat" /\ prof[c] # NoProfile /\ a.lobby # Blank /\ a.code # Blank
    /\ KeyFor(a.lobby, a.code) \in DOMAIN latest
    => a.handle # Blank
=============================================================================
