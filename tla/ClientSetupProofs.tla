------------------------- MODULE ClientSetupProofs -------------------------
(***************************************************************************)
(* Proofs about ClientSetup.tla, for any clients, texts, configuration and *)
(* number of starts, with Saves that fail before the file is truncated and *)
(* after it, and crashes while the profile is saved.                       *)
(***************************************************************************)
EXTENDS ClientSetup, SequenceTheorems, WellFoundedInduction, TLAPS

\* The clients of the machine run one after the other, and one that does not
\* run holds nothing.
OneRuns == \A c, d \in Client : phase[c] # "off" /\ phase[d] # "off" => c = d
OffIsBlank ==
  \A c \in Client : phase[c] = "off" =>
    prof[c] = NoProfile /\ Idle(c) /\ ~browsing[c] /\ answers[c] = <<>> /\ step[c] = 0

SameDevice(c) == file = Torn \/ (file.is = "whole" /\ file.token = prof[c].token)

\* Save writes a profile, to a file it has truncated.  One with entries is of
\* the device of the file, or the file is torn.
Saving ==
  \A c \in Client : ~Idle(c) =>
    /\ prof[c] # NoProfile
    /\ writing[c] = "write" => file = Torn
    /\ prof[c].entries # <<>> => SameDevice(c)

\* While no client runs, the machine knows what was saved, which is nothing
\* before there is a file.
KnowsWhatIsSaved == (\A c \in Client : phase[c] = "off") => latest = written
NothingSaved == file = NoProfile => DOMAIN written = {}

DiskTypes ==
  /\ file \in {NoProfile, Torn} \cup WholeProfile /\ prof \in [Client -> {NoProfile} \cup WholeProfile]
  /\ writing \in [Client -> {"no", "truncate", "write"}] /\ saved \in [Client -> Seq(SavedLobby)]
  /\ \A c \in Client : prof[c] # NoProfile => OneEach(prof[c].entries)
  /\ file.is = "whole" => OneEach(file.entries)

\* The fields of the form.
Fields == [0..3 -> Text]
FormTypes ==
  /\ step \in [Client -> 0..3] /\ browsing \in [Client -> BOOLEAN] /\ cursor \in [Client -> Nat]
  /\ inputs \in [Client -> Fields]

ChatTypes ==
  /\ phase \in [Client -> {"off", "setup", "chat"}] /\ app \in [Client -> [lobby : Text, code : Text, handle : Text]]
  /\ answers \in [Client -> Seq(Handle \ {Blank})] /\ starts \in 0..MaxStart /\ admits \in 0..MaxAdmit
  /\ IsGrant(latest) /\ IsGrant(written)

\* The inductive invariant.
SetupInv ==
  /\ DiskTypes /\ FormTypes /\ ChatTypes
  /\ OneRuns /\ OffIsBlank /\ Saving /\ KnowsWhatIsSaved /\ NothingSaved
  /\ CursorInList /\ EntriesKept /\ DeviceOnDisk /\ KnownLobbyIsJoined
-----------------------------------------------------------------------------
(* Texts and keys.                                                         *)

LEMMA Texts ==
  /\ Query \cup Lobby \cup Code \cup Handle \subseteq Text /\ Blank \in Text /\ ListCommand \in Text
  /\ Config \in [lobby : Text, code : Text, handle : Text]
  /\ Lower \in [Part -> Part] /\ \A p \in Part : Lower[p] = Empty <=> p = Empty
BY ClientSetupAssumption DEF ClientSetupAssumption

LEMMA TextIsSeq ==
  ASSUME NEW t \in Text
  PROVE  t \in Seq(Part) /\ Len(t) \in Nat \ {0} /\ DOMAIN t = 1..Len(t) /\ \A i \in DOMAIN t : t[i] \in Part
<1>1. t \in Seq(Part) /\ t # <<>>
  BY DEF Text
<1> QED BY <1>1

\* In lower case, a text stays a text, and blank only if it was.
LEMMA CleanText ==
  ASSUME NEW t \in Text
  PROVE  Clean(t) \in Text /\ Len(Clean(t)) = Len(t) /\ (t # Blank => Clean(t) # Blank)
<1> DEFINE w == Clean(t)
<1>1. t \in Seq(Part) /\ Len(t) \in Nat \ {0} /\ DOMAIN t = 1..Len(t) /\ \A i \in DOMAIN t : t[i] \in Part
  BY TextIsSeq
<1>2. w = [i \in 1..Len(t) |-> Lower[t[i]]]
  BY <1>1 DEF Clean
<1>3. \A i \in 1..Len(t) : w[i] = Lower[t[i]] /\ w[i] \in Part
  BY <1>1, <1>2, Texts
<1>4. w \in Seq(Part) /\ Len(w) = Len(t) /\ DOMAIN w = 1..Len(t)
  BY <1>1, <1>2, <1>3
<1> HIDE DEF w
<1>5. w # <<>>
  BY <1>1, <1>4
<1>6. ASSUME w = Blank PROVE t = Blank
  <2>1. Len(w) = 1 /\ w[1] = Empty
    BY <1>6 DEF Blank
  <2>2. 1 \in DOMAIN t /\ Lower[t[1]] = Empty
    BY <1>1, <1>3, <1>4, <2>1
  <2>3. t[1] = Empty
    BY <1>1, <2>2, Texts
  <2>4. t = <<t[1]>>
    BY <1>1, <1>4, <2>1
  <2> QED BY <2>3, <2>4 DEF Blank
<1> QED BY <1>4, <1>5, <1>6 DEF Text, w

LEMMA KeyForIsKey ==
  ASSUME NEW lobby \in Text, NEW code \in Text
  PROVE  KeyFor(lobby, code) \in Key
<1> DEFINE a == Clean(lobby)
<1>1. a \in Text
  BY CleanText
<1> HIDE DEF a
<1>2. a \in Seq(Part) /\ code \in Seq(Part) /\ Len(a) \in Nat \ {0} /\ Len(code) \in Nat \ {0}
  BY <1>1, TextIsSeq
<1>3. a \o code \in Seq(Part) /\ Len(a \o code) = Len(a) + Len(code)
  BY <1>2, ConcatProperties
<1>4. Len(a \o code) > 1
  BY <1>2, <1>3
<1> QED BY <1>3, <1>4 DEF KeyFor, Key, a

\* What List makes of the entries.
LEMMA ListedType ==
  ASSUME NEW q \in Seq(Entry)
  PROVE  Listed(q) \in Seq(SavedLobby) /\ DOMAIN Listed(q) = DOMAIN q
<1> DEFINE l == Listed(q)
           At(i) == [lobby |-> <<Head(q[i].key)>>, code |-> Tail(q[i].key), handle |-> q[i].handle]
<1>1. DOMAIN q = 1..Len(q) /\ Len(q) \in Nat
  OBVIOUS
<1>2. l = [i \in 1..Len(q) |-> At(i)]
  BY <1>1 DEF Listed
<1>3. ASSUME NEW i \in 1..Len(q) PROVE At(i) \in SavedLobby
  <2>1. q[i] \in Entry
    BY <1>1, <1>3
  <2>2. q[i].key \in Seq(Part) /\ Len(q[i].key) > 1 /\ q[i].handle \in Text
    BY <2>1 DEF Entry, Key
  <2> DEFINE k == q[i].key
  <2>3. k \in Seq(Part) /\ Len(k) > 1 /\ Len(k) \in Nat
    BY <2>2
  <2> HIDE DEF k
  <2>4. Head(k) \in Part /\ Tail(k) \in Seq(Part) /\ Len(Tail(k)) = Len(k) - 1
    BY <2>3
  <2>5. Tail(k) # <<>>
    <3>1. Len(Tail(k)) # 0
      BY <2>3, <2>4
    <3> DEFINE t == Tail(k)
    <3>2. Len(t) # 0
      BY <3>1
    <3> HIDE DEF t
    <3>3. t # <<>>
      BY <3>2
    <3> QED BY <3>3 DEF t
  <2>6. <<Head(k)>> \in Text /\ Tail(k) \in Text
    BY <2>4, <2>5 DEF Text
  <2> QED BY <2>2, <2>6 DEF SavedLobby, k
<1> HIDE DEF At
<1>4. l \in Seq(SavedLobby)
  BY <1>1, <1>2, <1>3
<1>5. DOMAIN l = DOMAIN q
  BY <1>1, <1>2
<1> QED BY <1>4, <1>5
-----------------------------------------------------------------------------
(* The profile's entries.                                                  *)

LEMMA WithoutProperties ==
  ASSUME NEW q \in Seq(Entry), NEW i \in DOMAIN q
  PROVE  /\ Without(q, i) \in Seq(Entry) /\ Len(Without(q, i)) = Len(q) - 1
         /\ \A j \in DOMAIN Without(q, i) :
              /\ j < i => j \in DOMAIN q /\ Without(q, i)[j] = q[j]
              /\ j >= i => j + 1 \in DOMAIN q /\ Without(q, i)[j] = q[j + 1]
<1> DEFINE a == SubSeq(q, 1, i - 1)
           b == SubSeq(q, i + 1, Len(q))
<1>1. /\ DOMAIN q = 1..Len(q) /\ Len(q) \in Nat /\ i \in 1..Len(q)
  OBVIOUS
<1>2. /\ a \in Seq(Entry) /\ Len(a) = i - 1 /\ \A j \in 1..(i - 1) : a[j] = q[j]
  BY <1>1, SubSeqProperties
<1>3. /\ b \in Seq(Entry) /\ Len(b) = Len(q) - i /\ \A j \in 1..(Len(q) - i) : b[j] = q[i + j]
  <2>1. CASE i + 1 <= Len(q) + 1
    <3>1. b \in Seq(Entry) /\ Len(b) = Len(q) - (i + 1) + 1 /\ \A j \in 1..Len(b) : b[j] = q[i + 1 + j - 1]
      BY <1>1, <2>1, SubSeqProperties
    <3> HIDE DEF b
    <3> QED BY <1>1, <3>1
  <2> QED BY <1>1, <2>1
<1> HIDE DEF a, b
<1>4. /\ a \o b \in Seq(Entry) /\ Len(a \o b) = Len(a) + Len(b)
      /\ \A j \in 1..(Len(a) + Len(b)) : (a \o b)[j] = IF j <= Len(a) THEN a[j] ELSE b[j - Len(a)]
  BY <1>2, <1>3, ConcatProperties
<1> DEFINE w == Without(q, i)
<1>5. w = a \o b
  BY DEF Without, a, b
<1> HIDE DEF w
<1>6. w \in Seq(Entry) /\ Len(w) = Len(q) - 1
  <2>1. w \in Seq(Entry) /\ Len(w) = Len(a) + Len(b)
    BY Zenon, <1>4, <1>5
  <2> QED BY <1>1, <1>2, <1>3, <2>1
<1>7. ASSUME NEW j \in 1..(Len(q) - 1)
      PROVE  /\ j < i => j \in 1..Len(q) /\ w[j] = q[j]
             /\ j >= i => j + 1 \in 1..Len(q) /\ w[j] = q[j + 1]
  <2>1. Len(a) + Len(b) = Len(q) - 1 /\ Len(a) = i - 1
    BY <1>1, <1>2, <1>3
  <2>2. w[j] = IF j <= i - 1 THEN a[j] ELSE b[j - (i - 1)]
    <3>1. \A n \in 1..(Len(q) - 1) : (a \o b)[n] = IF n <= i - 1 THEN a[n] ELSE b[n - (i - 1)]
      BY <1>4, <2>1
    <3> QED BY <1>5, <3>1
  <2>3. CASE j < i
    BY <1>1, <1>2, <2>2, <2>3
  <2>4. CASE j >= i
    <3>1. j - (i - 1) \in 1..(Len(q) - i) /\ i + (j - (i - 1)) = j + 1
      BY <1>1, <2>4
    <3>2. w[j] = b[j - (i - 1)]
      BY <1>1, <2>2, <2>4
    <3> QED BY <1>1, <1>3, <2>4, <3>1, <3>2
  <2> QED BY <1>1, <2>3, <2>4
<1> QED BY <1>1, <1>6, <1>7 DEF w

\* Lookup finds a key's entry.
LEMMA HandleInIs ==
  ASSUME NEW q, OneEach(q), NEW i \in DOMAIN q
  PROVE  HandleIn(q, q[i].key) = q[i].handle
<1>1. EntryOf(q, q[i].key) = {i}
  BY DEF EntryOf, OneEach
<1> QED BY <1>1 DEF HandleIn

LEMMA HandleInNone ==
  ASSUME NEW q, NEW key, \A i \in DOMAIN q : q[i].key # key
  PROVE  HandleIn(q, key) = Blank
<1>1. EntryOf(q, key) = {}
  BY DEF EntryOf
<1> QED BY <1>1 DEF HandleIn

\* A profile that holds what was granted finds it.
LEMMA HandleInGrant ==
  ASSUME NEW q, OneEach(q), NEW grants, Holds(q, grants), NEW key
  PROVE  HandleIn(q, key) = IF key \in DOMAIN grants THEN grants[key] ELSE Blank
<1>1. CASE key \in DOMAIN grants
  <2>1. PICK i \in DOMAIN q : q[i].key = key
    BY <1>1 DEF Holds
  <2>2. HandleIn(q, key) = q[i].handle
    BY <2>1, HandleInIs
  <2> QED BY <1>1, <2>1, <2>2 DEF Holds
<1>2. CASE key \notin DOMAIN grants
  <2>1. \A i \in DOMAIN q : q[i].key # key
    BY <1>2 DEF Holds
  <2> QED BY <1>2, <2>1, HandleInNone
<1> QED BY <1>1, <1>2

\* The others of a list, when the entry at i is taken out.
LEMMA WithoutOthers ==
  ASSUME NEW q \in Seq(Entry), OneEach(q), NEW i \in DOMAIN q
  PROVE  /\ OneEach(Without(q, i))
         /\ \A j \in DOMAIN Without(q, i) : \E n \in DOMAIN q \ {i} : Without(q, i)[j] = q[n]
         /\ \A n \in DOMAIN q \ {i} : \E j \in DOMAIN Without(q, i) : Without(q, i)[j] = q[n]
<1> DEFINE w == Without(q, i)
<1>1. /\ w \in Seq(Entry) /\ Len(w) = Len(q) - 1
      /\ \A j \in DOMAIN w : /\ j < i => j \in DOMAIN q /\ w[j] = q[j]
                             /\ j >= i => j + 1 \in DOMAIN q /\ w[j] = q[j + 1]
  BY WithoutProperties
<1> HIDE DEF w
<1>2. /\ DOMAIN w = 1..(Len(q) - 1) /\ DOMAIN q = 1..Len(q) /\ Len(q) \in Nat /\ i \in 1..Len(q)
  BY <1>1
<1>3. ASSUME NEW j \in DOMAIN w
      PROVE  \E n \in DOMAIN q \ {i} : w[j] = q[n] /\ n = IF j < i THEN j ELSE j + 1
  BY <1>1, <1>2, <1>3
<1>4. ASSUME NEW j \in DOMAIN w, NEW k \in DOMAIN w, w[j].key = w[k].key
      PROVE  j = k
  <2>1. PICK n \in DOMAIN q \ {i} : w[j] = q[n] /\ n = IF j < i THEN j ELSE j + 1
    BY <1>3
  <2>2. PICK m \in DOMAIN q \ {i} : w[k] = q[m] /\ m = IF k < i THEN k ELSE k + 1
    BY <1>3
  <2>3. n = m
    BY <1>4, <2>1, <2>2 DEF OneEach
  <2> QED BY <1>2, <2>1, <2>2, <2>3
<1>5. ASSUME NEW n \in DOMAIN q \ {i} PROVE \E j \in DOMAIN w : w[j] = q[n]
  <2>1. CASE n < i
    <3>1. n \in DOMAIN w /\ w[n] = q[n]
      BY <1>1, <1>2, <2>1
    <3> QED BY <3>1
  <2>2. CASE n > i
    <3>1. n - 1 \in DOMAIN w /\ n - 1 >= i /\ (n - 1) + 1 = n
      BY <1>2, <2>2
    <3>2. w[n - 1] = q[n]
      BY <1>1, <3>1
    <3> QED BY <3>1, <3>2
  <2> QED BY <1>2, <2>1, <2>2
<1>6. OneEach(w)
  BY <1>4 DEF OneEach
<1> QED BY <1>3, <1>5, <1>6 DEF w

Granted(grants, key, h) == [k \in DOMAIN grants \cup {key} |-> IF k = key THEN h ELSE grants[k]]

\* Remember replaces one key's handle and leaves the others as they are.
LEMMA RememberedProperties ==
  ASSUME NEW q \in Seq(Entry), OneEach(q), NEW key \in Key, NEW h \in Text,
         NEW grants, Holds(q, grants)
  PROVE  LET r == Remembered(q, key, h) IN
         /\ r \in Seq(Entry) /\ OneEach(r) /\ Len(r) >= Len(q) /\ Len(r) >= 1
         /\ Holds(r, Granted(grants, key, Clean(h)))
<1> DEFINE old == EntryOf(q, key)
           e == [key |-> key, handle |-> Clean(h)]
           rest == IF old = {} THEN q ELSE Without(q, CHOOSE i \in old : TRUE)
           r == Remembered(q, key, h)
<1>1. r = <<e>> \o rest
  BY DEF Remembered
<1>2. e \in Entry /\ e.key = key /\ e.handle = Clean(h)
  BY CleanText DEF Entry
<1>3. /\ rest \in Seq(Entry) /\ OneEach(rest) /\ Len(rest) + 1 >= Len(q)
      /\ \A j \in DOMAIN rest : \E n \in DOMAIN q : rest[j] = q[n]
      /\ \A j \in DOMAIN rest : rest[j].key # key
      /\ \A n \in DOMAIN q : q[n].key # key => \E j \in DOMAIN rest : rest[j] = q[n]
  <2>1. old = {i \in DOMAIN q : q[i].key = key}
    BY DEF EntryOf
  <2>2. CASE old = {}
    <3>1. rest = q
      BY <2>2
    <3>2. \A n \in DOMAIN q : q[n].key # key
      BY <2>1, <2>2
    <3> HIDE DEF rest, old
    <3>3. Len(q) \in Nat
      OBVIOUS
    <3> QED BY <3>1, <3>2, <3>3
  <2>3. CASE old # {}
    <3>1. PICK i \in old : i = CHOOSE n \in old : TRUE
      BY <2>3
    <3>2. rest = Without(q, i)
      BY <2>3, <3>1
    <3>3. i \in DOMAIN q /\ q[i].key = key
      BY <2>1, <3>1
    <3>4. \A n \in DOMAIN q : q[n].key = key => n = i
      BY <3>3 DEF OneEach
    <3> HIDE DEF rest, old
    <3>5. rest \in Seq(Entry) /\ Len(rest) = Len(q) - 1
      BY <3>2, <3>3, WithoutProperties
    <3>6. /\ OneEach(rest)
          /\ \A j \in DOMAIN rest : \E n \in DOMAIN q \ {i} : rest[j] = q[n]
          /\ \A n \in DOMAIN q \ {i} : \E j \in DOMAIN rest : rest[j] = q[n]
      BY <3>2, <3>3, WithoutOthers
    <3>7. Len(q) \in Nat /\ Len(rest) \in Nat
      BY <3>5
    <3>8. ASSUME NEW j \in DOMAIN rest PROVE rest[j].key # key /\ \E n \in DOMAIN q : rest[j] = q[n]
      <4>1. PICK n \in DOMAIN q \ {i} : rest[j] = q[n]
        BY <3>6
      <4> QED BY <3>4, <4>1
    <3>9. ASSUME NEW n \in DOMAIN q, q[n].key # key PROVE \E j \in DOMAIN rest : rest[j] = q[n]
      BY <3>3, <3>6, <3>9
    <3>10. Len(rest) + 1 >= Len(q)
      BY <3>5, <3>7
    <3> QED BY <3>5, <3>6, <3>8, <3>9, <3>10
  <2> QED BY <2>2, <2>3
<1> HIDE DEF rest, old, e
<1>4. /\ r \in Seq(Entry) /\ Len(r) = Len(rest) + 1 /\ r[1] = e
      /\ \A j \in 1..Len(rest) : r[j + 1] = rest[j]
  <2>1. <<e>> \in Seq(Entry) /\ Len(<<e>>) = 1 /\ <<e>>[1] = e
    BY <1>2
  <2> DEFINE one == <<e>>
  <2> HIDE DEF one
  <2>2. one \in Seq(Entry) /\ Len(one) = 1 /\ one[1] = e
    BY <2>1 DEF one
  <2>3. /\ one \o rest \in Seq(Entry) /\ Len(one \o rest) = 1 + Len(rest)
        /\ \A j \in 1..(1 + Len(rest)) : (one \o rest)[j] = IF j <= 1 THEN one[j] ELSE rest[j - 1]
    <3>1. one \in Seq(Entry) /\ rest \in Seq(Entry)
      BY <1>3, <2>2
    <3>2. /\ one \o rest \in Seq(Entry) /\ Len(one \o rest) = Len(one) + Len(rest)
          /\ \A j \in 1..(Len(one) + Len(rest)) :
               (one \o rest)[j] = IF j <= Len(one) THEN one[j] ELSE rest[j - Len(one)]
      BY Zenon, <3>1, ConcatProperties
    <3> QED BY <2>2, <3>2
  <2>4. r = one \o rest
    BY <1>1 DEF one
  <2> HIDE DEF r
  <2>5. Len(rest) \in Nat
    BY <1>3
  <2> QED BY <2>2, <2>3, <2>4, <2>5
<1> HIDE DEF r
<1>5. DOMAIN r = 1..(Len(rest) + 1) /\ DOMAIN rest = 1..Len(rest) /\ Len(rest) \in Nat /\ Len(q) \in Nat
  BY <1>3, <1>4
<1>6. ASSUME NEW n \in DOMAIN r
      PROVE  (n = 1 /\ r[n] = e) \/ (n # 1 /\ n - 1 \in DOMAIN rest /\ r[n] = rest[n - 1])
  <2>1. CASE n # 1
    <3>1. n - 1 \in 1..Len(rest) /\ (n - 1) + 1 = n
      BY <1>5, <2>1
    <3>2. r[(n - 1) + 1] = rest[n - 1]
      BY <1>4, <3>1
    <3> QED BY <1>5, <2>1, <3>1, <3>2
  <2> QED BY <1>4, <2>1
<1>7. OneEach(r)
  <2> SUFFICES ASSUME NEW i \in DOMAIN r, NEW j \in DOMAIN r, r[i].key = r[j].key
               PROVE  i = j
    BY DEF OneEach
  <2>1. CASE i = 1 \/ j = 1
    BY <1>2, <1>3, <1>4, <1>6, <2>1
  <2>2. CASE i # 1 /\ j # 1
    <3>1. i - 1 = j - 1
      BY <1>3, <1>6, <2>2 DEF OneEach
    <3> QED BY <1>5, <3>1
  <2> QED BY <2>1, <2>2
<1>8. {r[i].key : i \in DOMAIN r} = {q[i].key : i \in DOMAIN q} \cup {key}
  <2>1. \A i \in DOMAIN r : r[i].key = key \/ \E n \in DOMAIN q : r[i].key = q[n].key
    BY <1>2, <1>3, <1>6
  <2>2. 1 \in DOMAIN r /\ r[1].key = key
    BY <1>2, <1>4, <1>5
  <2>3. ASSUME NEW n \in DOMAIN q PROVE \E i \in DOMAIN r : r[i].key = q[n].key
    <3>1. CASE q[n].key = key
      BY <2>2, <3>1
    <3>2. CASE q[n].key # key
      <4>1. PICK j \in DOMAIN rest : rest[j] = q[n]
        BY <1>3, <3>2
      <4>2. j + 1 \in DOMAIN r /\ r[j + 1] = q[n]
        BY <1>4, <1>5, <4>1
      <4> QED BY <4>2
    <3> QED BY <3>1, <3>2
  <2> QED BY <2>1, <2>2, <2>3
<1>9. Holds(r, Granted(grants, key, Clean(h)))
  <2> DEFINE g == Granted(grants, key, Clean(h))
  <2>1. DOMAIN g = DOMAIN grants \cup {key} /\ g[key] = Clean(h) /\ \A k \in DOMAIN grants : k # key => g[k] = grants[k]
    BY DEF Granted
  <2> HIDE DEF g
  <2>2. {r[i].key : i \in DOMAIN r} = DOMAIN g
    BY <1>8, <2>1 DEF Holds
  <2>3. ASSUME NEW i \in DOMAIN r PROVE r[i].handle = g[r[i].key]
    <3>1. CASE i = 1
      BY <1>2, <1>4, <2>1, <3>1
    <3>2. CASE i # 1
      <4>1. i - 1 \in DOMAIN rest /\ r[i] = rest[i - 1] /\ r[i].key # key
        BY <1>3, <1>6, <3>2
      <4>2. PICK n \in DOMAIN q : r[i] = q[n]
        BY <1>3, <4>1
      <4>3. q[n].key \in DOMAIN grants /\ q[n].handle = grants[q[n].key]
        BY DEF Holds
      <4> QED BY <2>1, <4>1, <4>2, <4>3
    <3> QED BY <3>1, <3>2
  <2>4. Holds(r, g)
    BY <2>2, <2>3 DEF Holds
  <2> QED BY <2>4 DEF g
<1>10. Len(r) >= Len(q) /\ Len(r) >= 1
  BY <1>3, <1>4, <1>5
<1> QED BY <1>4, <1>7, <1>9, <1>10 DEF r

\* What the client grants in Remember's step is a grant again.
LEMMA GrantingIsGrant ==
  ASSUME IsGrant(latest), NEW key \in Key, NEW h \in Text \ {Blank}
  PROVE  IsGrant(Granting(key, h)) /\ Granting(key, h) = Granted(latest, key, Clean(h))
<1>1. Granting(key, h) = Granted(latest, key, Clean(h))
  BY DEF Granting, Granted
<1>2. Clean(h) \in Text \ {Blank}
  BY CleanText
<1>3. IsGrant(Granted(latest, key, Clean(h)))
  BY <1>2 DEF IsGrant, Granted
<1> QED BY <1>1, <1>3

\* A search that finds something has a first hit.
LEMMA FirstHit ==
  ASSUME NEW S \in SUBSET Nat, S # {}
  PROVE  (CHOOSE i \in S : \A j \in S : i <= j) \in S
<1> DEFINE R == {p \in Nat \X Nat : p[1] < p[2]}
<1>1. R = OpToRel(<, Nat)
  BY DEF OpToRel
<1>2. IsWellFoundedOn(R, Nat)
  BY <1>1, NatLessThanWellFounded
<1> HIDE DEF R
<1>3. PICK i \in S : \A j \in S : ~(<<j, i>> \in R)
  BY <1>2, WFMin
<1>4. \A j \in S : i <= j
  <2> SUFFICES ASSUME NEW j \in S PROVE i <= j
    OBVIOUS
  <2>1. <<j, i>> \in R <=> j < i
    BY DEF R
  <2> QED BY <1>3, <2>1
<1> QED BY <1>3, <1>4
-----------------------------------------------------------------------------
(* The form.                                                               *)

LEMMA FieldTexts == \A i \in 0..3 : FieldText(i) \subseteq Text
<1> SUFFICES ASSUME NEW i \in 0..3 PROVE FieldText(i) \subseteq Text
  OBVIOUS
<1>1. i = 0 \/ i = 1 \/ i = 2 \/ i = 3
  OBVIOUS
<1> QED BY <1>1, Texts DEF FieldText

LEMMA FieldSet ==
  ASSUME NEW f \in Fields, NEW i \in 0..3, NEW t \in Text
  PROVE  LET g == [f EXCEPT ![i] = t] IN g \in Fields /\ g[i] = t /\ \A j \in 0..3 \ {i} : g[j] = f[j]
BY DEF Fields

LEMMA HandleInType ==
  ASSUME NEW q \in Seq(Entry), NEW key PROVE HandleIn(q, key) \in Text
<1>1. CASE EntryOf(q, key) = {}
  BY <1>1, Texts DEF HandleIn
<1>2. CASE EntryOf(q, key) # {}
  <2> DEFINE i == CHOOSE i \in EntryOf(q, key) : TRUE
  <2>1. i \in EntryOf(q, key)
    BY <1>2
  <2>2. i \in DOMAIN q
    BY <2>1 DEF EntryOf
  <2>3. HandleIn(q, key) = q[i].handle
    BY <1>2 DEF HandleIn
  <2> HIDE DEF i
  <2>4. q[i] \in Entry
    BY <2>2
  <2> QED BY <2>3, <2>4 DEF Entry
<1> QED BY <1>1, <1>2

LEMMA LookupType ==
  ASSUME NEW p \in {NoProfile} \cup WholeProfile, NEW l, NEW k
  PROVE  Lookup(p, l, k) \in Text
<1>1. p # NoProfile => p.entries \in Seq(Entry)
  BY DEF WholeProfile
<1>2. p # NoProfile => HandleIn(p.entries, KeyFor(l, k)) \in Text
  BY <1>1, HandleInType
<1> QED BY <1>2, Texts DEF Lookup

LEMMA PrefilledType ==
  ASSUME NEW p \in {NoProfile} \cup WholeProfile, NEW at, NEW f \in Fields
  PROVE  Prefilled(p, at, f) \in Fields
<1>1. Lookup(p, f[1], f[2]) \in Text
  BY LookupType
<1>2. [f EXCEPT ![3] = Lookup(p, f[1], f[2])] \in Fields
  BY <1>1, FieldSet
<1> QED BY <1>2 DEF Prefilled

LEMMA FilledType ==
  ASSUME NEW f \in Fields, NEW e \in SavedLobby
  PROVE  Filled(f, e) \in Fields
<1>1. e.lobby \in Text /\ e.code \in Text /\ e.handle \in Text
  BY DEF SavedLobby
<1> QED BY <1>1 DEF Filled, Fields

LEMMA SearchType ==
  ASSUME FormTypes, DiskTypes, NEW c \in Client PROVE SearchApplied(c) \in Fields
<1> DEFINE hits == {i \in DOMAIN saved[c] : <<Clean(inputs[c][0]), saved[c][i].lobby>> \in Matches}
           first == CHOOSE i \in hits : \A j \in hits : i <= j
<1>1. saved[c] \in Seq(SavedLobby) /\ inputs[c] \in Fields
  BY DEF FormTypes, DiskTypes
<1>2. hits \in SUBSET DOMAIN saved[c] /\ DOMAIN saved[c] \in SUBSET Nat
  BY <1>1
<1>3. SearchApplied(c) = IF Clean(inputs[c][0]) = Blank \/ hits = {} THEN inputs[c]
                         ELSE Filled(inputs[c], saved[c][first])
  BY DEF SearchApplied
<1>4. CASE hits # {}
  <2>1. first \in hits
    <3> HIDE DEF hits
    <3> QED BY <1>2, <1>4, FirstHit
  <2> HIDE DEF hits, first
  <2>2. saved[c][first] \in SavedLobby
    BY <1>1, <1>2, <2>1
  <2> QED BY <1>1, <1>3, <2>2, FilledType
<1> HIDE DEF hits, first
<1> QED BY <1>1, <1>3, <1>4
-----------------------------------------------------------------------------
(* Keys on the setup screen.                                               *)

LEMMA FormOnly ==
  ASSUME SetupInv, UNCHANGED <<disk, phase, app, answers, starts, admits, granted>>
  PROVE  /\ DiskTypes' /\ ChatTypes' /\ OneRuns' /\ Saving' /\ KnowsWhatIsSaved' /\ NothingSaved'
         /\ EntriesKept' /\ DeviceOnDisk' /\ KnownLobbyIsJoined'
<1>1. /\ file' = file /\ prof' = prof /\ writing' = writing /\ saved' = saved /\ phase' = phase
      /\ app' = app /\ answers' = answers /\ starts' = starts /\ admits' = admits
      /\ latest' = latest /\ written' = written
  BY DEF disk, granted
<1>2. DiskTypes' /\ ChatTypes' /\ OneRuns' /\ Saving' /\ KnowsWhatIsSaved' /\ NothingSaved'
  BY <1>1 DEF SetupInv, DiskTypes, ChatTypes, OneRuns, Saving, SameDevice, KnowsWhatIsSaved, NothingSaved, Idle
<1>3. EntriesKept' /\ DeviceOnDisk' /\ KnownLobbyIsJoined'
  BY <1>1 DEF SetupInv, EntriesKept, DeviceOnDisk, KnownLobbyIsJoined, Idle
<1> QED BY <1>2, <1>3

LEMMA SetInput ==
  ASSUME FormTypes, NEW c \in Client, NEW f \in Fields, inputs' = [inputs EXCEPT ![c] = f]
  PROVE  inputs' \in [Client -> Fields]
BY DEF FormTypes

LEMMA TypeStep ==
  ASSUME SetupInv, NEW c \in Client, Type(c) PROVE FormTypes' /\ CursorInList' /\ OffIsBlank'
<1>1. PICK t \in Text :
        inputs' = [inputs EXCEPT ![c] = Prefilled(prof[c], step[c], [inputs[c] EXCEPT ![step[c]] = t])]
  <2>1. step[c] \in 0..3
    BY DEF SetupInv, FormTypes
  <2>2. FieldText(step[c]) \subseteq Text
    BY <2>1, FieldTexts
  <2> QED BY Zenon, <2>2 DEF Type
<1>2. /\ inputs[c] \in Fields /\ step[c] \in 0..3 /\ prof[c] \in {NoProfile} \cup WholeProfile
      /\ inputs \in [Client -> Fields]
  BY DEF SetupInv, FormTypes, DiskTypes
<1>3. Prefilled(prof[c], step[c], [inputs[c] EXCEPT ![step[c]] = t]) \in Fields
  <2> DEFINE g == [inputs[c] EXCEPT ![step[c]] = t]
  <2>1. g \in Fields
    BY <1>2, FieldSet
  <2> HIDE DEF g
  <2>2. Prefilled(prof[c], step[c], g) \in Fields
    BY <1>2, <2>1, PrefilledType
  <2> QED BY <2>2 DEF g
<1>4. inputs' \in [Client -> Fields]
  BY <1>1, <1>3, SetInput DEF SetupInv
<1>5. UNCHANGED <<step, browsing, cursor, saved, phase, prof, writing, answers>>
  BY DEF Type, disk
<1>6. FormTypes' /\ CursorInList'
  BY <1>4, <1>5 DEF SetupInv, FormTypes, CursorInList
<1>7. OffIsBlank'
  BY <1>5 DEF SetupInv, OffIsBlank, Idle
<1> QED BY <1>6, <1>7

LEMMA TabStep ==
  ASSUME SetupInv, NEW c \in Client, Tab(c) PROVE FormTypes' /\ CursorInList' /\ OffIsBlank'
<1>1. PICK visible \in {3, 4}, delta \in {1, 2, 3} : step' = [step EXCEPT ![c] = (step[c] + delta) % visible]
  <2> DEFINE visible == IF step[c] >= 3 \/ inputs[c][3] # Blank THEN 4 ELSE 3
  <2>1. \E delta \in {1, visible - 1} : step' = [step EXCEPT ![c] = (step[c] + delta) % visible]
    BY Zenon DEF Tab
  <2>2. visible \in {3, 4} /\ {1, visible - 1} \subseteq {1, 2, 3}
    OBVIOUS
  <2> HIDE DEF visible
  <2> QED BY <2>1, <2>2
<1>6. phase[c] = "setup"
  BY DEF Tab, AtSetup
<1>2. step[c] \in 0..3 /\ step \in [Client -> 0..3]
  BY DEF SetupInv, FormTypes
<1>3. (step[c] + delta) % visible \in 0..3
  <2>1. visible = 3 \/ visible = 4
    OBVIOUS
  <2>2. step[c] + delta \in Int
    BY <1>2
  <2> QED BY <2>1, <2>2
<1>4. step' \in [Client -> 0..3] /\ \A d \in Client \ {c} : step'[d] = step[d]
  BY <1>1, <1>2, <1>3
<1>5. UNCHANGED <<inputs, browsing, cursor, saved, phase, prof, writing, answers>>
  BY DEF Tab, disk
<1> QED BY <1>6, <1>4, <1>5 DEF SetupInv, FormTypes, CursorInList, OffIsBlank, Idle

LEMMA EnterSearchStep ==
  ASSUME SetupInv, NEW c \in Client, EnterSearch(c) PROVE FormTypes' /\ CursorInList' /\ OffIsBlank'
<1>1. /\ inputs[c] \in Fields /\ inputs \in [Client -> Fields] /\ step \in [Client -> 0..3]
      /\ browsing \in [Client -> BOOLEAN] /\ cursor \in [Client -> Nat] /\ saved[c] \in Seq(SavedLobby)
  BY DEF SetupInv, FormTypes, DiskTypes
<1>2. UNCHANGED <<saved, phase, prof, writing, answers>> /\ phase[c] = "setup"
  BY DEF EnterSearch, disk, AtSetup
<1>3. CASE inputs' = [inputs EXCEPT ![c][0] = Blank] /\ UNCHANGED <<step, browsing, cursor>>
  <2>1. inputs' = [inputs EXCEPT ![c] = [inputs[c] EXCEPT ![0] = Blank]]
    BY <1>3
  <2>2. [inputs[c] EXCEPT ![0] = Blank] \in Fields
    BY <1>1, FieldSet, Texts
  <2>3. inputs' \in [Client -> Fields]
    BY <2>1, <2>2, SetInput DEF SetupInv
  <2> QED BY <1>2, <1>3, <2>3 DEF SetupInv, FormTypes, CursorInList, OffIsBlank, Idle
<1>4. CASE /\ saved[c] # <<>> /\ browsing' = [browsing EXCEPT ![c] = TRUE]
           /\ cursor' = [cursor EXCEPT ![c] = 0] /\ UNCHANGED <<step, inputs>>
  <2>1. 1 \in DOMAIN saved[c]
    BY <1>1, <1>4
  <2>2. FormTypes' /\ OffIsBlank'
    BY <1>1, <1>2, <1>4 DEF SetupInv, FormTypes, OffIsBlank, Idle
  <2>3. CursorInList'
    <3> SUFFICES ASSUME NEW d \in Client, browsing'[d] PROVE cursor'[d] + 1 \in DOMAIN saved[d]
      BY <1>2 DEF CursorInList
    <3> QED BY <1>1, <1>4, <2>1 DEF SetupInv, CursorInList
  <2> QED BY <2>2, <2>3
<1>5. CASE /\ inputs' = [inputs EXCEPT ![c] = SearchApplied(c)]
           /\ step' = [step EXCEPT ![c] = 1] /\ UNCHANGED <<browsing, cursor>>
  <2>1. inputs' \in [Client -> Fields]
    BY <1>5, SearchType, SetInput DEF SetupInv
  <2> QED BY <1>1, <1>2, <1>5, <2>1 DEF SetupInv, FormTypes, CursorInList, OffIsBlank, Idle
<1> QED BY <1>3, <1>4, <1>5 DEF EnterSearch

LEMMA BrowseStep ==
  ASSUME SetupInv, NEW c \in Client, Browse(c) PROVE FormTypes' /\ CursorInList' /\ OffIsBlank'
<1>1. /\ inputs[c] \in Fields /\ inputs \in [Client -> Fields] /\ step \in [Client -> 0..3]
      /\ browsing \in [Client -> BOOLEAN] /\ cursor \in [Client -> Nat] /\ saved[c] \in Seq(SavedLobby)
  BY DEF SetupInv, FormTypes, DiskTypes
<1>2. UNCHANGED <<saved, phase, prof, writing, answers, step>> /\ phase[c] = "setup" /\ browsing[c]
  BY DEF Browse, disk, AtSetup
<1>3. cursor[c] \in Nat /\ Len(saved[c]) \in Nat /\ DOMAIN saved[c] = 1..Len(saved[c])
  BY <1>1
<1>4. cursor[c] + 1 <= Len(saved[c])
  BY <1>2, <1>3 DEF SetupInv, CursorInList
<1>5. ASSUME NEW n \in Nat, n + 1 <= Len(saved[c]), cursor' = [cursor EXCEPT ![c] = n], UNCHANGED <<inputs, browsing>>
      PROVE  FormTypes' /\ CursorInList' /\ OffIsBlank'
  <2>1. CursorInList'
    <3> SUFFICES ASSUME NEW d \in Client, browsing'[d] PROVE cursor'[d] + 1 \in DOMAIN saved[d]
      BY <1>2 DEF CursorInList
    <3>1. CASE d = c
      BY <1>1, <1>3, <1>5, <3>1
    <3>2. CASE d # c
      BY <1>1, <1>5, <3>2 DEF SetupInv, CursorInList
    <3> QED BY <3>1, <3>2
  <2> QED BY <1>1, <1>2, <1>5, <2>1 DEF SetupInv, FormTypes, OffIsBlank, Idle
<1>6. CASE cursor[c] > 0 /\ cursor' = [cursor EXCEPT ![c] = @ - 1] /\ UNCHANGED <<inputs, browsing>>
  <2>1. cursor[c] - 1 \in Nat /\ (cursor[c] - 1) + 1 <= Len(saved[c])
    BY <1>3, <1>4, <1>6
  <2> QED BY <1>5, <1>6, <2>1
<1>7. CASE /\ cursor[c] + 1 < Len(saved[c]) /\ cursor' = [cursor EXCEPT ![c] = @ + 1]
           /\ UNCHANGED <<inputs, browsing>>
  <2>1. cursor[c] + 1 \in Nat /\ (cursor[c] + 1) + 1 <= Len(saved[c])
    BY <1>3, <1>7
  <2> QED BY <1>5, <1>7, <2>1
<1>8. CASE /\ browsing' = [browsing EXCEPT ![c] = FALSE]
           /\ inputs' = [inputs EXCEPT ![c][step[c]] = Blank] /\ UNCHANGED cursor
  <2>1. inputs' = [inputs EXCEPT ![c] = [inputs[c] EXCEPT ![step[c]] = Blank]]
    BY <1>8
  <2>2. [inputs[c] EXCEPT ![step[c]] = Blank] \in Fields
    BY <1>1, FieldSet, Texts
  <2>3. inputs' \in [Client -> Fields]
    BY <2>1, <2>2, SetInput DEF SetupInv
  <2> QED BY <1>1, <1>2, <1>8, <2>3 DEF SetupInv, FormTypes, CursorInList, OffIsBlank, Idle
<1> QED BY <1>6, <1>7, <1>8 DEF Browse

\* Whatever way the form is left, a lobby that is known is joined under a
\* handle.
LEMMA ConnectStep ==
  ASSUME SetupInv, NEW c \in Client, NEW fields \in Fields,
         phase[c] = "setup", ConnectFromSetup(c, fields),
         step' = step \/ step' = [step EXCEPT ![c] = 2],
         browsing' = browsing \/ browsing' = [browsing EXCEPT ![c] = FALSE],
         UNCHANGED <<disk, cursor, answers, starts, admits, granted>>
  PROVE  SetupInv'
<1> DEFINE h == IF fields[3] = Blank THEN Lookup(prof[c], fields[1], fields[2]) ELSE fields[3]
<1>1. /\ answers[c] = <<>> /\ phase' = [phase EXCEPT ![c] = "chat"]
      /\ app' = [app EXCEPT ![c] = [lobby |-> fields[1], code |-> fields[2], handle |-> h]]
      /\ inputs' = [inputs EXCEPT ![c] = [fields EXCEPT ![3] = h]]
  BY Zenon DEF ConnectFromSetup
<1>2. /\ file' = file /\ prof' = prof /\ writing' = writing /\ saved' = saved /\ cursor' = cursor
      /\ answers' = answers /\ starts' = starts /\ admits' = admits
      /\ latest' = latest /\ written' = written
  BY DEF disk, granted
<1>3. prof[c] \in {NoProfile} \cup WholeProfile
  BY DEF SetupInv, DiskTypes
<1>4. fields[1] \in Text /\ fields[2] \in Text /\ fields[3] \in Text
  BY DEF Fields
<1>5. h \in Text
  BY <1>3, <1>4, LookupType
<1> HIDE DEF h
<1>6. FormTypes'
  <2>1. [fields EXCEPT ![3] = h] \in Fields
    BY <1>5, FieldSet
  <2>2. inputs' \in [Client -> Fields]
    BY <1>1, <2>1, SetInput DEF SetupInv
  <2>3. step' \in [Client -> 0..3] /\ browsing' \in [Client -> BOOLEAN]
    <3>1. step \in [Client -> 0..3] /\ browsing \in [Client -> BOOLEAN]
      BY DEF SetupInv, FormTypes
    <3>2. [step EXCEPT ![c] = 2] \in [Client -> 0..3] /\ [browsing EXCEPT ![c] = FALSE] \in [Client -> BOOLEAN]
      BY <3>1
    <3> QED BY Zenon, <3>1, <3>2
  <2>4. cursor' \in [Client -> Nat]
    BY <1>2 DEF SetupInv, FormTypes
  <2> QED BY <2>2, <2>3, <2>4 DEF FormTypes
<1>7. DiskTypes' /\ ChatTypes'
  BY <1>1, <1>2, <1>4, <1>5 DEF SetupInv, DiskTypes, ChatTypes
<1>8. phase \in [Client -> {"off", "setup", "chat"}] /\ app \in [Client -> [lobby : Text, code : Text, handle : Text]]
  BY DEF SetupInv, ChatTypes
<1>9. \A d \in Client : /\ phase'[d] = "off" <=> phase[d] = "off"
                        /\ d # c => phase'[d] = phase[d] /\ app'[d] = app[d] /\ step'[d] = step[d]
                        /\ browsing'[d] => browsing[d]
  BY <1>1, <1>8 DEF SetupInv, FormTypes
<1>10. OneRuns' /\ OffIsBlank' /\ Saving' /\ KnowsWhatIsSaved' /\ NothingSaved'
  <2>1. OneRuns' /\ Saving' /\ KnowsWhatIsSaved' /\ NothingSaved'
    BY <1>2, <1>9 DEF SetupInv, OneRuns, Saving, SameDevice, KnowsWhatIsSaved, NothingSaved, Idle
  <2>2. OffIsBlank'
    <3> SUFFICES ASSUME NEW d \in Client, phase'[d] = "off"
                 PROVE  (prof[d] = NoProfile /\ writing[d] = "no" /\ ~browsing'[d] /\ answers[d] = <<>> /\ step'[d] = 0)
      BY <1>2 DEF OffIsBlank, Idle
    <3>1. d # c /\ phase[d] = "off"
      BY <1>9
    <3> QED BY <1>9, <3>1 DEF SetupInv, OffIsBlank, Idle
  <2> QED BY <2>1, <2>2
<1>12. CursorInList' /\ EntriesKept' /\ DeviceOnDisk'
  BY <1>2, <1>9 DEF SetupInv, CursorInList, EntriesKept, DeviceOnDisk, Idle
<1>13. KnownLobbyIsJoined'
  <2>1. ASSUME NEW d \in Client, d # c, phase'[d] = "chat", prof'[d] # NoProfile,
               app'[d].lobby # Blank, app'[d].code # Blank,
               KeyFor(app'[d].lobby, app'[d].code) \in DOMAIN latest'
        PROVE  app'[d].handle # Blank
    <3>1. phase[d] = "chat" /\ app'[d] = app[d] /\ prof[d] # NoProfile
      BY <1>2, <1>9, <2>1
    <3> QED BY <1>2, <2>1, <3>1 DEF SetupInv, KnownLobbyIsJoined
  <2>2. ASSUME prof[c] # NoProfile, fields[1] # Blank, fields[2] # Blank,
               KeyFor(fields[1], fields[2]) \in DOMAIN latest
        PROVE  h # Blank
    <3> DEFINE key == KeyFor(fields[1], fields[2])
    <3>1. Lookup(prof[c], fields[1], fields[2]) = HandleIn(prof[c].entries, key)
      BY <2>2 DEF Lookup
    <3>2. latest[key] # Blank
      BY <2>2 DEF SetupInv, ChatTypes, IsGrant
    <3>3. key \in DOMAIN latest
      BY <2>2
    <3> HIDE DEF key
    <3>4. OneEach(prof[c].entries) /\ Holds(prof[c].entries, latest)
      BY <2>2 DEF SetupInv, DiskTypes, EntriesKept
    <3>5. HandleIn(prof[c].entries, key) = latest[key]
      BY <3>3, <3>4, HandleInGrant
    <3> QED BY <3>1, <3>2, <3>5 DEF h
  <2>3. app'[c] = [lobby |-> fields[1], code |-> fields[2], handle |-> h]
    BY <1>1, <1>8
  <2>4. ASSUME prof'[c] # NoProfile, app'[c].lobby # Blank, app'[c].code # Blank,
               KeyFor(app'[c].lobby, app'[c].code) \in DOMAIN latest'
        PROVE  app'[c].handle # Blank
    BY <1>2, <2>2, <2>3, <2>4
  <2> QED BY <2>1, <2>4 DEF KnownLobbyIsJoined
<1> QED BY <1>6, <1>7, <1>10, <1>12, <1>13 DEF SetupInv

LEMMA EnterStep ==
  ASSUME SetupInv, NEW c \in Client, Enter(c) PROVE SetupInv'
<1> DEFINE h == Lookup(prof[c], inputs[c][1], inputs[c][2])
<1>1. /\ AtSetup(c, FALSE) /\ step[c] # 0
      /\ \/ step[c] = 1 /\ Advance(c) /\ UNCHANGED <<inputs, app>>
         \/ step[c] = 2 /\ h = Blank /\ Advance(c) /\ UNCHANGED <<inputs, app>>
         \/ step[c] = 2 /\ h # Blank /\ ConnectFromSetup(c, [inputs[c] EXCEPT ![3] = h]) /\ UNCHANGED step
         \/ step[c] = 3 /\ ConnectFromSetup(c, inputs[c]) /\ UNCHANGED step
      /\ UNCHANGED <<disk, browsing, cursor, answers, starts, admits, granted>>
  BY Zenon DEF Enter
<1>2. inputs[c] \in Fields /\ prof[c] \in {NoProfile} \cup WholeProfile
  BY DEF SetupInv, FormTypes, DiskTypes
<1>3. h \in Text
  BY <1>2, LookupType
<1>4. phase[c] = "setup"
  BY <1>1 DEF AtSetup
<1>5. [inputs[c] EXCEPT ![3] = h] \in Fields
  BY <1>2, <1>3, FieldSet
<1> DEFINE g == [inputs[c] EXCEPT ![3] = h]
<1>6. CASE ConnectFromSetup(c, g) /\ UNCHANGED step
  <2>1. g \in Fields
    BY <1>5
  <2> HIDE DEF g
  <2> QED BY <1>1, <1>4, <1>6, <2>1, ConnectStep
<1>7. CASE ConnectFromSetup(c, inputs[c]) /\ UNCHANGED step
  BY <1>1, <1>2, <1>4, <1>7, ConnectStep
<1>8. CASE step[c] \in {1, 2} /\ Advance(c) /\ UNCHANGED <<inputs, app>>
  <2>1. UNCHANGED <<disk, phase, app, answers, starts, admits, granted>>
    BY <1>1, <1>8 DEF Advance
  <2>2. step \in [Client -> 0..3] /\ step' = [step EXCEPT ![c] = @ + 1]
    BY <1>8 DEF Advance, SetupInv, FormTypes
  <2>3. step' \in [Client -> 0..3] /\ \A d \in Client \ {c} : step'[d] = step[d]
    BY <1>8, <2>2
  <2>4. FormTypes'
    BY <1>1, <1>8, <2>3 DEF SetupInv, FormTypes
  <2>5. CursorInList' /\ OffIsBlank'
    BY <1>1, <1>4, <2>1, <2>3 DEF SetupInv, CursorInList, OffIsBlank, Idle, disk
  <2> QED BY <2>1, <2>4, <2>5, FormOnly DEF SetupInv
<1> HIDE DEF h
<1> QED BY <1>1, <1>6, <1>7, <1>8

LEMMA ChooseStep ==
  ASSUME SetupInv, NEW c \in Client, Choose(c) PROVE SetupInv'
<1> DEFINE e == saved[c][cursor[c] + 1]
           f == Filled(inputs[c], e)
<1>1. /\ phase[c] = "setup" /\ browsing[c] = TRUE /\ browsing' = [browsing EXCEPT ![c] = FALSE]
      /\ step' = [step EXCEPT ![c] = 2] /\ ConnectFromSetup(c, f)
      /\ UNCHANGED <<disk, cursor, answers, starts, admits, granted>>
  BY Zenon DEF Choose, AtSetup
<1>2. e \in SavedLobby
  <2>1. saved[c] \in Seq(SavedLobby) /\ cursor[c] + 1 \in DOMAIN saved[c]
    BY <1>1 DEF SetupInv, DiskTypes, CursorInList
  <2> QED BY <2>1
<1> HIDE DEF e
<1>3. f \in Fields
  BY <1>2, FilledType DEF SetupInv, FormTypes
<1> HIDE DEF f
<1> QED BY <1>1, <1>3, ConnectStep
-----------------------------------------------------------------------------
(* Writing the profile.                                                    *)

LEMMA FileIs ==
  ASSUME NEW f \in {NoProfile, Torn} \cup WholeProfile
  PROVE  /\ f.is = "whole" <=> f \in WholeProfile
         /\ f.is = "absent" <=> f = NoProfile
         /\ NoProfile # Torn /\ NoProfile \notin WholeProfile /\ Torn \notin WholeProfile
         /\ Torn.is = "torn" /\ NoProfile.is = "absent"
<1>1. NoProfile.is = "absent" /\ Torn.is = "torn"
  BY DEF NoProfile, Torn
<1>2. \A w \in WholeProfile : w.is = "whole"
  BY DEF WholeProfile
<1> QED BY <1>1, <1>2

LEMMA RunningAlone ==
  ASSUME SetupInv, NEW c \in Client, phase[c] # "off", NEW d \in Client, d # c
  PROVE  phase[d] = "off" /\ prof[d] = NoProfile /\ writing[d] = "no" /\ ~browsing[d] /\ answers[d] = <<>>
BY DEF SetupInv, OneRuns, OffIsBlank, Idle

LEMMA SaveStepKeeps ==
  ASSUME SetupInv, NEW c \in Client, SaveStep(c) PROVE SetupInv'
<1> DEFINE Truncates == /\ writing[c] = "truncate" /\ file' = Torn /\ writing' = [writing EXCEPT ![c] = "write"]
                        /\ prof' = prof /\ written' = written
           Writes    == /\ writing[c] = "write" /\ file' = prof[c] /\ writing' = [writing EXCEPT ![c] = "no"]
                        /\ written' = latest /\ (prof' = prof \/ prof' = GivenUp(c))
           Fails     == /\ writing[c] # "no" /\ prof' = GivenUp(c) /\ writing' = [writing EXCEPT ![c] = "no"]
                        /\ file' = file /\ written' = written
<1>1. Truncates \/ Writes \/ Fails
  BY DEF SaveStep
<1>2. /\ saved' = saved /\ phase' = phase /\ inputs' = inputs /\ step' = step /\ browsing' = browsing
      /\ cursor' = cursor /\ app' = app /\ answers' = answers /\ starts' = starts /\ admits' = admits
      /\ latest' = latest
  BY DEF SaveStep, form
<1>3. /\ file \in {NoProfile, Torn} \cup WholeProfile /\ prof \in [Client -> {NoProfile} \cup WholeProfile]
      /\ writing \in [Client -> {"no", "truncate", "write"}]
      /\ \A d \in Client : prof[d] # NoProfile => OneEach(prof[d].entries)
  BY DEF SetupInv, DiskTypes
<1>4. phase[c] # "off" /\ prof[c] # NoProfile /\ prof[c] \in WholeProfile
  BY <1>1, <1>3 DEF SetupInv, OffIsBlank, Saving, Idle
<1>5. NoProfile # Torn /\ NoProfile \notin WholeProfile /\ Torn \notin WholeProfile /\ prof[c].is = "whole" /\ Torn.is = "torn"
  BY <1>4, FileIs
<1>6. /\ \A d \in Client : prof'[d] # NoProfile => prof'[d] = prof[d]
      /\ \A d \in Client \ {c} : prof'[d] = prof[d] /\ writing'[d] = writing[d]
      /\ prof' \in [Client -> {NoProfile} \cup WholeProfile]
      /\ writing' \in [Client -> {"no", "truncate", "write"}]
      /\ prof'[c] # NoProfile /\ Fails => prof[c].entries # <<>>
  <2>1. [prof EXCEPT ![c] = NoProfile] \in [Client -> {NoProfile} \cup WholeProfile]
    BY <1>3
  <2>2. prof' = prof \/ prof' = [prof EXCEPT ![c] = NoProfile]
    BY <1>1 DEF GivenUp
  <2>3. writing' = [writing EXCEPT ![c] = "no"] \/ writing' = [writing EXCEPT ![c] = "write"]
    BY <1>1
  <2>4. CASE prof' = prof
    BY <1>3, <2>3, <2>4 DEF GivenUp
  <2>5. CASE prof' = [prof EXCEPT ![c] = NoProfile]
    BY <1>3, <2>3, <2>5
  <2> QED BY <2>2, <2>4, <2>5
<1>7. \/ /\ writing[c] = "truncate" /\ file' = Torn /\ writing'[c] = "write" /\ prof'[c] = prof[c]
         /\ written' = written
      \/ writing[c] = "write" /\ file' = prof[c] /\ writing'[c] = "no" /\ written' = latest
      \/ /\ writing[c] # "no" /\ file' = file /\ writing'[c] = "no" /\ written' = written
         /\ prof'[c] # NoProfile => prof[c].entries # <<>>
  BY <1>1, <1>3, <1>6
<1> HIDE DEF Truncates, Writes, Fails
<1>8. DiskTypes'
  <2>1. file' \in {NoProfile, Torn} \cup WholeProfile /\ (file'.is = "whole" => OneEach(file'.entries))
    BY <1>3, <1>4, <1>5, <1>7 DEF SetupInv, DiskTypes
  <2>2. \A d \in Client : prof'[d] # NoProfile => OneEach(prof'[d].entries)
    BY <1>3, <1>6
  <2> QED BY <1>2, <1>6, <2>1, <2>2 DEF SetupInv, DiskTypes
<1>9. FormTypes' /\ ChatTypes' /\ OneRuns' /\ KnowsWhatIsSaved' /\ CursorInList'
  <2>1. written' = written \/ written' = latest
    BY <1>7
  <2>2. IsGrant(written)'
    BY <2>1 DEF SetupInv, ChatTypes, IsGrant
  <2>3. ~ \A d \in Client : phase'[d] = "off"
    BY <1>2, <1>4
  <2> QED BY <1>2, <2>2, <2>3 DEF SetupInv, FormTypes, ChatTypes, OneRuns, KnowsWhatIsSaved, CursorInList, IsGrant
<1>10. OffIsBlank'
  BY <1>2, <1>4, <1>6 DEF SetupInv, OffIsBlank, Idle
<1>11. Saving'
  <2> SUFFICES ASSUME NEW d \in Client, writing'[d] # "no"
               PROVE  /\ prof'[d] # NoProfile /\ (writing'[d] = "write" => file' = Torn)
                      /\ (file' = Torn \/ (file'.is = "whole" /\ file'.token = prof'[d].token))
    BY DEF Saving, SameDevice, Idle
  <2>1. CASE d = c
    BY <1>4, <1>7, <2>1
  <2>2. CASE d # c
    BY <1>4, <1>6, <2>2, RunningAlone
  <2> QED BY <2>1, <2>2
<1>12. NothingSaved'
  BY <1>4, <1>5, <1>7 DEF SetupInv, NothingSaved
<1>13. EntriesKept'
  <2>1. \A d \in Client : prof'[d] # NoProfile =>
          Holds(prof[d].entries, latest) /\ saved[d] = Listed(prof[d].entries)
    BY <1>6 DEF SetupInv, EntriesKept
  <2>2. ASSUME NEW d \in Client, prof'[d] # NoProfile
        PROVE  Holds(prof'[d].entries, latest') /\ saved'[d] = Listed(prof'[d].entries)
    <3>1. /\ prof'[d] = prof[d] /\ Holds(prof[d].entries, latest) /\ saved[d] = Listed(prof[d].entries)
      BY <1>6, <2>1, <2>2
    <3> QED BY <1>2, <3>1
  <2>3. ASSUME file'.is = "whole" PROVE Holds(file'.entries, written')
    <3>1. CASE file' = prof[c] /\ written' = latest
      BY <1>4, <3>1 DEF SetupInv, EntriesKept
    <3>2. CASE file' = file /\ written' = written
      BY <2>3, <3>2 DEF SetupInv, EntriesKept
    <3> QED BY <1>5, <1>7, <2>3, <3>1, <3>2
  <2> QED BY <2>2, <2>3 DEF EntriesKept
<1>14. DeviceOnDisk'
  <2> SUFFICES ASSUME NEW d \in Client, prof'[d] # NoProfile, writing'[d] = "no"
               PROVE  (file' = Torn \/ (file'.is = "whole" /\ file'.token = prof'[d].token))
    BY DEF DeviceOnDisk, Idle
  <2>1. d = c /\ prof'[c] = prof[c]
    BY <1>4, <1>6, RunningAlone
  <2>2. prof[c].entries # <<>> /\ writing[c] # "no" =>
          file = Torn \/ (file.is = "whole" /\ file.token = prof[c].token)
    BY DEF SetupInv, Saving, SameDevice, Idle
  <2> QED BY <1>5, <1>7, <2>1, <2>2
<1>15. KnownLobbyIsJoined'
  BY <1>2, <1>6 DEF SetupInv, KnownLobbyIsJoined
<1> QED BY <1>8, <1>9, <1>10, <1>11, <1>12, <1>13, <1>14, <1>15 DEF SetupInv
-----------------------------------------------------------------------------
(* Starting a client, and its end.                                         *)

LEMMA GoneKeeps ==
  ASSUME SetupInv, NEW c \in Client, Gone(c), phase[c] # "off" PROVE SetupInv'
<1>1. /\ phase' = [phase EXCEPT ![c] = "off"] /\ prof' = [prof EXCEPT ![c] = NoProfile]
      /\ writing' = [writing EXCEPT ![c] = "no"] /\ saved' = [saved EXCEPT ![c] = <<>>]
      /\ inputs' = [inputs EXCEPT ![c] = [i \in 0..3 |-> Blank]] /\ step' = [step EXCEPT ![c] = 0]
      /\ browsing' = [browsing EXCEPT ![c] = FALSE] /\ cursor' = [cursor EXCEPT ![c] = 0]
      /\ app' = [app EXCEPT ![c] = NoApp] /\ answers' = [answers EXCEPT ![c] = <<>>]
      /\ file' = file /\ starts' = starts /\ admits' = admits
      /\ latest' = written /\ written' = written
  BY DEF Gone
<1>2. DiskTypes'
  BY <1>1 DEF SetupInv, DiskTypes
<1>3. FormTypes'
  <2> DEFINE f == [i \in 0..3 |-> Blank]
  <2>1. f \in Fields
    BY Texts DEF Fields
  <2> HIDE DEF f
  <2>2. inputs' = [inputs EXCEPT ![c] = f]
    BY <1>1 DEF f
  <2>3. inputs' \in [Client -> Fields]
    BY <2>1, <2>2, SetInput DEF SetupInv
  <2> QED BY <1>1, <2>3 DEF SetupInv, FormTypes
<1>4. ChatTypes'
  <2>1. NoApp \in [lobby : Text, code : Text, handle : Text]
    BY Texts DEF NoApp
  <2>2. app' \in [Client -> [lobby : Text, code : Text, handle : Text]]
    BY <1>1, <2>1 DEF SetupInv, ChatTypes
  <2>3. phase' \in [Client -> {"off", "setup", "chat"}] /\ answers' \in [Client -> Seq(Handle \ {Blank})]
    BY <1>1 DEF SetupInv, ChatTypes
  <2> QED BY <1>1, <2>2, <2>3 DEF SetupInv, ChatTypes
<1>5. \A d \in Client : d # c =>
        /\ phase'[d] = phase[d] /\ prof'[d] = prof[d] /\ writing'[d] = writing[d] /\ saved'[d] = saved[d]
        /\ step'[d] = step[d] /\ browsing'[d] = browsing[d] /\ cursor'[d] = cursor[d]
        /\ app'[d] = app[d] /\ answers'[d] = answers[d]
  BY <1>1 DEF SetupInv, DiskTypes, FormTypes, ChatTypes
<1>6. /\ phase'[c] = "off" /\ prof'[c] = NoProfile /\ writing'[c] = "no" /\ ~browsing'[c]
      /\ answers'[c] = <<>> /\ step'[c] = 0
  BY <1>1 DEF SetupInv, DiskTypes, FormTypes, ChatTypes
<1>7. \A d \in Client : phase'[d] = "off" /\ prof'[d] = NoProfile /\ writing'[d] = "no"
  BY <1>5, <1>6, RunningAlone
<1>8. OneRuns' /\ OffIsBlank' /\ Saving' /\ KnowsWhatIsSaved' /\ NothingSaved' /\ CursorInList'
  <2>1. OneRuns' /\ Saving' /\ KnowsWhatIsSaved'
    BY <1>1, <1>7 DEF OneRuns, Saving, KnowsWhatIsSaved, Idle
  <2>2. OffIsBlank'
    BY <1>5, <1>6 DEF SetupInv, OffIsBlank, Idle
  <2>3. NothingSaved'
    BY <1>1 DEF SetupInv, NothingSaved
  <2>4. CursorInList'
    BY <1>5, <1>6 DEF SetupInv, CursorInList
  <2> QED BY <2>1, <2>2, <2>3, <2>4
<1>9. EntriesKept' /\ DeviceOnDisk' /\ KnownLobbyIsJoined'
  <2>1. EntriesKept'
    BY <1>1, <1>7 DEF SetupInv, EntriesKept
  <2>2. DeviceOnDisk' /\ KnownLobbyIsJoined'
    BY <1>7 DEF DeviceOnDisk, KnownLobbyIsJoined
  <2> QED BY <2>1, <2>2
<1> QED BY <1>2, <1>3, <1>4, <1>8, <1>9 DEF SetupInv

LEMMA ConfigFieldsType == ConfigFields \in Fields
<1>1. \A i \in 0..3 : ConfigFields[i] \in Text
  <2> SUFFICES ASSUME NEW i \in 0..3 PROVE ConfigFields[i] \in Text
    OBVIOUS
  <2>1. i = 0 \/ i = 1 \/ i = 2 \/ i = 3
    OBVIOUS
  <2> QED BY <2>1, Texts DEF ConfigFields
<1>2. ConfigFields = [i \in 0..3 |-> ConfigFields[i]]
  BY DEF ConfigFields
<1> HIDE DEF ConfigFields
<1> QED BY <1>1, <1>2 DEF Fields

LEMMA StartStep ==
  ASSUME SetupInv, NEW c \in Client, Start(c) PROVE SetupInv'
<1> DEFINE new == Profile(starts + 1, <<>>)
           list == IF prof'[c] = NoProfile THEN <<>> ELSE Listed(prof'[c].entries)
<1>1. /\ phase = [d \in Client |-> "off"] /\ starts < MaxStart
      /\ phase' = [phase EXCEPT ![c] = "setup"] /\ starts' = starts + 1
      /\ saved' = [saved EXCEPT ![c] = list]
      /\ inputs' = [inputs EXCEPT ![c] = Prefilled(prof'[c], step[c], ConfigFields)]
      /\ file' = file /\ step' = step /\ browsing' = browsing /\ cursor' = cursor /\ app' = app
      /\ answers' = answers /\ admits' = admits /\ latest' = latest /\ written' = written
  BY Zenon DEF Start, granted
<1>2. \A d \in Client : prof[d] = NoProfile /\ writing[d] = "no" /\ ~browsing[d] /\ answers[d] = <<>> /\ step[d] = 0
  BY <1>1 DEF SetupInv, OffIsBlank, Idle
<1>3. /\ file \in {NoProfile, Torn} \cup WholeProfile /\ prof \in [Client -> {NoProfile} \cup WholeProfile]
      /\ writing \in [Client -> {"no", "truncate", "write"}] /\ saved \in [Client -> Seq(SavedLobby)]
      /\ starts \in 0..MaxStart /\ MaxStart \in Nat
  BY ClientSetupAssumption DEF SetupInv, DiskTypes, ChatTypes, ClientSetupAssumption
<1>4. new \in WholeProfile /\ new.entries = <<>>
  <2>1. starts + 1 \in 1..MaxStart
    BY <1>1, <1>3
  <2> QED BY <2>1 DEF Profile, WholeProfile
<1> HIDE DEF new
<1>5. \/ file \in WholeProfile /\ prof'[c] = file /\ writing'[c] = "no"
      \/ file = Torn /\ prof'[c] = NoProfile /\ writing'[c] = "no"
      \/ file = NoProfile /\ prof'[c] = new /\ writing'[c] = "truncate"
  <2>1. \/ file.is = "whole" /\ prof' = [prof EXCEPT ![c] = file] /\ writing' = writing
        \/ file = Torn       /\ prof' = [prof EXCEPT ![c] = NoProfile] /\ writing' = writing
        \/ file.is = "absent" /\ prof' = [prof EXCEPT ![c] = new] /\ writing' = [writing EXCEPT ![c] = "truncate"]
    BY Zenon DEF Start, Open, new
  <2>2. (file.is = "whole" => file \in WholeProfile) /\ (file.is = "absent" => file = NoProfile)
    BY <1>3, FileIs
  <2> QED BY <1>2, <1>3, <2>1, <2>2
<1>6. /\ prof' \in [Client -> {NoProfile} \cup WholeProfile] /\ writing' \in [Client -> {"no", "truncate", "write"}]
      /\ \A d \in Client : d # c => prof'[d] = prof[d] /\ writing'[d] = writing[d]
  <2>1. /\ prof' = [prof EXCEPT ![c] = file] \/ prof' = [prof EXCEPT ![c] = NoProfile] \/ prof' = [prof EXCEPT ![c] = new]
        /\ writing' = writing \/ writing' = [writing EXCEPT ![c] = "truncate"]
    BY Zenon DEF Start, Open, new
  <2>2. prof'[c] \in {NoProfile} \cup WholeProfile /\ prof' = [prof EXCEPT ![c] = prof'[c]]
    BY <1>3, <1>4, <1>5, <2>1
  <2>3. writing' \in [Client -> {"no", "truncate", "write"}] /\ \A d \in Client : d # c => writing'[d] = writing[d]
    BY <1>3, <2>1
  <2>4. prof' \in [Client -> {NoProfile} \cup WholeProfile] /\ \A d \in Client : d # c => prof'[d] = prof[d]
    <3> DEFINE p == prof'[c]
    <3>1. p \in {NoProfile} \cup WholeProfile /\ prof' = [prof EXCEPT ![c] = p]
      BY <2>2
    <3> HIDE DEF p
    <3> QED BY <1>3, <3>1
  <2> QED BY <2>3, <2>4
<1>7. NoProfile # Torn /\ NoProfile \notin WholeProfile /\ Torn \notin WholeProfile /\ \A w \in WholeProfile : w.is = "whole"
  BY <1>3, FileIs
<1>8. prof'[c] \in WholeProfile =>
        Holds(prof'[c].entries, latest) /\ OneEach(prof'[c].entries) /\ prof'[c].entries \in Seq(Entry)
  <2>1. latest = written
    BY <1>1 DEF SetupInv, KnowsWhatIsSaved
  <2>2. ASSUME file \in WholeProfile PROVE Holds(file.entries, latest)
    BY <1>7, <2>1, <2>2 DEF SetupInv, EntriesKept
  <2>3. ASSUME file = NoProfile PROVE Holds(<<>>, latest)
    BY <2>1, <2>3 DEF SetupInv, NothingSaved, Holds
  <2>4. file \in WholeProfile => OneEach(file.entries) /\ file.entries \in Seq(Entry)
    BY <1>7 DEF SetupInv, DiskTypes, WholeProfile
  <2>5. OneEach(<<>>) /\ <<>> \in Seq(Entry)
    BY DEF OneEach
  <2> QED BY <1>4, <1>5, <1>7, <2>2, <2>3, <2>4, <2>5
<1>9. list \in Seq(SavedLobby)
  <2>1. CASE prof'[c] = NoProfile
    BY <2>1
  <2>2. CASE prof'[c] \in WholeProfile
    BY <1>7, <1>8, <2>2, ListedType
  <2> QED BY <1>6, <2>1, <2>2
<1>10. DiskTypes'
  <2>1. \A d \in Client : prof'[d] # NoProfile => OneEach(prof'[d].entries)
    BY <1>2, <1>5, <1>6, <1>7, <1>8
  <2>2. saved' \in [Client -> Seq(SavedLobby)]
    <3> HIDE DEF list
    <3> QED BY <1>1, <1>3, <1>9
  <2> QED BY <1>1, <1>6, <2>1, <2>2 DEF SetupInv, DiskTypes
<1>11. FormTypes'
  <2> DEFINE f == Prefilled(prof'[c], step[c], ConfigFields)
  <2>1. prof'[c] \in {NoProfile} \cup WholeProfile
    BY <1>6
  <2>2. f \in Fields
    BY <2>1, PrefilledType, ConfigFieldsType
  <2>3. inputs' = [inputs EXCEPT ![c] = f]
    BY <1>1
  <2> HIDE DEF f
  <2>4. inputs' \in [Client -> Fields]
    BY <2>2, <2>3, SetInput DEF SetupInv
  <2> QED BY <1>1, <2>4 DEF SetupInv, FormTypes
<1>12. ChatTypes'
  BY <1>1, <1>3 DEF SetupInv, ChatTypes
<1>13. \A d \in Client : /\ d # c => phase'[d] = "off" /\ prof'[d] = NoProfile /\ writing'[d] = "no"
                         /\ d = c => phase'[d] = "setup"
  BY <1>1, <1>2, <1>6
<1> HIDE DEF list
<1>14. OneRuns' /\ CursorInList' /\ KnownLobbyIsJoined'
  <2>1. OneRuns' /\ KnownLobbyIsJoined'
    BY <1>13 DEF OneRuns, KnownLobbyIsJoined
  <2>2. CursorInList'
    BY <1>1, <1>2 DEF CursorInList
  <2> QED BY <2>1, <2>2
<1>15. OffIsBlank'
  BY <1>1, <1>2, <1>13 DEF OffIsBlank, Idle
<1>16. Saving' /\ KnowsWhatIsSaved' /\ NothingSaved'
  <2>1. Saving'
    BY <1>1, <1>4, <1>5, <1>7, <1>13 DEF Saving, Idle
  <2>2. KnowsWhatIsSaved' /\ NothingSaved'
    BY <1>1, <1>13 DEF SetupInv, KnowsWhatIsSaved, NothingSaved
  <2> QED BY <2>1, <2>2
<1>17. EntriesKept'
  <2>1. ASSUME NEW d \in Client, prof'[d] # NoProfile
        PROVE  Holds(prof'[d].entries, latest') /\ saved'[d] = Listed(prof'[d].entries)
    <3>1. d = c /\ prof'[c] \in WholeProfile
      BY <1>6, <1>13, <2>1
    <3>2. saved'[c] = Listed(prof'[c].entries)
      BY <1>1, <1>3, <2>1, <3>1 DEF list
    <3>3. Holds(prof'[c].entries, latest)
      BY <1>8, <3>1
    <3> QED BY <1>1, <3>1, <3>2, <3>3
  <2>2. ASSUME file'.is = "whole" PROVE Holds(file'.entries, written')
    BY <1>1, <2>2 DEF SetupInv, EntriesKept
  <2> QED BY <2>1, <2>2 DEF EntriesKept
<1>18. DeviceOnDisk'
  <2> SUFFICES ASSUME NEW d \in Client, prof'[d] # NoProfile, writing'[d] = "no"
               PROVE  (file' = Torn \/ (file'.is = "whole" /\ file'.token = prof'[d].token))
    BY DEF DeviceOnDisk, Idle
  <2>1. d = c
    BY <1>13
  <2> QED BY <1>1, <1>5, <1>7, <2>1
<1> QED BY <1>10, <1>11, <1>12, <1>14, <1>15, <1>16, <1>17, <1>18 DEF SetupInv
-----------------------------------------------------------------------------
(* The chat.                                                               *)

LEMMA BackStep ==
  ASSUME SetupInv, NEW c \in Client, Back(c) PROVE SetupInv'
<1>1. /\ phase[c] = "chat" /\ phase' = [phase EXCEPT ![c] = "setup"] /\ step' = [step EXCEPT ![c] = 0]
      /\ browsing' = [browsing EXCEPT ![c] = FALSE]
      /\ file' = file /\ prof' = prof /\ writing' = writing /\ saved' = saved /\ inputs' = inputs
      /\ cursor' = cursor /\ app' = app /\ starts' = starts /\ admits' = admits
      /\ latest' = latest /\ written' = written
  BY DEF Back, disk, granted
<1>2. PICK n \in 0..1 : n <= Len(answers[c]) /\ answers' = [answers EXCEPT ![c] = SubSeq(answers[c], 1, n)]
  BY Zenon DEF Back
<1>3. answers \in [Client -> Seq(Handle \ {Blank})]
  BY DEF SetupInv, ChatTypes
<1> DEFINE q == SubSeq(answers[c], 1, n)
<1>4. q \in Seq(Handle \ {Blank}) /\ (q # <<>> => answers[c] # <<>>)
  <2>1. answers[c] \in Seq(Handle \ {Blank}) /\ Len(answers[c]) \in Nat
    BY <1>3
  <2>2. \A i \in 1..n : answers[c][i] \in Handle \ {Blank}
    BY <1>2, <2>1
  <2>3. q \in Seq(Handle \ {Blank}) /\ Len(q) = IF 1 <= n THEN n - 1 + 1 ELSE 0
    BY <2>2, SubSeqProperties
  <2>4. q # <<>> => Len(q) # 0
    <3> HIDE DEF q
    <3> QED BY <2>3
  <2>5. answers[c] = <<>> => n = 0
    BY <1>2
  <2> QED BY <2>3, <2>4, <2>5
<1>5. answers' = [answers EXCEPT ![c] = q]
  BY <1>2
<1> HIDE DEF q
<1>6. DiskTypes' /\ FormTypes' /\ ChatTypes'
  <2>1. DiskTypes' /\ FormTypes'
    BY <1>1 DEF SetupInv, DiskTypes, FormTypes
  <2>2. ChatTypes'
    BY <1>1, <1>4, <1>5 DEF SetupInv, ChatTypes
  <2> QED BY <2>1, <2>2
<1>7. /\ \A d \in Client : d # c => phase'[d] = phase[d] /\ step'[d] = step[d] /\ browsing'[d] = browsing[d]
                                    /\ answers'[d] = answers[d]
      /\ phase'[c] = "setup" /\ ~browsing'[c] /\ answers'[c] = q
  BY <1>1, <1>5 DEF SetupInv, ChatTypes, FormTypes
<1>8. OneRuns' /\ OffIsBlank' /\ Saving' /\ KnowsWhatIsSaved' /\ NothingSaved'
  <2>1. OneRuns'
    BY <1>1, <1>7 DEF SetupInv, OneRuns
  <2>2. OffIsBlank'
    BY <1>1, <1>7 DEF SetupInv, OffIsBlank, Idle
  <2>3. Saving' /\ KnowsWhatIsSaved' /\ NothingSaved'
    BY <1>1, <1>7 DEF SetupInv, Saving, SameDevice, KnowsWhatIsSaved, NothingSaved, Idle
  <2> QED BY <2>1, <2>2, <2>3
<1>9. CursorInList' /\ EntriesKept' /\ DeviceOnDisk'
  <2>1. CursorInList'
    BY <1>1, <1>7 DEF SetupInv, CursorInList
  <2>2. EntriesKept' /\ DeviceOnDisk'
    BY <1>1 DEF SetupInv, EntriesKept, DeviceOnDisk, Idle
  <2> QED BY <2>1, <2>2
<1>10. KnownLobbyIsJoined'
  BY <1>1, <1>7 DEF SetupInv, KnownLobbyIsJoined
<1> QED BY <1>6, <1>8, <1>9, <1>10 DEF SetupInv

LEMMA AdmitStep ==
  ASSUME SetupInv, NEW c \in Client, Admit(c) PROVE SetupInv'
<1>1. /\ phase[c] = "chat"
      /\ admits < MaxAdmit /\ admits' = admits + 1
      /\ file' = file /\ prof' = prof /\ writing' = writing /\ saved' = saved /\ phase' = phase
      /\ inputs' = inputs /\ step' = step /\ browsing' = browsing /\ cursor' = cursor
      /\ app' = app /\ starts' = starts /\ latest' = latest /\ written' = written
  BY DEF Admit, disk, form, granted
<1>2. PICK h \in Handle \ {Blank} : answers' = [answers EXCEPT ![c] = Append(answers[c], h)]
  BY Zenon DEF Admit
<1>3. answers \in [Client -> Seq(Handle \ {Blank})] /\ admits \in 0..MaxAdmit /\ MaxAdmit \in Nat
  BY ClientSetupAssumption DEF SetupInv, ChatTypes, ClientSetupAssumption
<1>4. answers' \in [Client -> Seq(Handle \ {Blank})] /\ admits' \in 0..MaxAdmit
  BY <1>1, <1>2, <1>3
<1>5. \A d \in Client : d # c => answers'[d] = answers[d]
  BY <1>2, <1>3
<1>6. DiskTypes' /\ FormTypes' /\ ChatTypes'
  BY <1>1, <1>4 DEF SetupInv, DiskTypes, FormTypes, ChatTypes
<1>7. OneRuns' /\ Saving' /\ KnowsWhatIsSaved' /\ NothingSaved'
  BY <1>1 DEF SetupInv, OneRuns, Saving, SameDevice, KnowsWhatIsSaved, NothingSaved, Idle
<1>8. OffIsBlank'
  BY <1>1, <1>5 DEF SetupInv, OffIsBlank, Idle
<1>9. CursorInList' /\ EntriesKept' /\ DeviceOnDisk' /\ KnownLobbyIsJoined'
  BY <1>1 DEF SetupInv, CursorInList, EntriesKept, DeviceOnDisk, KnownLobbyIsJoined, Idle
<1> QED BY <1>6, <1>7, <1>8, <1>9 DEF SetupInv

\* The answer that is handled is the only one of a client that runs.
LEMMA IdentifiedStep ==
  ASSUME SetupInv, NEW c \in Client, Identified(c) PROVE SetupInv'
<1> DEFINE h == Head(answers[c])
           key == KeyFor(app[c].lobby, app[c].code)
           known == Remembered(prof[c].entries, key, h)
           P == [prof[c] EXCEPT !.entries = known]
           A == [app[c] EXCEPT !.handle = h]
           F == [inputs[c] EXCEPT ![3] = h]
           Lost == prof[c] = NoProfile /\ UNCHANGED <<prof, saved, writing, latest>>
           Kept == /\ prof[c] # NoProfile /\ latest' = Granting(key, h)
                   /\ prof' = [prof EXCEPT ![c] = P] /\ saved' = [saved EXCEPT ![c] = Listed(known)]
                   /\ writing' = [writing EXCEPT ![c] = "truncate"]
<1>1. /\ answers[c] # <<>> /\ writing[c] = "no" /\ answers' = [answers EXCEPT ![c] = Tail(answers[c])]
      /\ app' = [app EXCEPT ![c] = A] /\ inputs' = [inputs EXCEPT ![c] = F]
      /\ file' = file /\ phase' = phase /\ step' = step /\ browsing' = browsing /\ cursor' = cursor
      /\ starts' = starts /\ admits' = admits /\ written' = written
  BY DEF Identified, Idle
<1>2. Lost \/ Kept
  BY DEF Identified
<1>3. /\ file \in {NoProfile, Torn} \cup WholeProfile /\ prof \in [Client -> {NoProfile} \cup WholeProfile]
      /\ writing \in [Client -> {"no", "truncate", "write"}] /\ saved \in [Client -> Seq(SavedLobby)]
      /\ app \in [Client -> [lobby : Text, code : Text, handle : Text]]
      /\ answers \in [Client -> Seq(Handle \ {Blank})] /\ inputs \in [Client -> Fields]
      /\ IsGrant(latest)
  BY DEF SetupInv, DiskTypes, FormTypes, ChatTypes
<1>4. h \in Text \ {Blank} /\ Tail(answers[c]) \in Seq(Handle \ {Blank})
  <2>1. h \in Handle \ {Blank} /\ Tail(answers[c]) \in Seq(Handle \ {Blank})
    BY <1>1, <1>3
  <2> HIDE DEF h
  <2> QED BY <2>1, Texts
<1>5. phase[c] # "off"
  BY <1>1 DEF SetupInv, OffIsBlank
<1>6. \A d \in Client : d # c =>
        phase[d] = "off" /\ prof[d] = NoProfile /\ writing[d] = "no" /\ ~browsing[d] /\ answers[d] = <<>>
  BY <1>5, RunningAlone
<1>7. key \in Key
  BY <1>3, KeyForIsKey
<1>8. A \in [lobby : Text, code : Text, handle : Text] /\ A.handle = h
  BY <1>3, <1>4
<1>9. F \in Fields
  BY <1>3, <1>4, FieldSet
<1>10. prof[c] # NoProfile =>
         /\ prof[c] \in WholeProfile /\ prof[c].entries \in Seq(Entry) /\ OneEach(prof[c].entries)
         /\ saved[c] = Listed(prof[c].entries) /\ Holds(prof[c].entries, latest)
  BY <1>3 DEF SetupInv, DiskTypes, EntriesKept, WholeProfile
<1> HIDE DEF h, key
<1>11. prof[c] # NoProfile =>
         /\ known \in Seq(Entry) /\ OneEach(known) /\ Len(known) >= Len(prof[c].entries) /\ Len(known) >= 1
         /\ Holds(known, Granting(key, h)) /\ IsGrant(Granting(key, h))
  <2> SUFFICES ASSUME prof[c] # NoProfile
               PROVE  /\ known \in Seq(Entry) /\ OneEach(known) /\ Len(known) >= Len(prof[c].entries)
                      /\ Len(known) >= 1 /\ Holds(known, Granting(key, h)) /\ IsGrant(Granting(key, h))
    OBVIOUS
  <2>1. IsGrant(Granting(key, h)) /\ Granting(key, h) = Granted(latest, key, Clean(h))
    BY <1>3, <1>4, <1>7, GrantingIsGrant
  <2> DEFINE q == prof[c].entries
  <2>2. q \in Seq(Entry) /\ OneEach(q) /\ h \in Text /\ Holds(q, latest)
    BY <1>4, <1>10
  <2> HIDE DEF q
  <2>3. LET r == Remembered(q, key, h) IN
        /\ r \in Seq(Entry) /\ OneEach(r) /\ Len(r) >= Len(q) /\ Len(r) >= 1
        /\ Holds(r, Granted(latest, key, Clean(h)))
    BY <1>7, <2>2, RememberedProperties
  <2> QED BY <2>1, <2>3 DEF q
<1> HIDE DEF known
<1>12. prof[c] # NoProfile =>
         /\ P \in WholeProfile /\ P.entries = known /\ P.token = prof[c].token
         /\ Listed(known) \in Seq(SavedLobby) /\ DOMAIN Listed(known) = DOMAIN known
  <2>1. prof[c] # NoProfile => P \in WholeProfile /\ P.entries = known /\ P.token = prof[c].token
    BY <1>10, <1>11 DEF WholeProfile
  <2> QED BY <1>11, <2>1, ListedType
<1>13. NoProfile \notin WholeProfile
  BY <1>3, FileIs
<1> HIDE DEF P, A, F
<1>14. /\ \A d \in Client : d # c => prof'[d] = NoProfile /\ writing'[d] = "no" /\ saved'[d] = saved[d]
                                     /\ answers'[d] = <<>> /\ app'[d] = app[d]
       /\ answers'[c] = Tail(answers[c]) /\ app'[c] = A
  <2>1. \A d \in Client : d # c => answers'[d] = <<>> /\ app'[d] = app[d]
    BY <1>1, <1>3, <1>6
  <2>2. \A d \in Client : d # c => prof'[d] = NoProfile /\ writing'[d] = "no" /\ saved'[d] = saved[d]
    BY <1>2, <1>3, <1>6
  <2> QED BY <1>1, <1>3, <2>1, <2>2
<1>15. Kept => /\ prof'[c] = P /\ saved'[c] = Listed(known) /\ writing'[c] = "truncate"
               /\ P \in WholeProfile /\ P.entries = known /\ P # NoProfile /\ P.token = prof[c].token
  BY <1>3, <1>12, <1>13
<1>16. DiskTypes'
  <2>1. /\ prof' \in [Client -> {NoProfile} \cup WholeProfile] /\ saved' \in [Client -> Seq(SavedLobby)]
        /\ writing' \in [Client -> {"no", "truncate", "write"}]
    <3>1. CASE Lost
      BY <1>3, <3>1
    <3>2. CASE Kept
      <4>1. P \in {NoProfile} \cup WholeProfile /\ Listed(known) \in Seq(SavedLobby)
        BY <1>12, <3>2
      <4> QED BY <1>3, <3>2, <4>1
    <3> QED BY <1>2, <3>1, <3>2
  <2>2. prof'[c] # NoProfile => OneEach(prof'[c].entries)
    BY <1>2, <1>10, <1>11, <1>15
  <2>3. \A d \in Client : prof'[d] # NoProfile => OneEach(prof'[d].entries)
    BY <1>14, <2>2
  <2> QED BY <1>1, <2>1, <2>3 DEF SetupInv, DiskTypes
<1>17. FormTypes' /\ ChatTypes'
  <2>1. inputs' \in [Client -> Fields]
    BY <1>1, <1>9, SetInput DEF SetupInv
  <2>2. FormTypes'
    BY <1>1, <2>1 DEF SetupInv, FormTypes
  <2>3. IsGrant(latest') /\ IsGrant(written')
    BY <1>1, <1>2, <1>3, <1>11 DEF SetupInv, ChatTypes
  <2>4. /\ app' \in [Client -> [lobby : Text, code : Text, handle : Text]]
        /\ answers' \in [Client -> Seq(Handle \ {Blank})]
    BY <1>1, <1>3, <1>4, <1>8
  <2> QED BY <1>1, <2>2, <2>3, <2>4 DEF SetupInv, ChatTypes
<1>18. OneRuns' /\ OffIsBlank' /\ KnowsWhatIsSaved' /\ NothingSaved'
  <2>1. OneRuns' /\ OffIsBlank'
    BY <1>1, <1>5, <1>14, <1>6 DEF SetupInv, OneRuns, OffIsBlank, Idle
  <2>2. KnowsWhatIsSaved' /\ NothingSaved'
    BY <1>1, <1>5 DEF SetupInv, KnowsWhatIsSaved, NothingSaved
  <2> QED BY <2>1, <2>2
<1>19. prof[c] # NoProfile => SameDevice(c)
  BY <1>1 DEF SetupInv, DeviceOnDisk, SameDevice, Idle
<1>20. Saving'
  <2>1. CASE Lost
    BY <1>1, <2>1 DEF SetupInv, Saving, SameDevice, Idle
  <2>2. CASE Kept
    <3> SUFFICES ASSUME NEW d \in Client, writing'[d] # "no"
                 PROVE  /\ prof'[d] # NoProfile /\ (writing'[d] = "write" => file' = Torn)
                        /\ (file' = Torn \/ (file'.is = "whole" /\ file'.token = prof'[d].token))
      BY DEF Saving, SameDevice, Idle
    <3>1. d = c
      BY <1>14
    <3> QED BY <1>1, <1>15, <1>19, <2>2, <3>1 DEF SameDevice
  <2> QED BY <1>2, <2>1, <2>2
<1>21. CursorInList'
  <2>1. CASE Lost
    BY <1>1, <2>1 DEF SetupInv, CursorInList
  <2>2. CASE Kept
    <3> SUFFICES ASSUME NEW d \in Client, browsing[d] PROVE cursor[d] + 1 \in DOMAIN saved'[d]
      BY <1>1 DEF CursorInList
    <3>1. d = c
      BY <1>6
    <3>2. DOMAIN saved[c] = DOMAIN prof[c].entries
      BY <1>10, <2>2, ListedType
    <3>3. cursor[c] \in Nat /\ cursor[c] + 1 \in DOMAIN prof[c].entries
      BY <3>1, <3>2 DEF SetupInv, CursorInList, FormTypes
    <3>4. cursor[c] + 1 \in DOMAIN known
      BY <1>10, <1>11, <2>2, <3>3
    <3> QED BY <1>12, <1>15, <2>2, <3>1, <3>4
  <2> QED BY <1>2, <2>1, <2>2
<1>22. EntriesKept'
  <2>1. CASE Lost
    BY <1>1, <2>1 DEF SetupInv, EntriesKept
  <2>2. CASE Kept
    <3>1. ASSUME NEW d \in Client, prof'[d] # NoProfile
          PROVE  Holds(prof'[d].entries, latest') /\ saved'[d] = Listed(prof'[d].entries)
      <4>1. d = c
        BY <1>14, <3>1
      <4> QED BY <1>11, <1>15, <2>2, <4>1
    <3>2. ASSUME file'.is = "whole" PROVE Holds(file'.entries, written')
      BY <1>1, <3>2 DEF SetupInv, EntriesKept
    <3> QED BY <3>1, <3>2 DEF EntriesKept
  <2> QED BY <1>2, <2>1, <2>2
<1>23. DeviceOnDisk'
  <2> SUFFICES ASSUME NEW d \in Client, prof'[d] # NoProfile, writing'[d] = "no"
               PROVE  (file' = Torn \/ (file'.is = "whole" /\ file'.token = prof'[d].token))
    BY DEF DeviceOnDisk, Idle
  <2>1. d = c
    BY <1>14
  <2> QED BY <1>1, <1>2, <1>15, <2>1 DEF SetupInv, DeviceOnDisk, Idle
<1>24. KnownLobbyIsJoined'
  <2> SUFFICES ASSUME NEW d \in Client, prof'[d] # NoProfile PROVE app'[d].handle # Blank
    BY DEF KnownLobbyIsJoined
  <2>1. d = c
    BY <1>14
  <2> QED BY <1>4, <1>8, <1>14, <2>1
<1> QED BY <1>16, <1>17, <1>18, <1>20, <1>21, <1>22, <1>23, <1>24 DEF SetupInv
-----------------------------------------------------------------------------
(* The theorems.                                                           *)

LEMMA InitSetupInv == Init => SetupInv
<1> SUFFICES ASSUME Init PROVE SetupInv
  OBVIOUS
<1>1. /\ file = NoProfile /\ prof = [c \in Client |-> NoProfile] /\ writing = [c \in Client |-> "no"]
      /\ phase = [c \in Client |-> "off"] /\ inputs = [c \in Client |-> [i \in 0..3 |-> Blank]]
      /\ step = [c \in Client |-> 0] /\ browsing = [c \in Client |-> FALSE]
      /\ cursor = [c \in Client |-> 0] /\ saved = [c \in Client |-> <<>>]
      /\ app = [c \in Client |-> NoApp] /\ answers = [c \in Client |-> <<>>]
      /\ starts = 0 /\ admits = 0
      /\ latest = [k \in {} |-> Blank] /\ written = latest
  BY DEF Init
<1>2. MaxStart \in Nat /\ MaxAdmit \in Nat /\ NoApp \in [lobby : Text, code : Text, handle : Text]
  BY Texts, ClientSetupAssumption DEF ClientSetupAssumption, NoApp
<1>3. file.is # "whole"
  BY <1>1 DEF NoProfile
<1>4. DiskTypes
  BY <1>1, <1>3 DEF DiskTypes
<1>5. FormTypes
  <2> DEFINE f == [i \in 0..3 |-> Blank]
  <2>1. f \in Fields
    BY Texts DEF Fields
  <2> HIDE DEF f
  <2>3. inputs = [c \in Client |-> f]
    BY <1>1 DEF f
  <2> QED BY <1>1, <2>1, <2>3 DEF FormTypes
<1>6. ChatTypes
  BY <1>1, <1>2 DEF ChatTypes, IsGrant
<1>7. OneRuns /\ OffIsBlank /\ Saving /\ KnowsWhatIsSaved /\ NothingSaved
  BY <1>1 DEF OneRuns, OffIsBlank, Saving, KnowsWhatIsSaved, NothingSaved, Idle
<1>8. CursorInList /\ EntriesKept /\ DeviceOnDisk /\ KnownLobbyIsJoined
  BY <1>1, <1>3 DEF CursorInList, EntriesKept, DeviceOnDisk, KnownLobbyIsJoined
<1> QED BY <1>4, <1>5, <1>6, <1>7, <1>8 DEF SetupInv

LEMMA NextSetupInv == SetupInv /\ [Next]_vars => SetupInv'
<1> SUFFICES ASSUME SetupInv, [Next]_vars PROVE SetupInv'
  OBVIOUS
<1>1. CASE UNCHANGED vars
  <2>1. /\ UNCHANGED <<disk, phase, app, answers, starts, admits, granted>>
        /\ UNCHANGED <<form, saved, prof, writing>>
    BY <1>1 DEF vars, disk
  <2>2. FormTypes' /\ CursorInList' /\ OffIsBlank'
    BY <2>1 DEF SetupInv, FormTypes, CursorInList, OffIsBlank, Idle, form
  <2> QED BY <2>1, <2>2, FormOnly DEF SetupInv
<1>2. ASSUME NEW c \in Client, Type(c) \/ Tab(c) \/ EnterSearch(c) \/ Browse(c) PROVE SetupInv'
  <2>1. UNCHANGED <<disk, phase, app, answers, starts, admits, granted>>
    BY <1>2 DEF Type, Tab, EnterSearch, Browse
  <2>2. FormTypes' /\ CursorInList' /\ OffIsBlank'
    BY <1>2, TypeStep, TabStep, EnterSearchStep, BrowseStep
  <2> QED BY <2>1, <2>2, FormOnly DEF SetupInv
<1>3. ASSUME NEW c \in Client, Quit(c) \/ Crash(c) PROVE SetupInv'
  <2>1. Gone(c) /\ phase[c] # "off"
    BY <1>3 DEF Quit, Crash, SetupInv, OffIsBlank
  <2> QED BY <2>1, GoneKeeps
<1>4. ASSUME NEW c \in Client,
             \/ SaveStep(c) \/ Start(c) \/ Enter(c) \/ Choose(c) \/ Back(c) \/ Admit(c) \/ Identified(c)
      PROVE  SetupInv'
  BY <1>4, SaveStepKeeps, StartStep, EnterStep, ChooseStep, BackStep, AdmitStep, IdentifiedStep
<1> QED BY <1>1, <1>2, <1>3, <1>4 DEF Next

\* The invariant holds of every behaviour, whoever types, closes or crashes.
THEOREM SetupInvariant == Spec => []SetupInv
BY InitSetupInv, NextSetupInv, PTL DEF Spec

LEMMA SetupInvTypes == SetupInv => TypeOK
BY DEF SetupInv, DiskTypes, FormTypes, ChatTypes, Fields, TypeOK

\* Every variable of the setup screen and the profile has its type, and no
\* profile, in memory or in the file, has two entries of one key.
THEOREM SetupTyped == Spec => []TypeOK
BY SetupInvariant, SetupInvTypes, PTL

\* The cursor of the list of lobbies never leaves the list (m.savedLobbies is
\* indexed with it), although an answer replaces the list while it is shown.
THEOREM CursorStaysInList == Spec => []CursorInList
<1>1. SetupInv => CursorInList
  BY DEF SetupInv
<1> QED BY <1>1, SetupInvariant, PTL

\* Whichever Saves fail and wherever clients crash, a client with a profile
\* knows for every key the handle the server granted last, to it or to a client
\* before it that could save it; and a file that can be read holds what was
\* granted before the last Save that succeeded, never a part of it.
THEOREM EntriesAreKept == Spec => []EntriesKept
<1>1. SetupInv => EntriesKept
  BY DEF SetupInv
<1> QED BY <1>1, SetupInvariant, PTL

\* The device token a client signs in with is the one in the file, unless the
\* file is torn: the next client of the machine is the same device.
THEOREM DeviceStaysOnDisk == Spec => []DeviceOnDisk
<1>1. SetupInv => DeviceOnDisk
  BY DEF SetupInv
<1> QED BY <1>1, SetupInvariant, PTL

\* However the setup screen is left, a lobby the machine was admitted to before,
\* if a Save after that succeeded or the client still runs, is joined under a
\* handle, so resync joins it.
THEOREM KnownLobbiesAreJoined == Spec => []KnownLobbyIsJoined
<1>1. SetupInv => KnownLobbyIsJoined
  BY DEF SetupInv
<1> QED BY <1>1, SetupInvariant, PTL
=============================================================================
