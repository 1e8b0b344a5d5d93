-------------------------- MODULE Session_proofs --------------------------
(***************************************************************************)
(* Theorems about Session: for any number and sizes of files and any talk  *)
(* of a daemon, in every operation, the client and the remote side         *)
(* settle on one protocol, each reads what the other wrote for what it is, *)
(* and the byte counters of an upload are exact.                           *)
(*                                                                         *)
(* Both sides are parsers: ClientTakes and RemoteTakes say what each does  *)
(* with the next unit.  What is on its way is a run of the parser at its   *)
(* far end, from where that side is to where the other side writes.  A     *)
(* step takes units off the front of one run and puts units on the back of *)
(* the other; what it changes besides must leave both of them runs.        *)
(***************************************************************************)
EXTENDS Session, SequenceTheorems, FiniteSetTheorems, WellFoundedInduction, TLAPS

-----------------------------------------------------------------------------
(* The version on which both sides settle, and where the session then goes on. *)
Agreed == IF connection.version < connection.preferred THEN connection.version ELSE connection.preferred
Outcome == AfterVersion(Agreed)
SetUp == IF Downloading \/ Deleting THEN "filters" ELSE "list"

(* Where Stream::login and a daemon do not agree: it takes a client for one that
   prefers 30 when the daemon speaks 30. *)
DaemonsPrefer30 == \A c \in Connections : c.daemon => c.preferred = 30
(* Deletion is enabled for synchronisations and lists only. *)
DeletionOnlyForSyncs ==
  \A o \in Operations : o.deletion => o.op \in {"upload", "list", "download"}
(* The remote side says nothing of the entry of a link. *)
LinkIsSilent == "link" \notin Itemized

Kinds == {"version", "module", "line", "response", "arguments", "compatibility", "seed",
          "no filter", "filter", "entry", "end", "io error", "index", "flags", "checksums", "file"}
Texts == {"text", "authreqd", "ok", "exit", "error", "wanted", "unwanted"}
Units == {u \in [kind : Kinds, value : Int \cup Texts] :
            u.kind \in {"version", "index"} => u.value \in Int}

(* A side with the steps R takes all of w, from state s to state t. *)
Run(R, w, s, t) ==
  \E p : p[0] = s /\ p[Len(w)] = t /\ \A k \in 1 .. Len(w) : <<p[k - 1], w[k], p[k]>> \in R

-----------------------------------------------------------------------------
(* What the client does with a unit.  `left` is the number of INDEX_DONEs that
   are still to come to an upload, `last` the last index of its first phase, and
   `again` holds the files that are or will be asked for again. *)
ClientPlaces == {"greeting", "lines", "authorizing", "arguments", "compatibility", "seed",
                 "entries", "io error", "index", "flags", "checksums", "end"}
ClientState == [place : ClientPlaces, left : Int, last : Int, again : SUBSET Int]

MovesTo(s, place) == [s EXCEPT !.place = place]

TakesSetUp(s, u, t) ==
  \/ /\ s.place = "greeting" /\ u = Unit("version", connection.version)
     /\ t = MovesTo(s, IF connection.daemon THEN "lines" ELSE Outcome)
  \/ /\ s.place = "lines" /\ u.kind = "line"
     /\ \/ u.value = "text" /\ t = s
        \/ u.value = "authreqd" /\ op # "listModules" /\ t = MovesTo(s, "authorizing")
        \/ u.value = "ok" /\ op # "listModules" /\ t = MovesTo(s, "arguments")
        \/ u.value = "exit" /\ op = "listModules" /\ t = MovesTo(s, "end")
        \/ u.value = "error" /\ t = MovesTo(s, "end")
  \/ s.place = "compatibility" /\ u.kind = "compatibility" /\ t = MovesTo(s, "seed")
  \/ s.place = "seed" /\ u.kind = "seed" /\ t = MovesTo(s, IF Downloading THEN "entries" ELSE "index")

TakesList(s, u, t) ==
  \/ s.place = "entries" /\ u.kind = "entry" /\ t = s
  \/ s.place = "entries" /\ u.kind = "end" /\ t = MovesTo(s, IF Agreed < 30 THEN "io error" ELSE "end")
  \/ s.place = "io error" /\ u.kind = "io error" /\ t = MovesTo(s, "end")

TakesDone(s, u, t) ==
  /\ s.place = "index" /\ u = Index(INDEX_DONE)
  /\ IF op = "upload"
       THEN /\ s.left > 4 - dones
            /\ s.left = 4 => \A j \in asked : j <= s.last
            /\ t = [s EXCEPT !.left = s.left - 1]
       ELSE t = s

(* An index of the first phase is the next that anything was said of, one of
   the second is of a file that is asked for again. *)
TakesFirst(s, k, t) ==
  /\ s.left = 4 /\ s.last < k /\ k < wanted
  /\ k \in asked /\ \A j \in asked : j <= s.last \/ k <= j
  /\ t = [s EXCEPT !.place = "flags", !.last = k]

TakesAgain(s, k, t) ==
  /\ s.left = 3 /\ retried = TRUE /\ echoed >= 1
  /\ k \notin t.again /\ s.again = t.again \cup {k}
  /\ t.place = "flags" /\ t.left = s.left /\ t.last = s.last

TakesIndex(s, u, t) ==
  /\ s.place = "index" /\ u.kind = "index" /\ u.value \in Nat \ {0}
  /\ \/ op = "upload" /\ TakesFirst(s, u.value, t)
     \/ op = "upload" /\ TakesAgain(s, u.value, t)
     \/ op \notin {"upload", "link"} /\ t = MovesTo(s, "flags")

TakesFlags(s, u, t) ==
  \/ /\ s.place = "flags" /\ u.kind = "flags"
     /\ \/ u.value = "wanted" /\ op = "upload" /\ s.left >= 3 /\ t = MovesTo(s, "checksums")
        \/ u.value = "unwanted" /\ t = MovesTo(s, "index")
  \/ s.place = "checksums" /\ u.kind = "checksums" /\ t = MovesTo(s, "index")

ClientTakes(s, u, t) ==
  \/ TakesSetUp(s, u, t) \/ TakesList(s, u, t)
  \/ TakesDone(s, u, t) \/ TakesIndex(s, u, t) \/ TakesFlags(s, u, t)

ClientSteps == {x \in ClientState \X Units \X ClientState : ClientTakes(x[1], x[2], x[3])}

(* Where the client is, and where it will be with all that is on its way. *)
ClientPlace ==
  CASE pc \in {"connect", "version", "login"} -> "greeting"
    [] pc = "lines" -> IF rpc = "response" /\ out # <<>> THEN "authorizing" ELSE "lines"
    [] pc \in {"compatibility", "seed"} -> IF rpc = "arguments" THEN "arguments" ELSE pc
    [] pc = "receive list" -> "entries"
    [] pc = "io error" -> "io error"
    [] pc \in {"flags", "round flags"} -> "flags"
    [] pc = "checksums" -> "checksums"
    [] OTHER -> "index"

ClientLeft ==
  IF op # "upload" THEN 4 ELSE IF pc \in {"rounds", "round flags"} THEN rounds ELSE 4 - phase

RemoteWritesAt ==
  CASE rpc = "start" -> "greeting"
    [] rpc = "version" -> IF connection.daemon THEN "lines" ELSE Outcome
    [] rpc \in {"module", "lines"} -> "lines"
    [] rpc = "response" -> "authorizing"
    [] rpc = "arguments" -> "arguments"
    [] rpc = "set up" -> Outcome
    [] rpc = "filters" -> IF Downloading THEN "entries" ELSE "index"
    [] rpc \in {"serve", "gone"} -> "end"
    [] OTHER -> "index"

ClientAt(last, again) ==
  [place |-> ClientPlace, left |-> ClientLeft, last |-> last, again |-> again]
ClientWillBe(last) ==
  [place |-> RemoteWritesAt, left |-> IF op = "upload" THEN 4 - dones ELSE 4,
   last |-> last, again |-> redo]

Gone == pc \in {"done", "fatal"}

-----------------------------------------------------------------------------
(* What the remote side does with a unit.  `of` is the index its receiver deals
   with, `echo` the number of INDEX_DONEs that have come back. *)
RemotePlaces == {"version", "module", "lines", "response", "arguments", "filters", "list",
                 "io error", "index", "flags", "file", "gone"}
RemoteState == [place : RemotePlaces, of : Int, echo : Nat]

RemoteTakes(s, u, t) ==
  \/ /\ s.place = "version" /\ u = Unit("version", connection.preferred)
     /\ t = MovesTo(s, IF connection.daemon THEN "module" ELSE SetUp)
  \/ s.place = "module" /\ u.kind = "module" /\ t = MovesTo(s, "lines")
  \/ s.place = "response" /\ u.kind = "response" /\ t = MovesTo(s, "lines")
  \/ s.place = "arguments" /\ u.kind = "arguments" /\ t = MovesTo(s, SetUp)
  \/ s.place = "filters" /\ u.kind = "filter" /\ t = s
  \/ /\ s.place = "filters" /\ u.kind = "no filter"
     /\ t = MovesTo(s, IF Downloading THEN "index" ELSE "list")
  \/ s.place = "list" /\ u.kind = "entry" /\ t = s
  \/ s.place = "list" /\ u.kind = "end" /\ t = MovesTo(s, IF Agreed < 30 THEN "io error" ELSE "index")
  \/ s.place = "io error" /\ u.kind = "io error" /\ t = MovesTo(s, "index")
  \/ /\ s.place = "index" /\ u = Index(INDEX_DONE)
     /\ t = [s EXCEPT !.of = INDEX_DONE, !.echo = s.echo + 1]
  \/ /\ s.place = "index" /\ u.kind = "index" /\ u.value \in Nat \ {0} /\ ~Downloading
     /\ t = [s EXCEPT !.place = "flags", !.of = u.value]
  \/ /\ s.place = "flags" /\ u.kind = "flags"
     /\ \/ u.value = "wanted" /\ op = "upload" /\ t = MovesTo(s, "file")
        \/ u.value = "unwanted" /\ t = MovesTo(s, "index")
  \/ /\ s.place = "file" /\ u.kind = "file" /\ t = MovesTo(s, "index")
     /\ echoed = 0 /\ s.echo = 0 => s.of \in sent

RemoteSteps == {x \in RemoteState \X Units \X RemoteState : RemoteTakes(x[1], x[2], x[3])}

RemotePlace ==
  CASE rpc \in {"start", "version"} -> "version"
    [] rpc = "set up" -> SetUp
    [] rpc \in {"receive", "serve"} -> "index"
    [] OTHER -> rpc

ClientWritesAt ==
  CASE pc = "connect" -> "version"
    [] pc \in {"login", "lines"} -> IF rpc \in {"response", "arguments"} /\ out = <<>> THEN rpc ELSE "lines"
    [] pc \in {"version", "compatibility", "seed"} -> SetUp
    [] pc = "filters" -> "filters"
    [] pc = "send list" -> "list"
    [] pc = "round flags" -> "flags"
    [] OTHER -> "index"

RemoteAt == [place |-> RemotePlace, of |-> receiving, echo |-> echoed]

-----------------------------------------------------------------------------
SettingUp == {"connect", "version", "login", "lines", "compatibility", "seed"}
ClientPcs == SettingUp \cup {"filters", "send list", "receive list", "io error", "upload", "flags",
                             "checksums", "rounds", "round flags", "done", "fatal"}
RemotePcs == {"start", "version", "module", "lines", "response", "arguments", "set up", "filters",
              "list", "io error", "receive", "serve", "flags", "file", "gone"}

TypeInv ==
  /\ op = "listModules" => connection.daemon
  /\ deletionEnabled = TRUE => op \in {"upload", "list", "download"}
  /\ deletionEnabled \in BOOLEAN
  /\ connection \in Connections
  /\ pc \in ClientPcs /\ rpc \in RemotePcs
  /\ in \in Seq(Units) /\ out \in Seq(Units) /\ buffer \in Seq(Units)
  /\ index \in Int /\ phase \in Nat /\ lastIndex \in Nat /\ rounds \in Int
  /\ skipped \in Int /\ logical \in Int
  /\ sent \subseteq Files /\ read \in [Files -> Nat] /\ changed \in BOOLEAN
  /\ receiving \in Int /\ wanted \in Nat \ {0} /\ asked \subseteq Nat /\ redo \subseteq Nat \ {0}
  /\ rpc \in {"flags", "file"} => receiving \in Nat \ {0}
  /\ dones \in Nat /\ echoed \in Nat /\ retried \in BOOLEAN
  /\ protocol \in Int /\ rprotocol \in Int

(* Which place goes with which operation and which kind of remote side. *)
PlaceInv ==
  /\ pc \in {"upload", "flags", "checksums"} => op = "upload" /\ phase \in {0, 1} /\ rounds = 2
  /\ pc \in {"rounds", "round flags"} => ~Downloading /\ op # "listModules"
  /\ op = "upload" /\ pc = "rounds" => phase = 2 /\ rounds \in {1, 2}
  /\ pc = "round flags" => op # "upload"
  /\ pc \in SettingUp \cup {"filters", "send list", "receive list", "io error"} => phase = 0
  /\ pc \in {"receive list", "io error"} => Downloading
  /\ pc = "filters" => op = "remove"
  /\ pc = "send list" => ~Downloading
  /\ phase >= 1 => op = "upload" /\ phase <= dones
  /\ pc = "version" => connection.daemon = FALSE
  /\ pc \in {"login", "lines"} => connection.daemon = TRUE
  /\ rpc \in {"module", "lines", "response", "arguments"} => connection.daemon = TRUE
  /\ op = "listModules" =>
       /\ pc \in {"connect", "login", "lines", "done", "fatal"}
       /\ rpc \in {"start", "version", "module", "lines", "gone"}
  /\ rpc \in {"list", "io error", "receive", "flags", "file"} => ~Downloading
  /\ rpc = "serve" => Downloading
  /\ rpc \in {"flags", "receive", "file"} \/ (dones = 0 /\ redo = {})
  /\ rpc = "file" \/ redo # {} => op = "upload"

(* Who waits for whom while the session is set up. *)
PromptInv ==
  /\ pc \in SettingUp => buffer = <<>>
  /\ pc = "connect" => rpc \in {"start", "version"} /\ out = <<>>
  /\ rpc = "response" /\ pc = "login" => out = <<>>
  /\ rpc = "arguments" =>
       /\ pc \in {"login", "lines", "done", "fatal", Outcome}
       /\ pc \in {"login", "lines"} => out = <<>>

(* The protocol of each side, before and after it has seen the other's version. *)
ProtocolInv ==
  /\ pc \in {"connect", "version", "login"} => protocol = connection.preferred
  /\ pc \notin {"connect", "version", "login", "fatal"} => protocol = Agreed
  /\ rprotocol = IF rpc \in {"start", "version"} THEN connection.version ELSE Agreed

(* What is on its way to the client takes it from where it is to where it will
   be when the remote side writes next. *)
InwardInv ==
  ~Gone =>
    \E l, m \in Int, g \in SUBSET Int :
      /\ Run(ClientSteps, in, ClientAt(l, g), ClientWillBe(m))
      /\ g \subseteq sent
      /\ op = "upload" /\ phase = 0 => l = lastIndex
      /\ op = "upload" /\ dones = 0 => m < wanted /\ \A j \in asked : j <= m

(* The same for the remote side, with what the client has not flushed yet. *)
OutwardInv ==
  rpc # "gone" =>
    \E t \in RemoteState :
      /\ Run(RemoteSteps, out \o buffer, RemoteAt, t)
      /\ ~Gone => t.place = ClientWritesAt

(* The two counters of an upload. *)
CountInv ==
  /\ ~changed => logical = Total(sent, read)
  /\ pc \in {"flags", "checksums"} => index \in Files \ sent /\ (phase = 0 => index = lastIndex)
  /\ op = "upload" /\ phase = 0 =>
       /\ lastIndex \in 0 .. Len(Sizes) /\ lastIndex < wanted
       /\ sent \subseteq 1 .. lastIndex
       /\ skipped = SizeOf({k \in Files : k <= lastIndex} \ asked)
  /\ phase >= 1 /\ ~retried =>
       lastIndex > Len(Sizes) /\ skipped = SizeOf(Files \ asked)

-----------------------------------------------------------------------------
(* Two pieces of wire that a side takes one after the other. *)
LEMMA RunConcat ==
  ASSUME NEW B, NEW v \in Seq(B), NEW w \in Seq(B), NEW R, NEW s, NEW t, NEW u,
         Run(R, v, s, t), Run(R, w, t, u)
  PROVE  Run(R, v \o w, s, u)
<1> DEFINE m == Len(v)
           n == Len(w)
<1>1. PICK p : p[0] = s /\ p[m] = t /\ \A k \in 1 .. m : <<p[k - 1], v[k], p[k]>> \in R
  BY DEF Run
<1>2. PICK q : q[0] = t /\ q[n] = u /\ \A k \in 1 .. n : <<q[k - 1], w[k], q[k]>> \in R
  BY DEF Run
<1>3. /\ m \in Nat /\ n \in Nat /\ Len(v \o w) = m + n
      /\ \A k \in 1 .. m + n : (v \o w)[k] = IF k <= m THEN v[k] ELSE w[k - m]
  BY LenProperties, ConcatProperties
<1> DEFINE r == [k \in 0 .. m + n |-> IF k <= m THEN p[k] ELSE q[k - m]]
<1> HIDE DEF m, n
<1>4. r[0] = s /\ r[m + n] = u
  <2>1. 0 \in 0 .. m + n /\ 0 <= m /\ m + n \in 0 .. m + n /\ (m + n) - m = n /\ (m + n <= m <=> n = 0)
    BY <1>3
  <2>2. r[0] = p[0] /\ r[m + n] = IF n = 0 THEN p[m + n] ELSE q[n]
    BY <2>1
  <2>3. n = 0 => m + n = m
    BY <1>3
  <2> HIDE DEF r
  <2> QED  BY <1>1, <1>2, <2>2, <2>3
<1>5. ASSUME NEW k \in 1 .. m + n PROVE <<r[k - 1], (v \o w)[k], r[k]>> \in R
  <2>1. CASE k <= m
    <3>1. k \in 1 .. m /\ k - 1 \in 0 .. m + n /\ k \in 0 .. m + n /\ k - 1 <= m
      BY <1>3, <2>1
    <3>2. r[k - 1] = p[k - 1] /\ r[k] = p[k]
      BY <2>1, <3>1
    <3>3. (v \o w)[k] = v[k] /\ <<p[k - 1], v[k], p[k]>> \in R
      BY <1>1, <1>3, <2>1, <3>1
    <3> HIDE DEF r
    <3> QED  BY <3>2, <3>3
  <2>2. CASE k = m + 1
    <3>1. k - 1 = m /\ k - m = 1 /\ ~(k <= m) /\ 1 \in 1 .. n /\ 1 - 1 = 0 /\ k - 1 \in 0 .. m + n /\ m <= m
      BY <1>3, <2>2
    <3>2. r[k - 1] = p[m] /\ r[k] = q[1]
      <4>1. r[k - 1] = p[k - 1]
        BY <3>1
      <4>2. r[k] = q[k - m]
        BY <3>1
      <4> HIDE DEF r
      <4> QED  BY <3>1, <4>1, <4>2
    <3>3. (v \o w)[k] = w[1]
      BY <1>3, <3>1
    <3>4. <<q[0], w[1], q[1]>> \in R
      BY <1>2, <3>1
    <3> HIDE DEF r
    <3> QED  BY <1>1, <1>2, <3>2, <3>3, <3>4
  <2>3. CASE k > m + 1
    <3> DEFINE j == k - m
    <3>1. j \in 1 .. n /\ (k - 1) - m = j - 1 /\ ~(k <= m) /\ ~(k - 1 <= m) /\ k - 1 \in 0 .. m + n
      BY <1>3, <2>3
    <3>2. r[k - 1] = q[j - 1] /\ r[k] = q[j]
      BY <3>1
    <3>3. (v \o w)[k] = w[j]
      BY <1>3, <3>1
    <3>4. <<q[j - 1], w[j], q[j]>> \in R
      <4> HIDE DEF j, r
      <4> QED  BY <1>2, <3>1
    <3> HIDE DEF j, r
    <3> QED  BY <3>2, <3>3, <3>4
  <2>4. k <= m \/ k = m + 1 \/ k > m + 1
    BY <1>3
  <2> QED  BY <2>1, <2>2, <2>3, <2>4
<1> HIDE DEF r
<1> QED  BY <1>3, <1>4, <1>5 DEF Run

(* A side that takes two pieces is somewhere between them. *)
LEMMA RunSplit ==
  ASSUME NEW B, NEW v \in Seq(B), NEW w \in Seq(B), NEW R, NEW s, NEW u,
         Run(R, v \o w, s, u)
  PROVE  \E t : Run(R, v, s, t) /\ Run(R, w, t, u)
<1> DEFINE m == Len(v)
           n == Len(w)
<1>3. /\ m \in Nat /\ n \in Nat /\ Len(v \o w) = m + n
      /\ \A k \in 1 .. m + n : (v \o w)[k] = IF k <= m THEN v[k] ELSE w[k - m]
  BY LenProperties, ConcatProperties
<1>1. PICK p : /\ p[0] = s /\ p[m + n] = u
               /\ \A k \in 1 .. m + n : <<p[k - 1], (v \o w)[k], p[k]>> \in R
  BY <1>3 DEF Run
<1> DEFINE q == [k \in 0 .. n |-> p[m + k]]
<1> HIDE DEF m, n
<1>4. ASSUME NEW k \in 1 .. m PROVE <<p[k - 1], v[k], p[k]>> \in R
  <2>1. k \in 1 .. m + n /\ k <= m
    BY <1>3
  <2>2. (v \o w)[k] = v[k] /\ <<p[k - 1], (v \o w)[k], p[k]>> \in R
    BY <1>1, <1>3, <2>1
  <2> QED  BY <2>2
<1>5. ASSUME NEW k \in 1 .. n PROVE <<q[k - 1], w[k], q[k]>> \in R
  <2>1. m + k \in 1 .. m + n /\ ~(m + k <= m) /\ (m + k) - m = k /\ (m + k) - 1 = m + (k - 1)
    BY <1>3
  <2>2. q[k - 1] = p[m + (k - 1)] /\ q[k] = p[m + k]
    BY <1>3
  <2>3. (v \o w)[m + k] = w[k]
    BY <1>3, <2>1
  <2>4. <<p[(m + k) - 1], (v \o w)[m + k], p[m + k]>> \in R
    <3>1. PICK j \in 1 .. m + n : j = m + k
      BY <2>1
    <3>2. <<p[j - 1], (v \o w)[j], p[j]>> \in R
      BY <1>1, Zenon
    <3> QED  BY <3>1, <3>2, Zenon
  <2> HIDE DEF q
  <2> QED  BY <2>1, <2>2, <2>3, <2>4
<1>6. q[0] = p[m] /\ q[n] = u
  BY <1>1, <1>3
<1>7. Run(R, v, s, p[m])
  BY <1>1, <1>4 DEF Run, m
<1>8. Run(R, w, p[m], u)
  <2> HIDE DEF q
  <2> QED  BY <1>5, <1>6 DEF Run, n
<1> QED  BY <1>7, <1>8

(* A side stays where it is as long as nothing arrives. *)
LEMMA RunNothing ==
  ASSUME NEW R, NEW s, NEW t
  PROVE  Run(R, <<>>, s, t) <=> s = t
<1>1. Len(<<>>) = 0
  BY EmptySeq
<1>2. ASSUME s = t PROVE Run(R, <<>>, s, t)
  <2> DEFINE p == [k \in 0 .. 0 |-> s]
  <2>1. p[0] = s /\ 1 .. 0 = {}
    OBVIOUS
  <2> HIDE DEF p
  <2> QED  BY <1>1, <1>2, <2>1 DEF Run
<1> QED  BY <1>1, <1>2 DEF Run

(* One unit is one step. *)
LEMMA RunOne ==
  ASSUME NEW R, NEW s, NEW t, NEW b
  PROVE  Run(R, <<b>>, s, t) <=> <<s, b, t>> \in R
<1>1. Len(<<b>>) = 1 /\ <<b>>[1] = b /\ 1 .. 1 = {1} /\ 1 - 1 = 0
  OBVIOUS
<1>2. ASSUME <<s, b, t>> \in R PROVE Run(R, <<b>>, s, t)
  <2> DEFINE p == [k \in 0 .. 1 |-> IF k = 0 THEN s ELSE t]
  <2>1. p[0] = s /\ p[1] = t
    OBVIOUS
  <2> HIDE DEF p
  <2> QED  BY <1>1, <1>2, <2>1 DEF Run
<1> QED  BY <1>1, <1>2 DEF Run

(* What is on its way begins with a unit that the reader can take. *)
LEMMA RunFirst ==
  ASSUME NEW B, NEW w \in Seq(B), w # <<>>, NEW R, NEW s, NEW t, Run(R, w, s, t)
  PROVE  /\ Head(w) \in B /\ Tail(w) \in Seq(B)
         /\ \E q : <<s, Head(w), q>> \in R /\ Run(R, Tail(w), q, t)
<1>1. Head(w) \in B /\ Tail(w) \in Seq(B) /\ <<Head(w)>> \in Seq(B)
  BY HeadTailProperties
<1>2. w = <<Head(w)>> \o Tail(w)
  <2>1. Len(w) \in Nat \ {0} /\ Len(Tail(w)) = Len(w) - 1 /\ Len(Tail(w)) \in Nat
    BY <1>1, EmptySeq, HeadTailProperties, LenProperties
  <2>2. Head(w) = w[1] /\ \A i \in 1 .. Len(Tail(w)) : Tail(w)[i] = w[i + 1]
    BY HeadTailProperties
  <2> QED  BY <1>1, <2>1, <2>2
<1>3. PICK q : Run(R, <<Head(w)>>, s, q) /\ Run(R, Tail(w), q, t)
  <2>1. Run(R, <<Head(w)>> \o Tail(w), s, t)
    BY <1>2
  <2> QED  BY <1>1, <2>1, RunSplit
<1> QED  BY <1>1, <1>3, RunOne

(* With more steps allowed what could be taken still can. *)
LEMMA RunMore ==
  ASSUME NEW w, NEW R, NEW S, R \subseteq S, NEW s, NEW t, Run(R, w, s, t)
  PROVE  Run(S, w, s, t)
BY DEF Run

(* The same run, seen through a function of the states. *)
LEMMA RunMapped ==
  ASSUME NEW B, NEW w \in Seq(B), NEW R, NEW S, NEW D, NEW f, NEW s, NEW t,
         \A a, b, c : <<a, b, c>> \in R => <<f[a], b, f[c]>> \in S,
         Run(R, w, s, t)
  PROVE  Run(S, w, f[s], f[t])
<1> DEFINE n == Len(w)
<1>1. n \in Nat
  BY LenProperties
<1>2. PICK p : p[0] = s /\ p[n] = t /\ \A k \in 1 .. n : <<p[k - 1], w[k], p[k]>> \in R
  BY DEF Run
<1> HIDE DEF n
<1> DEFINE q == [k \in 0 .. n |-> f[p[k]]]
<1>3. q[0] = f[s] /\ q[n] = f[t]
  BY <1>1, <1>2
<1>4. ASSUME NEW k \in 1 .. n PROVE <<q[k - 1], w[k], q[k]>> \in S
  <2>1. k \in 0 .. n /\ k - 1 \in 0 .. n
    BY <1>1
  <2>2. q[k] = f[p[k]] /\ q[k - 1] = f[p[k - 1]]
    BY <2>1
  <2>3. <<p[k - 1], w[k], p[k]>> \in R
    BY <1>2
  <2> HIDE DEF q
  <2> QED  BY <2>2, <2>3
<1> HIDE DEF q
<1> QED  BY <1>3, <1>4 DEF Run, n

(* Nothing is on its way to a side that takes nothing. *)
LEMMA RunStuck ==
  ASSUME NEW B, NEW w \in Seq(B), NEW R, NEW s, NEW t, Run(R, w, s, t),
         \A b, c : <<s, b, c>> \notin R
  PROVE  w = <<>> /\ s = t
<1>1. w = <<>>
  BY RunFirst
<1> QED  BY <1>1, RunNothing

(* A side that stays where it is may take any number of the same unit. *)
LEMMA RunSame ==
  ASSUME NEW n \in Nat, NEW u, NEW w, Len(w) = n, \A k \in 1 .. n : w[k] = u,
         NEW R, NEW s, <<s, u, s>> \in R
  PROVE  Run(R, w, s, s)
<1> DEFINE p == [k \in 0 .. n |-> s]
<1>1. p[0] = s /\ p[n] = s
  OBVIOUS
<1>2. ASSUME NEW k \in 1 .. n PROVE <<p[k - 1], w[k], p[k]>> \in R
  <2>1. k \in 0 .. n /\ k - 1 \in 0 .. n
    OBVIOUS
  <2>2. p[k] = s /\ p[k - 1] = s
    BY <2>1
  <2> HIDE DEF p
  <2> QED  BY <2>2
<1> HIDE DEF p
<1> QED  BY <1>1, <1>2 DEF Run

-----------------------------------------------------------------------------
(* The bytes of files, of any lengths. *)
LEMMA TotalOfFile ==
  ASSUME NEW length \in [Files -> Nat], NEW k \in Files
  PROVE  /\ IsFiniteSet({k} \X (1 .. length[k])) /\ Cardinality({k} \X (1 .. length[k])) = length[k]
         /\ length[k] \in Nat /\ Total({k}, length) = length[k]
<1>1. length[k] \in Nat
  OBVIOUS
<1>2. IsFiniteSet(1 .. length[k]) /\ Cardinality(1 .. length[k]) = length[k]
  <2>1. /\ IsFiniteSet(1 .. length[k])
        /\ Cardinality(1 .. length[k]) = IF 1 > length[k] THEN 0 ELSE length[k] - 1 + 1
    BY <1>1, FS_Interval
  <2> QED  BY <1>1, <2>1
<1>3. IsFiniteSet({k}) /\ Cardinality({k}) = 1
  BY FS_Singleton
<1>4. /\ IsFiniteSet({k} \X (1 .. length[k]))
      /\ Cardinality({k} \X (1 .. length[k])) = 1 * length[k]
  BY <1>2, <1>3, FS_Product
<1>5. BytesOf({k}, length) = {k} \X (1 .. length[k])
  BY DEF BytesOf
<1>6. 1 * length[k] = length[k]
  BY <1>1
<1> QED  BY <1>1, <1>4, <1>5, <1>6 DEF Total

(* The files are 1 .. Len(Sizes). *)
LEMMA FilesFinite == IsFiniteSet(Files) /\ Files = 1 .. Len(Sizes) /\ Len(Sizes) \in Nat
<1>1. Files = 1 .. Len(Sizes) /\ Len(Sizes) \in Nat
  BY SessionAssumption, LenProperties DEF Files
<1> QED  BY <1>1, FS_Interval

(* Files have finitely many bytes, and Total is their number. *)
LEMMA TotalFinite ==
  ASSUME NEW length \in [Files -> Nat], NEW files \in SUBSET Files
  PROVE  /\ IsFiniteSet(BytesOf(files, length))
         /\ Total(files, length) = Cardinality(BytesOf(files, length)) /\ Total(files, length) \in Nat
<1>1. IsFiniteSet(files)
  BY FilesFinite, FS_Subset
<1> DEFINE Row(k) == {k} \X (1 .. length[k])
<1>2. IsFiniteSet({Row(k) : k \in files})
  <2> DEFINE f == [k \in files |-> Row(k)]
             T == {Row(k) : k \in files}
  <2>1. f \in [files -> T] /\ \A t \in T : \E k \in files : f[k] = t
    OBVIOUS
  <2>2. f \in Surjection(files, T)
    <3> HIDE DEF f, T
    <3> QED  BY <2>1 DEF Surjection
  <2> HIDE DEF f, T
  <2>3. IsFiniteSet(T)
    BY <1>1, <2>2, FS_Surjection
  <2> QED  BY <2>3 DEF T
<1>3. \A T \in {Row(k) : k \in files} : IsFiniteSet(T)
  BY TotalOfFile
<1>4. IsFiniteSet(UNION {Row(k) : k \in files})
  <2> HIDE DEF Row
  <2> QED  BY <1>2, <1>3, FS_UNION
<1>5. IsFiniteSet(BytesOf(files, length))
  BY <1>4 DEF BytesOf
<1> QED  BY <1>5, FS_CardinalityType DEF Total

(* Of files apart from one another. *)
LEMMA TotalOfTwo ==
  ASSUME NEW length \in [Files -> Nat], NEW a \in SUBSET Files, NEW b \in SUBSET Files, a \cap b = {}
  PROVE  Total(a \cup b, length) = Total(a, length) + Total(b, length)
<1>1. BytesOf(a \cup b, length) = BytesOf(a, length) \cup BytesOf(b, length)
  BY DEF BytesOf
<1>2. BytesOf(a, length) \cap BytesOf(b, length) = {}
  BY DEF BytesOf
<1>3. /\ IsFiniteSet(BytesOf(a, length)) /\ IsFiniteSet(BytesOf(b, length)) /\ a \cup b \in SUBSET Files
      /\ Total(a, length) = Cardinality(BytesOf(a, length)) /\ Total(b, length) = Cardinality(BytesOf(b, length))
      /\ Total(a, length) \in Nat /\ Total(b, length) \in Nat
  BY TotalFinite
<1>4. Total(a \cup b, length) = Cardinality(BytesOf(a, length) \cup BytesOf(b, length))
  BY <1>1, <1>3, TotalFinite
<1>5. Cardinality({}) = 0
  BY FS_EmptySet
<1>6. Cardinality(BytesOf(a, length) \cup BytesOf(b, length)) =
        Cardinality(BytesOf(a, length)) + Cardinality(BytesOf(b, length))
          - Cardinality(BytesOf(a, length) \cap BytesOf(b, length))
  BY <1>3, FS_Union
<1>7. Cardinality(BytesOf(a, length) \cap BytesOf(b, length)) = 0
  BY <1>2, <1>5
<1> QED  BY <1>3, <1>4, <1>6, <1>7

(* No files have no bytes. *)
LEMMA TotalOfNone == \A length : Total({}, length) = 0
<1>1. \A length : BytesOf({}, length) = {}
  BY DEF BytesOf
<1> QED  BY <1>1, FS_EmptySet DEF Total

(* One file more or less changes the number of bytes by its length. *)
LEMMA TotalOfMore ==
  ASSUME NEW length \in [Files -> Nat], NEW a \in SUBSET Files, NEW k \in Files
  PROVE  /\ k \notin a => Total(a \cup {k}, length) = Total(a, length) + length[k]
         /\ k \in a => Total(a \ {k}, length) = Total(a, length) - length[k]
<1>1. ASSUME NEW b \in SUBSET Files, k \notin b
      PROVE  /\ Total(b \cup {k}, length) = Total(b, length) + length[k]
             /\ Total(b, length) \in Nat /\ length[k] \in Nat
  <2>1. {k} \in SUBSET Files /\ b \cap {k} = {}
    BY <1>1
  <2>2. Total(b \cup {k}, length) = Total(b, length) + Total({k}, length)
    BY <2>1, TotalOfTwo
  <2>3. Total({k}, length) = length[k] /\ length[k] \in Nat
    BY TotalOfFile
  <2>4. Total(b, length) \in Nat
    BY TotalFinite
  <2> QED  BY <2>2, <2>3, <2>4
<1>2. ASSUME k \in a PROVE Total(a \ {k}, length) = Total(a, length) - length[k]
  <2>1. (a \ {k}) \cup {k} = a /\ k \notin a \ {k} /\ a \ {k} \in SUBSET Files
    BY <1>2
  <2>2. /\ Total(a, length) = Total(a \ {k}, length) + length[k]
        /\ Total(a \ {k}, length) \in Nat /\ length[k] \in Nat
    BY <1>1, <2>1
  <2> QED  BY <2>2
<1> QED  BY <1>1, <1>2

(* The length of a file does not matter to the others. *)
LEMMA TotalOfOthers ==
  ASSUME NEW length \in [Files -> Nat], NEW a \in SUBSET Files, NEW k \in Files \ a, NEW n \in Nat
  PROVE  Total(a, [length EXCEPT ![k] = n]) = Total(a, length)
<1>1. \A j \in a : [length EXCEPT ![k] = n][j] = length[j]
  OBVIOUS
<1>2. BytesOf(a, [length EXCEPT ![k] = n]) = BytesOf(a, length)
  BY <1>1 DEF BytesOf
<1> QED  BY <1>2 DEF Total

(* The sizes on the list are lengths of the files. *)
LEMMA SizesAreLengths == Sizes \in [Files -> Nat]
BY SessionAssumption DEF Files

(* SizeOf is the number of bytes of files that are as long as the list says. *)
LEMMA BytesFinite ==
  ASSUME NEW files \in SUBSET Files
  PROVE  SizeOf(files) \in Nat
BY SizesAreLengths, TotalFinite DEF SizeOf

(* Of files apart from one another. *)
LEMMA SizeOfTwo ==
  ASSUME NEW a \in SUBSET Files, NEW b \in SUBSET Files, a \cap b = {}
  PROVE  SizeOf(a \cup b) = SizeOf(a) + SizeOf(b)
BY SizesAreLengths, TotalOfTwo DEF SizeOf

(* No files have no bytes. *)
LEMMA SizeOfNone == SizeOf({}) = 0
BY TotalOfNone DEF SizeOf

-----------------------------------------------------------------------------
(* What every theorem below rests on. *)
Inv ==
  /\ TypeInv /\ PlaceInv /\ PromptInv /\ ProtocolInv /\ CountInv
  /\ InwardInv /\ OutwardInv

-----------------------------------------------------------------------------
(* Units, and short sequences of them. *)
LEMMA UnitShapes ==
  /\ \A kind \in Kinds \ {"version", "index"} : Just(kind) \in Units /\ Just(kind).kind = kind
  /\ \A k \in Int : /\ Index(k) \in Units /\ Index(k).kind = "index" /\ Index(k).value = k
                    /\ Unit("version", k) \in Units /\ Unit("version", k).kind = "version"
                    /\ Unit("version", k).value = k
                    /\ Unit("compatibility", k) \in Units /\ Unit("compatibility", k).kind = "compatibility"
                    /\ Unit("compatibility", k).value = k
  /\ \A text \in Texts : /\ Unit("line", text) \in Units /\ Unit("line", text).kind = "line"
                          /\ Unit("line", text).value = text
                          /\ Unit("flags", text) \in Units /\ Unit("flags", text).kind = "flags"
                          /\ Unit("flags", text).value = text
  /\ INDEX_DONE \in Int
<1>1. ASSUME NEW kind \in Kinds, NEW value \in Int \cup Texts,
             kind \in {"version", "index"} => value \in Int
      PROVE  /\ Unit(kind, value) \in Units
             /\ Unit(kind, value).kind = kind /\ Unit(kind, value).value = value
  BY <1>1 DEF Units, Unit
<1>2. \A k \in {"version", "index", "compatibility", "line", "flags"} : k \in Kinds
  BY DEF Kinds
<1>3. /\ \A kind \in Kinds \ {"version", "index"} : Just(kind) \in Units /\ Just(kind).kind = kind
      /\ \A k \in Int : Index(k) \in Units /\ Index(k).kind = "index" /\ Index(k).value = k
  <2>1. 0 \in Int
    OBVIOUS
  <2> QED  BY <1>1, <1>2, <2>1 DEF Just, Index
<1>4. \A k \in Int : /\ Unit("version", k) \in Units /\ Unit("version", k).kind = "version"
                    /\ Unit("version", k).value = k
                    /\ Unit("compatibility", k) \in Units /\ Unit("compatibility", k).kind = "compatibility"
                    /\ Unit("compatibility", k).value = k
  BY <1>1, <1>2
<1>5. \A text \in Texts :
         /\ Unit("line", text) \in Units /\ Unit("line", text).kind = "line"
         /\ Unit("line", text).value = text
         /\ Unit("flags", text) \in Units /\ Unit("flags", text).kind = "flags"
         /\ Unit("flags", text).value = text
  BY <1>1, <1>2
<1> QED  BY <1>3, <1>4, <1>5 DEF INDEX_DONE

(* What a unit consists of. *)
LEMMA UnitFields ==
  ASSUME NEW u \in Units
  PROVE  /\ u.kind \in Kinds /\ u.value \in Int \cup Texts
         /\ u.kind \in {"version", "index"} => u.value \in Int
         /\ u = Unit(u.kind, u.value)
BY DEF Units, Unit

(* A few units are a sequence of units. *)
LEMMA Few ==
  ASSUME NEW a \in Units, NEW b \in Units, NEW c \in Units
  PROVE  <<>> \in Seq(Units) /\ <<a>> \in Seq(Units) /\ <<a, b>> \in Seq(Units) /\ <<a, b, c>> \in Seq(Units)
OBVIOUS

(* The entries of a list are units. *)
LEMMA ListUnits ==
  ASSUME NEW n \in Nat
  PROVE  /\ Entries(n) \in Seq(Units) /\ Len(Entries(n)) = n
         /\ \A k \in 1 .. n : Entries(n)[k] = Just("entry")
<1>1. Just("entry") \in Units
  BY UnitShapes DEF Kinds
<1>2. Entries(n) = [k \in 1 .. n |-> Just("entry")] /\ Entries(n) \in [1 .. n -> Units]
  BY <1>1 DEF Entries
<1> HIDE DEF Entries
<1> QED  BY <1>2

(* What a write or a read leaves. *)
LEMMA WriteTypes ==
  ASSUME out \in Seq(Units), buffer \in Seq(Units), NEW units \in Seq(Units),
         WritesDirectly(units) \/ Buffers(units) \/ Flushes(units) \/ WritesNothing
  PROVE  out' \in Seq(Units) /\ buffer' \in Seq(Units)
<1>1. out \o units \in Seq(Units) /\ buffer \o units \in Seq(Units) /\ <<>> \in Seq(Units)
  BY ConcatProperties, EmptySeq
<1>2. (out \o buffer) \o units \in Seq(Units)
  <2>1. out \o buffer \in Seq(Units)
    BY ConcatProperties
  <2> QED  BY <2>1, ConcatProperties
<1> QED  BY <1>1, <1>2 DEF WritesDirectly, Buffers, Flushes, WritesNothing

(* What a read of the client takes is a unit of that kind. *)
LEMMA ReadTypes ==
  ASSUME in \in Seq(Units), NEW kind, Reads(kind)
  PROVE  in # <<>> /\ in' = Tail(in) /\ in' \in Seq(Units) /\ Head(in) \in Units /\ Head(in).kind = kind
BY HeadTailProperties DEF Reads

(* The same for the remote side. *)
LEMMA RemoteReadTypes ==
  ASSUME out \in Seq(Units), NEW kind, RemoteReads(kind)
  PROVE  out # <<>> /\ out' = Tail(out) /\ out' \in Seq(Units) /\ Head(out) \in Units /\ Head(out).kind = kind
BY HeadTailProperties DEF RemoteReads

(* What the remote side writes leaves units on the way. *)
LEMMA RemoteWriteTypes ==
  ASSUME in \in Seq(Units), NEW units \in Seq(Units), RemoteWrites(units)
  PROVE  in' \in Seq(Units)
BY ConcatProperties DEF RemoteWrites

(* All that the client writes is units. *)
LEMMA FilterUnits ==
  [k \in 1 .. 5 |-> IF k <= 4 THEN Just("filter") ELSE Just("no filter")] =
    <<Just("filter"), Just("filter"), Just("filter"), Just("filter"), Just("no filter")>>
<1> DEFINE a == Just("filter")
           b == Just("no filter")
<1>1. ASSUME NEW k \in 1 .. 5
      PROVE  (IF k <= 4 THEN a ELSE b) = <<a, a, a, a, b>>[k]
  <2>1. k = 1 \/ k = 2 \/ k = 3 \/ k = 4 \/ k = 5
    OBVIOUS
  <2> HIDE DEF a, b
  <2> QED  BY <2>1
<1>2. <<a, a, a, a, b>> = [k \in 1 .. 5 |-> <<a, a, a, a, b>>[k]]
  OBVIOUS
<1> HIDE DEF a, b
<1>3. [k \in 1 .. 5 |-> IF k <= 4 THEN a ELSE b] = [k \in 1 .. 5 |-> <<a, a, a, a, b>>[k]]
  BY <1>1
<1> QED  BY <1>2, <1>3 DEF a, b

(* The whole list that the client sends is units. *)
LEMMA ListOfUnits ==
  ASSUME NEW n \in Nat
  PROVE  Entries(n) \o <<Just("end")>> \o IoError \in Seq(Units)
<1>1. Just("end") \in Units /\ Just("io error") \in Units
  BY UnitShapes DEF Kinds
<1>2. <<Just("end")>> \in Seq(Units) /\ IoError \in Seq(Units)
  <2>1. <<Just("end")>> \in Seq(Units) /\ <<Just("io error")>> \in Seq(Units) /\ <<>> \in Seq(Units)
    BY <1>1, Few
  <2> QED  BY <2>1 DEF IoError
<1>3. Entries(n) \o <<Just("end")>> \in Seq(Units)
  BY <1>2, ListUnits, ConcatProperties
<1> QED  BY <1>2, <1>3, ConcatProperties

(* The version on which both settle is none above 30, nor above either of theirs. *)
LEMMA Agreement ==
  ASSUME connection \in Connections
  PROVE  /\ connection.daemon \in BOOLEAN /\ connection.preferred \in {29, 30} /\ connection.version \in Nat
         /\ Agreed \in Nat /\ Agreed <= connection.preferred /\ Agreed <= 30 /\ Agreed <= connection.version
BY SessionAssumption DEF Agreed

-----------------------------------------------------------------------------
(* The next unit, and where the client is when it has taken it. *)
LEMMA InwardHead ==
  ASSUME TypeInv, InwardInv, ~Gone, in # <<>>
  PROVE  /\ Head(in) \in Units /\ Tail(in) \in Seq(Units)
         /\ \E l, m \in Int, g \in SUBSET Int, q \in ClientState :
              /\ ClientTakes(ClientAt(l, g), Head(in), q)
              /\ Run(ClientSteps, Tail(in), q, ClientWillBe(m))
              /\ g \subseteq sent
              /\ op = "upload" /\ phase = 0 => l = lastIndex
              /\ op = "upload" /\ dones = 0 => m < wanted /\ \A j \in asked : j <= m
<1>1. PICK l \in Int : \E m \in Int, g \in SUBSET Int :
        /\ Run(ClientSteps, in, ClientAt(l, g), ClientWillBe(m))
        /\ g \subseteq sent
        /\ op = "upload" /\ phase = 0 => l = lastIndex
        /\ op = "upload" /\ dones = 0 => m < wanted /\ \A j \in asked : j <= m
  BY DEF InwardInv
<1>2. PICK m \in Int : \E g \in SUBSET Int :
        /\ Run(ClientSteps, in, ClientAt(l, g), ClientWillBe(m))
        /\ g \subseteq sent
        /\ op = "upload" /\ phase = 0 => l = lastIndex
        /\ op = "upload" /\ dones = 0 => m < wanted /\ \A j \in asked : j <= m
  BY <1>1
<1>3. PICK g \in SUBSET Int :
        /\ Run(ClientSteps, in, ClientAt(l, g), ClientWillBe(m))
        /\ g \subseteq sent
        /\ op = "upload" /\ phase = 0 => l = lastIndex
        /\ op = "upload" /\ dones = 0 => m < wanted /\ \A j \in asked : j <= m
  BY <1>2
<1>4. in \in Seq(Units)
  BY DEF TypeInv
<1>5. /\ Head(in) \in Units /\ Tail(in) \in Seq(Units)
      /\ \E q : <<ClientAt(l, g), Head(in), q>> \in ClientSteps /\ Run(ClientSteps, Tail(in), q, ClientWillBe(m))
  BY <1>3, <1>4, RunFirst
<1>6. PICK q : <<ClientAt(l, g), Head(in), q>> \in ClientSteps /\ Run(ClientSteps, Tail(in), q, ClientWillBe(m))
  BY <1>5
<1>7. q \in ClientState /\ ClientTakes(ClientAt(l, g), Head(in), q)
  BY <1>6 DEF ClientSteps
<1> QED  BY <1>3, <1>5, <1>6, <1>7

(* Nothing is on its way to a client that waits for nothing. *)
LEMMA ClientWaits ==
  ASSUME NEW s, NEW w \in Seq(Units), NEW t, Run(ClientSteps, w, s, t),
         s.place \in {"authorizing", "arguments", "end"}
  PROVE  w = <<>> /\ s = t
<1>1. \A b, c : <<s, b, c>> \notin ClientSteps
  BY DEF ClientSteps, ClientTakes, TakesSetUp, TakesList, TakesDone, TakesIndex, TakesFlags
<1> QED  BY <1>1, RunStuck

(* The fields of the two states between which what is on its way leads the client. *)
LEMMA PlaceOf ==
  ASSUME NEW l, NEW g
  PROVE  /\ ClientAt(l, g).place = ClientPlace /\ ClientAt(l, g).left = ClientLeft
         /\ ClientAt(l, g).last = l /\ ClientAt(l, g).again = g
         /\ ClientWillBe(l).place = RemoteWritesAt /\ ClientWillBe(l).last = l
         /\ ClientWillBe(l).left = (IF op = "upload" THEN 4 - dones ELSE 4)
         /\ ClientWillBe(l).again = redo
BY DEF ClientAt, ClientWillBe

(* Where the client is in what it reads. *)
LEMMA ClientPlaces1 ==
  /\ pc \in {"connect", "version", "login"} => ClientPlace = "greeting"
  /\ pc = "lines" => ClientPlace = IF rpc = "response" /\ out # <<>> THEN "authorizing" ELSE "lines"
  /\ pc = "compatibility" => ClientPlace = IF rpc = "arguments" THEN "arguments" ELSE "compatibility"
  /\ pc = "seed" => ClientPlace = IF rpc = "arguments" THEN "arguments" ELSE "seed"
  /\ pc = "receive list" => ClientPlace = "entries"
  /\ pc = "io error" => ClientPlace = "io error"
  /\ pc \in {"flags", "round flags"} => ClientPlace = "flags"
  /\ pc = "checksums" => ClientPlace = "checksums"
  /\ pc \in {"filters", "send list", "upload", "rounds"} => ClientPlace = "index"
BY DEF ClientPlace

(* Of what the client reads, how much it can rely on. *)
LEMMA ExpectGreeting ==
  ASSUME TypeInv, InwardInv, in # <<>>, pc \in {"version", "login"}
  PROVE  Head(in) = Unit("version", connection.version)
<1>1. ~Gone /\ ClientPlace = "greeting"
  BY ClientPlaces1 DEF Gone
<1>2. PICK l, g, q : ClientTakes(ClientAt(l, g), Head(in), q)
  BY <1>1, InwardHead
<1> QED
  BY <1>1, <1>2, PlaceOf DEF ClientTakes, TakesSetUp, TakesList, TakesDone, TakesIndex, TakesFlags

(* What a client that reads a line finds, and what the daemon does meanwhile. *)
LEMMA ExpectLine ==
  ASSUME TypeInv, InwardInv, in # <<>>, pc = "lines"
  PROVE  /\ Head(in).kind = "line" /\ ~(rpc = "response" /\ out # <<>>)
         /\ Head(in).value \in {"text", "authreqd", "ok", "exit", "error"}
         /\ Head(in).value = "authreqd" =>
              op # "listModules" /\ Tail(in) = <<>> /\ rpc = "response" /\ out = <<>>
         /\ Head(in).value = "ok" => op # "listModules" /\ Tail(in) = <<>> /\ rpc = "arguments"
         /\ Head(in).value = "exit" => op = "listModules"
<1>1. ~Gone
  BY DEF Gone
<1>2. PICK l, m, g, q : /\ ClientTakes(ClientAt(l, g), Head(in), q)
                        /\ Run(ClientSteps, Tail(in), q, ClientWillBe(m)) /\ Tail(in) \in Seq(Units)
                        /\ q \in ClientState
  BY <1>1, InwardHead
<1>3. TakesSetUp(ClientAt(l, g), Head(in), q) /\ ClientPlace = "lines"
  <2>1. ClientAt(l, g).place = ClientPlace /\ ClientPlace \in {"authorizing", "lines"}
    BY PlaceOf, ClientPlaces1
  <2> HIDE DEF ClientAt, ClientPlace
  <2> QED
    BY <1>2, <2>1 DEF ClientTakes, TakesSetUp, TakesList, TakesDone, TakesIndex, TakesFlags
<1>4. ~(rpc = "response" /\ out # <<>>)
  BY <1>3, ClientPlaces1
<1>5. /\ Head(in).kind = "line"
      /\ Head(in).value \in {"text", "authreqd", "ok", "exit", "error"}
      /\ Head(in).value = "authreqd" => op # "listModules" /\ q.place = "authorizing"
      /\ Head(in).value = "ok" => op # "listModules" /\ q.place = "arguments"
      /\ Head(in).value = "exit" => op = "listModules"
  BY <1>3, PlaceOf, <1>2 DEF TakesSetUp, MovesTo, ClientAt
<1>6. q.place \in {"authorizing", "arguments"} => Tail(in) = <<>> /\ q.place = RemoteWritesAt
  <2>1. ASSUME q.place \in {"authorizing", "arguments"} PROVE Tail(in) = <<>> /\ q = ClientWillBe(m)
    BY <1>2, <2>1, ClientWaits
  <2> QED  BY <2>1, PlaceOf
<1>7. /\ RemoteWritesAt = "authorizing" => rpc = "response"
      /\ RemoteWritesAt = "arguments" => rpc = "arguments"
  BY DEF RemoteWritesAt, Outcome, AfterVersion
<1> QED  BY <1>4, <1>5, <1>6, <1>7
(* With something on its way, the remote side has the arguments. *)
LEMMA ExpectSetUp ==
  ASSUME TypeInv, InwardInv, in # <<>>, pc \in {"compatibility", "seed"}
  PROVE  rpc # "arguments"
<1>1. ~Gone
  BY DEF Gone
<1>2. PICK l, g, q : ClientTakes(ClientAt(l, g), Head(in), q)
  BY <1>1, InwardHead
<1>3. ClientPlace # "arguments"
  <2>1. ClientAt(l, g).place = ClientPlace
    BY PlaceOf
  <2> HIDE DEF ClientAt, ClientPlace
  <2> QED  BY <1>2, <2>1 DEF ClientTakes, TakesSetUp, TakesList, TakesDone, TakesIndex, TakesFlags
<1> QED  BY <1>3, ClientPlaces1

(* What a client that reads an index finds: an INDEX_DONE of which one is
   still to come, or an index of the first or of the second phase. *)
LEMMA ExpectIndex ==
  ASSUME TypeInv, PlaceInv, InwardInv, in # <<>>, pc \in {"upload", "rounds"}
  PROVE  /\ Head(in).kind = "index" /\ Head(in) = Index(Head(in).value)
         /\ Head(in).value = INDEX_DONE \/ Head(in).value \in Nat \ {0}
         /\ Head(in).value = INDEX_DONE /\ op = "upload" =>
              /\ ClientLeft > 4 - dones
              /\ ClientLeft = 4 => \A j \in asked : j <= lastIndex
         /\ Head(in).value # INDEX_DONE =>
              /\ op # "link"
              /\ op = "upload" =>
                   \/ /\ ClientLeft = 4 /\ lastIndex < Head(in).value /\ Head(in).value < wanted
                      /\ Head(in).value \in asked
                      /\ \A j \in asked : j <= lastIndex \/ Head(in).value <= j
                   \/ /\ ClientLeft = 3 /\ retried = TRUE /\ echoed >= 1
                      /\ Head(in).value \in sent
<1>1. ~Gone /\ ClientPlace = "index"
  BY ClientPlaces1 DEF Gone
<1>2. PICK l, m \in Int, g \in SUBSET Int, q \in ClientState :
        /\ ClientTakes(ClientAt(l, g), Head(in), q)
        /\ g \subseteq sent
        /\ op = "upload" /\ phase = 0 => l = lastIndex
  BY <1>1, InwardHead
<1> DEFINE s == ClientAt(l, g)
<1>3. s.place = "index" /\ s.left = ClientLeft /\ s.last = l /\ s.again = g
  BY <1>1, PlaceOf
<1> HIDE DEF s
<1>4. TakesDone(s, Head(in), q) \/ TakesIndex(s, Head(in), q)
  BY <1>2, <1>3 DEF ClientTakes, TakesSetUp, TakesList, TakesFlags, s
<1>5. Head(in) \in Units /\ Head(in) = Unit(Head(in).kind, Head(in).value)
  BY <1>1, InwardHead, UnitFields
<1>6. op = "upload" /\ ClientLeft = 4 => l = lastIndex
  <2>1. op = "upload" /\ ClientLeft = 4 => phase = 0
    <3>1. CASE pc = "upload"
      <4>1. phase \in {0, 1}
        BY <3>1 DEF PlaceInv
      <4>2. op = "upload" => ClientLeft = 4 - phase
        BY <3>1 DEF ClientLeft
      <4> QED  BY <4>1, <4>2
    <3>2. CASE pc = "rounds"
      <4>1. op = "upload" => rounds \in {1, 2} /\ ClientLeft = rounds
        BY <3>2 DEF PlaceInv, ClientLeft
      <4> QED  BY <4>1
    <3> QED  BY <3>1, <3>2
  <2> QED  BY <1>2, <2>1
<1>7. CASE TakesDone(s, Head(in), q)
  <2>1. Head(in) = Index(INDEX_DONE) /\ INDEX_DONE \in Int
    BY <1>7 DEF TakesDone, INDEX_DONE
  <2>2. Head(in).kind = "index" /\ Head(in).value = INDEX_DONE
    BY <2>1, UnitShapes
  <2> QED  BY <1>3, <1>6, <1>7, <2>1, <2>2 DEF TakesDone
<1>8. CASE TakesIndex(s, Head(in), q)
  <2>1. Head(in).kind = "index" /\ Head(in).value \in Nat \ {0} /\ Head(in).value # INDEX_DONE
    BY <1>8 DEF TakesIndex, INDEX_DONE
  <2>2. Head(in) = Index(Head(in).value)
    BY <1>5, <2>1 DEF Index
  <2>3. op # "link"
    BY <1>8 DEF TakesIndex
  <2>4. ASSUME op = "upload", TakesFirst(s, Head(in).value, q)
        PROVE  /\ ClientLeft = 4 /\ lastIndex < Head(in).value /\ Head(in).value < wanted
               /\ Head(in).value \in asked
               /\ \A j \in asked : j <= lastIndex \/ Head(in).value <= j
    <3>1. ClientLeft = 4 /\ s.last = lastIndex
      BY <1>3, <1>6, <2>4 DEF TakesFirst
    <3> QED  BY <2>4, <3>1 DEF TakesFirst
  <2>5. ASSUME op = "upload", TakesAgain(s, Head(in).value, q)
        PROVE  ClientLeft = 3 /\ retried = TRUE /\ echoed >= 1 /\ Head(in).value \in sent
    BY <1>2, <1>3, <2>5 DEF TakesAgain
  <2> QED  BY <1>8, <2>1, <2>2, <2>3, <2>4, <2>5 DEF TakesIndex
<1> QED  BY <1>4, <1>7, <1>8

(* What a client that reads flags finds: an upload asks for files in its first
   two phases only. *)
LEMMA ExpectFlags ==
  ASSUME TypeInv, InwardInv, in # <<>>, pc \in {"flags", "round flags"}
  PROVE  /\ Head(in).kind = "flags" /\ Head(in).value \in {"wanted", "unwanted"}
         /\ Head(in).value = "wanted" => op = "upload" /\ ClientLeft >= 3
<1>1. ~Gone /\ ClientPlace = "flags"
  BY ClientPlaces1 DEF Gone
<1>2. PICK l, g, q : ClientTakes(ClientAt(l, g), Head(in), q)
  BY <1>1, InwardHead
<1>3. ClientAt(l, g).place = "flags" /\ ClientAt(l, g).left = ClientLeft
  <2>1. ClientAt(l, g).place = ClientPlace /\ ClientAt(l, g).left = ClientLeft
    BY DEF ClientAt
  <2> QED  BY <1>1, <2>1
<1> HIDE DEF ClientAt
<1> QED  BY <1>2, <1>3 DEF ClientTakes, TakesSetUp, TakesList, TakesDone, TakesIndex, TakesFlags

(* The client always finds what it reads; pc is not among the places where it
   reads nothing. *)
LEMMA ClientFinds ==
  ASSUME TypeInv, PlaceInv, InwardInv, in # <<>>, ClientExpects(pc) # {}
  PROVE  Head(in).kind \in ClientExpects(pc)
<1>1. ~Gone /\ pc \in ClientPcs
  BY DEF ClientExpects, Gone, TypeInv
<1>2. PICK l, g, q : ClientTakes(ClientAt(l, g), Head(in), q)
  BY <1>1, InwardHead
<1>3. ClientAt(l, g).place = ClientPlace
  BY PlaceOf
<1>4. CASE pc \in {"version", "login"}
  <2>1. Head(in) = Unit("version", connection.version)
    BY <1>4, ExpectGreeting
  <2>2. Head(in).kind = "version"
    BY <2>1 DEF Unit
  <2> QED  BY <1>4, <2>2 DEF ClientExpects
<1>5. CASE pc = "lines"
  BY <1>5, ExpectLine DEF ClientExpects
<1>6. CASE pc \in {"compatibility", "seed"}
  <2>1. ClientPlace = pc
    <3>1. rpc # "arguments"
      BY <1>6, ExpectSetUp
    <3>2. pc = "compatibility" => ClientPlace = "compatibility"
      BY <3>1, ClientPlaces1
    <3>3. pc = "seed" => ClientPlace = "seed"
      BY <3>1, ClientPlaces1
    <3> QED  BY <1>6, <3>2, <3>3
  <2>2. Head(in).kind = pc
    BY <1>2, <1>3, <1>6, <2>1 DEF ClientTakes, TakesSetUp, TakesList, TakesDone, TakesIndex, TakesFlags
  <2> QED  BY <1>6, <2>2 DEF ClientExpects
<1>7. CASE pc \in {"receive list", "io error", "checksums"}
  <2>1. ClientPlace = IF pc = "receive list" THEN "entries" ELSE pc
    BY <1>7, ClientPlaces1
  <2>2. Head(in).kind \in IF pc = "receive list" THEN {"entry", "end"} ELSE {pc}
    BY <1>2, <1>3, <1>7, <2>1 DEF ClientTakes, TakesSetUp, TakesList, TakesDone, TakesIndex, TakesFlags
  <2> QED  BY <1>7, <2>2 DEF ClientExpects
<1>8. CASE pc \in {"upload", "rounds"}
  BY <1>8, ExpectIndex DEF ClientExpects
<1>9. CASE pc \in {"flags", "round flags"}
  BY <1>9, ExpectFlags DEF ClientExpects
<1>10. CASE pc \in {"connect", "filters", "send list", "done", "fatal"}
  BY <1>10 DEF ClientExpects
<1> QED  BY <1>1, <1>4, <1>5, <1>6, <1>7, <1>8, <1>9, <1>10 DEF ClientPcs, SettingUp

-----------------------------------------------------------------------------
(* Where the run of what is on its way to the remote side ends. *)
LEMMA OutwardRun ==
  ASSUME OutwardInv, rpc # "gone"
  PROVE  \E t \in RemoteState : /\ Run(RemoteSteps, out \o buffer, RemoteAt, t)
                                /\ ~Gone => t.place = ClientWritesAt
BY DEF OutwardInv

(* The next unit, and where the remote side is when it has taken it. *)
LEMMA OutwardHead ==
  ASSUME TypeInv, OutwardInv, rpc # "gone", out # <<>>
  PROVE  /\ Head(out) \in Units /\ Tail(out) \in Seq(Units)
         /\ \E q, t \in RemoteState :
              /\ RemoteTakes(RemoteAt, Head(out), q)
              /\ Run(RemoteSteps, Tail(out) \o buffer, q, t)
              /\ ~Gone => t.place = ClientWritesAt
<1>1. PICK t \in RemoteState : /\ Run(RemoteSteps, out \o buffer, RemoteAt, t)
                               /\ ~Gone => t.place = ClientWritesAt
  BY OutwardRun
<1>2. out \in Seq(Units) /\ buffer \in Seq(Units)
  BY DEF TypeInv
<1>3. PICK x : Run(RemoteSteps, out, RemoteAt, x) /\ Run(RemoteSteps, buffer, x, t)
  BY <1>1, <1>2, RunSplit
<1>4. /\ Head(out) \in Units /\ Tail(out) \in Seq(Units)
      /\ \E q : <<RemoteAt, Head(out), q>> \in RemoteSteps /\ Run(RemoteSteps, Tail(out), q, x)
  BY <1>2, <1>3, RunFirst
<1>5. PICK q : <<RemoteAt, Head(out), q>> \in RemoteSteps /\ Run(RemoteSteps, Tail(out), q, x)
  BY <1>4
<1>6. Run(RemoteSteps, Tail(out) \o buffer, q, t)
  BY <1>2, <1>3, <1>4, <1>5, RunConcat
<1>7. q \in RemoteState /\ RemoteTakes(RemoteAt, Head(out), q)
  BY <1>5 DEF RemoteSteps
<1> QED  BY <1>1, <1>4, <1>6, <1>7

(* Nothing is on its way to a daemon that talks. *)
LEMMA RemoteWaits ==
  ASSUME NEW s, NEW w \in Seq(Units), NEW t, Run(RemoteSteps, w, s, t), s.place = "lines"
  PROVE  w = <<>> /\ s = t
<1>1. \A b, c : <<s, b, c>> \notin RemoteSteps
  BY DEF RemoteSteps, RemoteTakes
<1> QED  BY <1>1, RunStuck

(* The place of the remote side, by where it is. *)
LEMMA RemotePlaces1 ==
  /\ rpc \in {"start", "version"} => RemotePlace = "version"
  /\ rpc = "set up" => RemotePlace = SetUp
  /\ rpc \in {"receive", "serve"} => RemotePlace = "index"
  /\ rpc \in {"module", "lines", "response", "arguments", "filters", "list", "io error", "flags", "file"} =>
       RemotePlace = rpc
  /\ RemoteAt.place = RemotePlace /\ RemoteAt.of = receiving /\ RemoteAt.echo = echoed
BY DEF RemotePlace, RemoteAt

(* After the set-up the remote side reads filters or the list. *)
LEMMA SetUpPlace == SetUp \in {"filters", "list"}
BY DEF SetUp

(* Where the client's writing ends, once it writes nothing that is not asked for. *)
LEMMA WritesAtLines ==
  ASSUME pc \in ClientPcs, ~Gone, ClientWritesAt = "lines"
  PROVE  pc \in {"login", "lines"}
BY SetUpPlace DEF ClientPcs, SettingUp, Gone, ClientWritesAt

(* While a daemon talks the client has written nothing. *)
LEMMA ExpectNothing ==
  ASSUME TypeInv, OutwardInv, rpc = "lines"
  PROVE  out = <<>> /\ buffer = <<>> /\ (Gone \/ pc \in {"login", "lines"})
<1>1. PICK t \in RemoteState : /\ Run(RemoteSteps, out \o buffer, RemoteAt, t)
                               /\ ~Gone => t.place = ClientWritesAt
  BY OutwardRun
<1>2. out \in Seq(Units) /\ buffer \in Seq(Units) /\ out \o buffer \in Seq(Units)
  BY ConcatProperties DEF TypeInv
<1>3. RemoteAt.place = "lines"
  BY RemotePlaces1
<1>4. out \o buffer = <<>> /\ RemoteAt = t
  <2>1. PICK s : s = RemoteAt
    OBVIOUS
  <2>2. PICK w \in Seq(Units) : w = out \o buffer
    BY <1>2
  <2>3. Run(RemoteSteps, w, s, t) /\ s.place = "lines"
    BY <1>1, <1>3, <2>1, <2>2
  <2>4. w = <<>> /\ s = t
    BY <2>3, RemoteWaits
  <2> QED  BY <2>1, <2>2, <2>4
<1>5. out = <<>> /\ buffer = <<>>
  BY <1>2, <1>4, ConcatEqualIffEmpty
<1>6. ~Gone => ClientWritesAt = "lines"
  BY <1>1, <1>3, <1>4
<1> QED  BY <1>5, <1>6, WritesAtLines DEF TypeInv

(* The version that the remote side finds is the one the client prefers. *)
LEMMA ExpectVersion ==
  ASSUME TypeInv, OutwardInv, rpc = "version", out # <<>>
  PROVE  Head(out) = Unit("version", connection.preferred)
<1>1. PICK q : RemoteTakes(RemoteAt, Head(out), q)
  BY OutwardHead
<1>2. RemoteAt.place = "version"
  BY RemotePlaces1
<1> HIDE DEF RemoteAt
<1> QED  BY <1>1, <1>2 DEF RemoteTakes

(* A response is found alone, by a daemon whose client waits for a line. *)
LEMMA ExpectResponse ==
  ASSUME TypeInv, PromptInv, OutwardInv, rpc = "response", out # <<>>
  PROVE  /\ Head(out).kind = "response" /\ Tail(out) = <<>> /\ buffer = <<>>
         /\ Gone \/ pc = "lines"
<1>1. PICK q, t \in RemoteState : /\ RemoteTakes(RemoteAt, Head(out), q)
                                  /\ Run(RemoteSteps, Tail(out) \o buffer, q, t)
                                  /\ ~Gone => t.place = ClientWritesAt
  BY OutwardHead
<1>2. RemoteAt.place = "response"
  BY RemotePlaces1
<1>3. Head(out).kind = "response" /\ q.place = "lines"
  BY <1>1, <1>2 DEF RemoteTakes, MovesTo, RemoteAt
<1>4. Tail(out) \in Seq(Units) /\ buffer \in Seq(Units) /\ Tail(out) \o buffer \in Seq(Units)
  BY OutwardHead, ConcatProperties DEF TypeInv
<1>5. Tail(out) \o buffer = <<>> /\ q = t
  <2>1. PICK w \in Seq(Units) : w = Tail(out) \o buffer
    BY <1>4
  <2>2. Run(RemoteSteps, w, q, t)
    BY <1>1, <2>1
  <2>3. w = <<>> /\ q = t
    BY <1>3, <2>2, RemoteWaits
  <2> QED  BY <2>1, <2>3
<1>6. Tail(out) = <<>> /\ buffer = <<>>
  BY <1>4, <1>5, ConcatEqualIffEmpty
<1>7. ~Gone => pc \in {"login", "lines"}
  BY <1>1, <1>3, <1>5, WritesAtLines DEF TypeInv
<1>8. pc # "login"
  BY DEF PromptInv
<1> QED  BY <1>3, <1>6, <1>7, <1>8

(* What the remote side finds for an index. *)
LEMMA ExpectRemoteIndex ==
  ASSUME TypeInv, OutwardInv, rpc \in {"receive", "serve"}, out # <<>>
  PROVE  /\ Head(out).kind = "index"
         /\ Head(out).value = INDEX_DONE \/ (Head(out).value \in Nat \ {0} /\ ~Downloading)
<1>1. PICK q : RemoteTakes(RemoteAt, Head(out), q)
  BY OutwardHead
<1>2. RemoteAt.place = "index"
  BY RemotePlaces1
<1>3. Index(INDEX_DONE).kind = "index" /\ Index(INDEX_DONE).value = INDEX_DONE
  BY DEF Index, Unit
<1> HIDE DEF RemoteAt
<1> QED  BY <1>1, <1>2, <1>3 DEF RemoteTakes

(* What the remote side finds behind an index. *)
LEMMA ExpectRemoteFlags ==
  ASSUME TypeInv, OutwardInv, rpc = "flags", out # <<>>
  PROVE  /\ Head(out).kind = "flags" /\ Head(out).value \in {"wanted", "unwanted"}
         /\ Head(out).value = "wanted" => op = "upload"
<1>1. PICK q : RemoteTakes(RemoteAt, Head(out), q)
  BY OutwardHead
<1>2. RemoteAt.place = "flags"
  BY RemotePlaces1
<1> HIDE DEF RemoteAt
<1> QED  BY <1>1, <1>2 DEF RemoteTakes

(* What the remote side finds behind flags that announce a file. *)
LEMMA ExpectFile ==
  ASSUME TypeInv, OutwardInv, rpc = "file", out # <<>>
  PROVE  Head(out).kind = "file" /\ (echoed = 0 => receiving \in sent)
<1>1. PICK q : RemoteTakes(RemoteAt, Head(out), q)
  BY OutwardHead
<1>2. RemoteAt.place = "file" /\ RemoteAt.of = receiving /\ RemoteAt.echo = echoed
  BY RemotePlaces1
<1> HIDE DEF RemoteAt
<1> QED  BY <1>1, <1>2 DEF RemoteTakes

(* The remote side finds what it takes the next unit for. *)
LEMMA RemoteFinds ==
  ASSUME TypeInv, OutwardInv, out # <<>>, RemoteExpects(rpc) # {}
  PROVE  Head(out).kind \in RemoteExpects(rpc)
<1>1. rpc \in RemotePcs /\ rpc # "gone"
  BY DEF TypeInv, RemoteExpects
<1>2. PICK q : RemoteTakes(RemoteAt, Head(out), q)
  BY <1>1, OutwardHead
<1>3. CASE rpc = "version"
  <2>1. Head(out).kind = "version"
    BY <1>3, ExpectVersion DEF Unit
  <2> QED  BY <1>3, <2>1 DEF RemoteExpects
<1>4. CASE rpc \in {"module", "response", "arguments", "io error", "flags", "file"}
  <2>1. RemoteAt.place = rpc
    BY <1>4, RemotePlaces1
  <2>2. Head(out).kind = rpc
    <3> HIDE DEF RemoteAt
    <3>1. CASE rpc = "module"
      BY <1>2, <2>1, <3>1 DEF RemoteTakes
    <3>2. CASE rpc = "response"
      BY <1>2, <2>1, <3>2 DEF RemoteTakes
    <3>3. CASE rpc = "arguments"
      BY <1>2, <2>1, <3>3 DEF RemoteTakes
    <3>4. CASE rpc = "io error"
      BY <1>2, <2>1, <3>4 DEF RemoteTakes
    <3>5. CASE rpc = "flags"
      BY <1>2, <2>1, <3>5 DEF RemoteTakes
    <3>6. CASE rpc = "file"
      BY <1>2, <2>1, <3>6 DEF RemoteTakes
    <3> QED  BY <1>4, <3>1, <3>2, <3>3, <3>4, <3>5, <3>6
  <2> QED  BY <1>4, <2>2 DEF RemoteExpects
<1>5. CASE rpc \in {"filters", "list"}
  <2>1. RemoteAt.place = rpc
    BY <1>5, RemotePlaces1
  <2>2. Head(out).kind \in IF rpc = "filters" THEN {"filter", "no filter"} ELSE {"entry", "end"}
    <3> HIDE DEF RemoteAt
    <3> QED  BY <1>2, <1>5, <2>1 DEF RemoteTakes
  <2> QED  BY <1>5, <2>2 DEF RemoteExpects
<1>6. CASE rpc \in {"receive", "serve"}
  BY <1>6, ExpectRemoteIndex DEF RemoteExpects
<1>7. CASE rpc \in {"start", "lines", "set up"}
  BY <1>7 DEF RemoteExpects
<1> QED  BY <1>1, <1>3, <1>4, <1>5, <1>6, <1>7 DEF RemotePcs

(* Together: both sides are in step. *)
LEMMA BothFind ==
  ASSUME TypeInv, PlaceInv, InwardInv, OutwardInv
  PROVE  InStep
BY ClientFinds, RemoteFinds DEF InStep

-----------------------------------------------------------------------------
(* Units stay units. *)
LEMMA ClientWires ==
  ASSUME Inv, Client
  PROVE  in' \in Seq(Units) /\ out' \in Seq(Units) /\ buffer' \in Seq(Units)
<1>1. /\ in \in Seq(Units) /\ out \in Seq(Units) /\ buffer \in Seq(Units)
      /\ TypeInv /\ PlaceInv /\ InwardInv /\ index \in Int /\ protocol \in Int
  BY DEF Inv, TypeInv
<1>2. CASE Connect
  <2>2. in' \in Seq(Units)
    BY <1>1, <1>2 DEF Connect
  <2>4. /\ <<Unit("version", protocol), Just("module")>> \in Seq(Units)
        /\ <<Unit("version", protocol)>> \in Seq(Units)
    BY <1>1, UnitShapes, Few DEF Kinds, Texts
  <2>5. \/ WritesNothing
        \/ WritesDirectly(<<Unit("version", protocol), Just("module")>>) \/ Buffers(<<Unit("version", protocol), Just("module")>>) \/ Flushes(<<Unit("version", protocol), Just("module")>>)
        \/ WritesDirectly(<<Unit("version", protocol)>>) \/ Buffers(<<Unit("version", protocol)>>) \/ Flushes(<<Unit("version", protocol)>>)
    BY <1>2 DEF Connect
  <2> QED  BY <1>1, <2>2, <2>4, <2>5, WriteTypes, EmptySeq
<1>3. CASE ReadVersion
  <2>1. Reads("version")
    BY <1>3 DEF ReadVersion
  <2>2. in' \in Seq(Units) /\ Head(in) \in Units /\ in # <<>>
    BY <1>1, <2>1, ReadTypes
  <2>5. \/ WritesNothing
    BY <1>3 DEF ReadVersion
  <2> QED  BY <1>1, <2>2, <2>5, WriteTypes, EmptySeq
<1>4. CASE ReadGreeting
  <2>1. Reads("version")
    BY <1>4 DEF ReadGreeting
  <2>2. in' \in Seq(Units) /\ Head(in) \in Units /\ in # <<>>
    BY <1>1, <2>1, ReadTypes
  <2>5. \/ WritesNothing
    BY <1>4 DEF ReadGreeting
  <2> QED  BY <1>1, <2>2, <2>5, WriteTypes, EmptySeq
<1>5. CASE ReadLine
  <2>1. Reads("line")
    BY <1>5 DEF ReadLine
  <2>2. in' \in Seq(Units) /\ Head(in) \in Units /\ in # <<>>
    BY <1>1, <2>1, ReadTypes
  <2>4. /\ <<Just("response")>> \in Seq(Units)
        /\ <<Just("arguments")>> \in Seq(Units)
    BY <1>1, UnitShapes, Few DEF Kinds, Texts
  <2>5. \/ WritesNothing
        \/ WritesDirectly(<<Just("response")>>) \/ Buffers(<<Just("response")>>) \/ Flushes(<<Just("response")>>)
        \/ WritesDirectly(<<Just("arguments")>>) \/ Buffers(<<Just("arguments")>>) \/ Flushes(<<Just("arguments")>>)
    <3>1. Value \in {"text", "authreqd", "ok", "exit", "error"}
      BY <1>1, <1>5, <2>2, ExpectLine DEF ReadLine, Value
    <3>2. CASE Value = "text"
      BY <1>5, <3>2 DEF ReadLine
    <3>3. CASE Value = "authreqd"
      BY <1>5, <3>3 DEF ReadLine
    <3>4. CASE Value = "ok"
      BY <1>5, <3>4 DEF ReadLine
    <3>5. CASE Value = "exit"
      BY <1>5, <3>5 DEF ReadLine
    <3>6. CASE Value = "error"
      BY <1>5, <3>6 DEF ReadLine
    <3> QED  BY <3>1, <3>2, <3>3, <3>4, <3>5, <3>6
  <2> QED  BY <1>1, <2>2, <2>4, <2>5, WriteTypes, EmptySeq
<1>6. CASE ReadCompatibility
  <2>1. Reads("compatibility")
    BY <1>6 DEF ReadCompatibility
  <2>2. in' \in Seq(Units) /\ Head(in) \in Units /\ in # <<>>
    BY <1>1, <2>1, ReadTypes
  <2>5. \/ WritesNothing
    BY <1>6 DEF ReadCompatibility
  <2> QED  BY <1>1, <2>2, <2>5, WriteTypes, EmptySeq
<1>7. CASE ReadSeed
  <2>1. Reads("seed")
    BY <1>7 DEF ReadSeed
  <2>2. in' \in Seq(Units) /\ Head(in) \in Units /\ in # <<>>
    BY <1>1, <2>1, ReadTypes
  <2>4. <<Just("no filter")>> \in Seq(Units)
    BY <1>1, UnitShapes, Few DEF Kinds, Texts
  <2>5. \/ WritesNothing
        \/ WritesDirectly(<<Just("no filter")>>) \/ Buffers(<<Just("no filter")>>) \/ Flushes(<<Just("no filter")>>)
    BY <1>7 DEF ReadSeed
  <2> QED  BY <1>1, <2>2, <2>4, <2>5, WriteTypes, EmptySeq
<1>8. CASE ReceiveEntry
  <2>1. Reads("entry")
    BY <1>8 DEF ReceiveEntry
  <2>2. in' \in Seq(Units) /\ Head(in) \in Units /\ in # <<>>
    BY <1>1, <2>1, ReadTypes
  <2>5. \/ WritesNothing
    BY <1>8 DEF ReceiveEntry
  <2> QED  BY <1>1, <2>2, <2>5, WriteTypes, EmptySeq
<1>9. CASE ReceiveEnd
  <2>1. Reads("end")
    BY <1>9 DEF ReceiveEnd
  <2>2. in' \in Seq(Units) /\ Head(in) \in Units /\ in # <<>>
    BY <1>1, <2>1, ReadTypes
  <2>4. <<Index(INDEX_DONE), Index(INDEX_DONE)>> \in Seq(Units)
    BY <1>1, UnitShapes, Few DEF Kinds, Texts
  <2>5. \/ WritesNothing
        \/ WritesDirectly(<<Index(INDEX_DONE), Index(INDEX_DONE)>>) \/ Buffers(<<Index(INDEX_DONE), Index(INDEX_DONE)>>) \/ Flushes(<<Index(INDEX_DONE), Index(INDEX_DONE)>>)
    BY <1>9 DEF ReceiveEnd, ListReceived
  <2> QED  BY <1>1, <2>2, <2>4, <2>5, WriteTypes, EmptySeq
<1>10. CASE ReceiveIoError
  <2>1. Reads("io error")
    BY <1>10 DEF ReceiveIoError
  <2>2. in' \in Seq(Units) /\ Head(in) \in Units /\ in # <<>>
    BY <1>1, <2>1, ReadTypes
  <2>4. <<Index(INDEX_DONE), Index(INDEX_DONE)>> \in Seq(Units)
    BY <1>1, UnitShapes, Few DEF Kinds, Texts
  <2>5. \/ WritesNothing
        \/ WritesDirectly(<<Index(INDEX_DONE), Index(INDEX_DONE)>>) \/ Buffers(<<Index(INDEX_DONE), Index(INDEX_DONE)>>) \/ Flushes(<<Index(INDEX_DONE), Index(INDEX_DONE)>>)
    BY <1>10 DEF ReceiveIoError, ListReceived
  <2> QED  BY <1>1, <2>2, <2>4, <2>5, WriteTypes, EmptySeq
<1>11. CASE UploadDone
  <2>1. Reads("index")
    BY <1>11 DEF UploadDone
  <2>2. in' \in Seq(Units) /\ Head(in) \in Units /\ in # <<>>
    BY <1>1, <2>1, ReadTypes
  <2>4. <<Index(INDEX_DONE)>> \in Seq(Units)
    BY <1>1, UnitShapes, Few DEF Kinds, Texts
  <2>5. \/ WritesNothing
        \/ WritesDirectly(<<Index(INDEX_DONE)>>) \/ Buffers(<<Index(INDEX_DONE)>>) \/ Flushes(<<Index(INDEX_DONE)>>)
    BY <1>11 DEF UploadDone, AnswerDone
  <2> QED  BY <1>1, <2>2, <2>4, <2>5, WriteTypes, EmptySeq
<1>12. CASE UploadIndex
  <2>1. Reads("index")
    BY <1>12 DEF UploadIndex
  <2>2. in' \in Seq(Units) /\ Head(in) \in Units /\ in # <<>>
    BY <1>1, <2>1, ReadTypes
  <2>5. \/ WritesNothing
    BY <1>12 DEF UploadIndex
  <2> QED  BY <1>1, <2>2, <2>5, WriteTypes, EmptySeq
<1>13. CASE ReadFlags
  <2>1. Reads("flags")
    BY <1>13 DEF ReadFlags
  <2>2. in' \in Seq(Units) /\ Head(in) \in Units /\ in # <<>>
    BY <1>1, <2>1, ReadTypes
  <2>3. Value \in Texts
    <3>1. pc \in {"flags", "round flags"}
      BY <1>13 DEF ReadFlags
    <3>2. Head(in).value \in {"wanted", "unwanted"}
      BY <1>1, <2>2, <3>1, ExpectFlags
    <3> QED  BY <3>2 DEF Value, Texts
  <2>4. <<Index(index), Unit("flags", Value)>> \in Seq(Units)
    BY <1>1, UnitShapes, Few, <2>3 DEF Kinds, Texts
  <2>5. \/ WritesNothing
        \/ WritesDirectly(<<Index(index), Unit("flags", Value)>>) \/ Buffers(<<Index(index), Unit("flags", Value)>>) \/ Flushes(<<Index(index), Unit("flags", Value)>>)
    BY <1>13 DEF ReadFlags
  <2> QED  BY <1>1, <2>2, <2>4, <2>5, WriteTypes, EmptySeq
<1>14. CASE SendFile
  <2>1. Reads("checksums")
    BY <1>14 DEF SendFile
  <2>2. in' \in Seq(Units) /\ Head(in) \in Units /\ in # <<>>
    BY <1>1, <2>1, ReadTypes
  <2>4. <<Index(index), Unit("flags", "wanted"), Just("file")>> \in Seq(Units)
    BY <1>1, UnitShapes, Few DEF Kinds, Texts
  <2>5. \/ WritesNothing
        \/ WritesDirectly(<<Index(index), Unit("flags", "wanted"), Just("file")>>) \/ Buffers(<<Index(index), Unit("flags", "wanted"), Just("file")>>) \/ Flushes(<<Index(index), Unit("flags", "wanted"), Just("file")>>)
    BY <1>14 DEF SendFile
  <2> QED  BY <1>1, <2>2, <2>4, <2>5, WriteTypes, EmptySeq
<1>15. CASE Round
  <2>1. Reads("index")
    BY <1>15 DEF Round
  <2>2. in' \in Seq(Units) /\ Head(in) \in Units /\ in # <<>>
    BY <1>1, <2>1, ReadTypes
  <2>3. Value \in Int
    <3>1. pc \in {"upload", "rounds"}
      BY <1>15 DEF Round
    <3>2. Head(in).value = INDEX_DONE \/ Head(in).value \in Nat \ {0}
      BY <1>1, <2>2, <3>1, ExpectIndex
    <3> QED  BY <3>2 DEF Value, INDEX_DONE
  <2>4. /\ <<Index(INDEX_DONE)>> \in Seq(Units)
        /\ <<Index(Value)>> \in Seq(Units)
    BY <1>1, UnitShapes, Few, <2>3 DEF Kinds, Texts
  <2>5. \/ WritesNothing
        \/ WritesDirectly(<<Index(INDEX_DONE)>>) \/ Buffers(<<Index(INDEX_DONE)>>) \/ Flushes(<<Index(INDEX_DONE)>>)
        \/ WritesDirectly(<<Index(Value)>>) \/ Buffers(<<Index(Value)>>) \/ Flushes(<<Index(Value)>>)
    BY <1>15 DEF Round, EndRound
  <2> QED  BY <1>1, <2>2, <2>4, <2>5, WriteTypes, EmptySeq
<1>16. CASE RoundFlags
  <2>1. Reads("flags")
    BY <1>16 DEF RoundFlags
  <2>2. in' \in Seq(Units) /\ Head(in) \in Units /\ in # <<>>
    BY <1>1, <2>1, ReadTypes
  <2>3. Value \in Texts
    <3>1. pc \in {"flags", "round flags"}
      BY <1>16 DEF RoundFlags
    <3>2. Head(in).value \in {"wanted", "unwanted"}
      BY <1>1, <2>2, <3>1, ExpectFlags
    <3> QED  BY <3>2 DEF Value, Texts
  <2>4. <<Unit("flags", Value)>> \in Seq(Units)
    BY <1>1, UnitShapes, Few, <2>3 DEF Kinds, Texts
  <2>5. \/ WritesNothing
        \/ WritesDirectly(<<Unit("flags", Value)>>) \/ Buffers(<<Unit("flags", Value)>>) \/ Flushes(<<Unit("flags", Value)>>)
    BY <1>16 DEF RoundFlags, EndRound
  <2> QED  BY <1>1, <2>2, <2>4, <2>5, WriteTypes, EmptySeq
<1>17. CASE SendFilters
  <2>1. [k \in 1 .. 5 |-> IF k <= 4 THEN Just("filter") ELSE Just("no filter")] \in Seq(Units)
    <3>1. Just("filter") \in Units /\ Just("no filter") \in Units
      BY UnitShapes DEF Kinds
    <3>2. <<Just("filter"), Just("filter"), Just("filter"), Just("filter"), Just("no filter")>> \in Seq(Units)
      <4> DEFINE a == Just("filter")
                 b == Just("no filter")
      <4>1. a \in Units /\ b \in Units
        BY <3>1
      <4> HIDE DEF a, b
      <4>2. <<a, a, a, a, b>> \in Seq(Units)
        BY <4>1
      <4> QED  BY <4>2 DEF a, b
    <3> QED  BY <3>2, FilterUnits
  <2> QED  BY <1>1, <1>17, <2>1, WriteTypes DEF SendFilters
<1>18. CASE SendList
  <2>1. (IF op = "upload" THEN Len(Sizes) ELSE 1) \in Nat
    BY FilesFinite
  <2>2. PICK n \in Nat : n = IF op = "upload" THEN Len(Sizes) ELSE 1
    BY <2>1
  <2>3. PICK units \in Seq(Units) : units = Entries(n) \o <<Just("end")>> \o IoError
    BY ListOfUnits
  <2>4. Flushes(units) /\ in' = in
    BY <1>18, <2>2, <2>3 DEF SendList
  <2> QED  BY <1>1, <2>4, WriteTypes
<1> QED  BY <1>2, <1>3, <1>4, <1>5, <1>6, <1>7, <1>8, <1>9, <1>10, <1>11, <1>12, <1>13, <1>14, <1>15, <1>16, <1>17, <1>18 DEF Client

(* A set of natural numbers that is not empty has a least element. *)
LEMMA LeastNumber ==
  ASSUME NEW T, T \subseteq Nat, T # {}
  PROVE  \E x \in T : \A y \in T : x <= y
<1> DEFINE R == OpToRel(<, Nat)
<1>1. IsWellFoundedOn(R, Nat)
  BY NatLessThanWellFounded
<1>2. PICK x \in T : \A y \in T : <<y, x>> \notin R
  <2> HIDE DEF R
  <2> QED  BY <1>1, WFMin
<1>3. \A y \in T : <<y, x>> \in R <=> y < x
  BY DEF OpToRel
<1>4. \A y \in T : ~(y < x)
  <2> HIDE DEF R
  <2> QED  BY <1>2, <1>3
<1>5. \A y \in T : y \in Nat
  OBVIOUS
<1> HIDE DEF R
<1> QED  BY <1>4, <1>5

(* The least of some indices is one of them. *)
LEMMA Least ==
  ASSUME NEW T, T \subseteq Nat, T # {}
  PROVE  (CHOOSE k \in T : \A j \in T : k <= j) \in T
<1>1. \E x \in T : \A y \in T : x <= y
  BY LeastNumber
<1> QED  BY <1>1

(* What the generator writes about a file is units. *)
LEMMA RequestUnits ==
  ASSUME NEW k \in Int
  PROVE  Item(k) \in Seq(Units) /\ Request(k) \in Seq(Units)
<1>1. /\ Index(k) \in Units /\ Unit("flags", "unwanted") \in Units /\ Unit("flags", "wanted") \in Units
      /\ Just("checksums") \in Units
  BY UnitShapes DEF Kinds, Texts
<1> QED  BY <1>1, Few DEF Item, Request

(* The list that the remote side sends is units. *)
LEMMA RemoteListUnits ==
  Entries(2) \o <<Just("end")>> \o (IF rprotocol < 30 THEN <<Just("io error")>> ELSE <<>>) \in Seq(Units)
<1>1. Just("end") \in Units /\ Just("io error") \in Units
  BY UnitShapes DEF Kinds
<1>2. <<Just("end")>> \in Seq(Units) /\ <<Just("io error")>> \in Seq(Units) /\ <<>> \in Seq(Units)
  BY <1>1, Few
<1>3. PICK n \in Nat : n = 2
  OBVIOUS
<1>4. Entries(n) \o <<Just("end")>> \in Seq(Units)
  BY <1>2, ListUnits, ConcatProperties
<1>5. (IF rprotocol < 30 THEN <<Just("io error")>> ELSE <<>>) \in Seq(Units)
  BY <1>2
<1>6. Entries(2) \o <<Just("end")>> \in Seq(Units)
  BY <1>3, <1>4
<1> QED  BY <1>5, <1>6, ConcatProperties

(* Units stay units in the steps of the remote side. *)
LEMMA RemoteWires ==
  ASSUME Inv, Remote
  PROVE  in' \in Seq(Units) /\ out' \in Seq(Units) /\ buffer' \in Seq(Units)
<1>1. /\ in \in Seq(Units) /\ out \in Seq(Units) /\ buffer \in Seq(Units)
      /\ rprotocol \in Int /\ wanted \in Int /\ redo \subseteq Nat
  BY DEF Inv, TypeInv
<1>2. UNCHANGED buffer
  BY DEF Remote, RemoteGreets, RemoteNegotiates, RemoteModule, RemoteLines, RemoteResponse,
         RemoteArguments, RemoteSetsUp, RemoteFilter, RemoteList, RemoteIoError, RemoteGenerates,
         RemoteAsksAgain, RemoteDone, RemoteIndex, RemoteFlags, RemoteFile, RemoteSays,
         unchangedByRemote, client
<1>3. CASE RemoteNegotiates \/ RemoteModule \/ RemoteArguments \/ RemoteList \/ RemoteIoError
           \/ RemoteIndex \/ RemoteFlags \/ RemoteFile
  <2>1. in' = in /\ \E kind : RemoteReads(kind)
    BY <1>3 DEF RemoteNegotiates, RemoteModule, RemoteArguments, RemoteList, RemoteIoError,
                RemoteIndex, RemoteFlags, RemoteFile
  <2> QED  BY <1>1, <1>2, <2>1, RemoteReadTypes
<1>4. CASE RemoteGreets \/ RemoteLines \/ RemoteSetsUp \/ RemoteGenerates \/ RemoteAsksAgain \/ RemoteDone
  <2>1. out' = out
    BY <1>4 DEF RemoteGreets, RemoteLines, RemoteSetsUp, RemoteGenerates, RemoteAsksAgain, RemoteDone,
                RemoteSays
  <2>2. CASE RemoteGreets
    <3>1. <<Unit("version", rprotocol)>> \in Seq(Units)
      BY <1>1, UnitShapes, Few
    <3> QED  BY <1>1, <1>2, <2>1, <2>2, <3>1, RemoteWriteTypes DEF RemoteGreets
  <2>3. CASE RemoteLines
    <3>1. \A text \in Texts : <<Unit("line", text)>> \in Seq(Units)
      BY UnitShapes, Few
    <3>2. PICK text \in Texts : RemoteWrites(<<Unit("line", text)>>)
      BY <2>3 DEF RemoteLines, RemoteSays, Texts
    <3> QED  BY <1>1, <1>2, <2>1, <3>1, <3>2, RemoteWriteTypes
  <2>4. CASE RemoteSetsUp
    <3>1. PICK incremental \in {0, 1} :
            RemoteWrites((IF rprotocol >= 30 THEN <<Unit("compatibility", incremental)>> ELSE <<>>)
                           \o <<Just("seed")>>)
      BY <2>4 DEF RemoteSetsUp
    <3>2. /\ <<Unit("compatibility", incremental)>> \in Seq(Units) /\ <<>> \in Seq(Units)
          /\ <<Just("seed")>> \in Seq(Units)
      <4>1. incremental \in Int
        OBVIOUS
      <4> QED  BY <4>1, UnitShapes, Few DEF Kinds
    <3>3. (IF rprotocol >= 30 THEN <<Unit("compatibility", incremental)>> ELSE <<>>)
            \o <<Just("seed")>> \in Seq(Units)
      BY <3>2, ConcatProperties
    <3> QED  BY <1>1, <1>2, <2>1, <3>1, <3>3, RemoteWriteTypes
  <2>5. CASE RemoteGenerates
    <3>1. in' = in \/ RemoteWrites(Item(wanted)) \/ RemoteWrites(Request(wanted))
      BY <2>5 DEF RemoteGenerates
    <3> QED  BY <1>1, <1>2, <2>1, <3>1, RequestUnits, RemoteWriteTypes
  <2>6. CASE RemoteAsksAgain
    <3> DEFINE k == CHOOSE k \in redo : \A j \in redo : k <= j
    <3>1. RemoteWrites(Request(k)) /\ redo # {}
      BY <2>6 DEF RemoteAsksAgain
    <3>2. k \in Int
      <4>1. PICK T : T = redo
        OBVIOUS
      <4>2. T \subseteq Nat /\ T # {}
        BY <1>1, <3>1, <4>1
      <4>3. (CHOOSE j \in T : \A i \in T : j <= i) \in T
        BY <4>2, Least
      <4>4. k \in redo
        BY <4>1, <4>3
      <4> HIDE DEF k
      <4> QED  BY <1>1, <4>4
    <3> HIDE DEF k
    <3> QED  BY <1>1, <1>2, <2>1, <3>1, <3>2, RequestUnits, RemoteWriteTypes
  <2>7. CASE RemoteDone
    <3>1. <<Index(INDEX_DONE)>> \in Seq(Units)
      BY UnitShapes, Few
    <3> QED  BY <1>1, <1>2, <2>1, <2>7, <3>1, RemoteWriteTypes DEF RemoteDone
  <2> QED  BY <1>4, <2>2, <2>3, <2>4, <2>5, <2>6, <2>7
<1>5. CASE RemoteResponse
  <2>1. RemoteReads("response")
    BY <1>5 DEF RemoteResponse
  <2>2. \A text \in Texts : <<Unit("line", text)>> \in Seq(Units)
    BY UnitShapes, Few
  <2>3. PICK text \in Texts : RemoteWrites(<<Unit("line", text)>>)
    BY <1>5 DEF RemoteResponse, Texts
  <2> QED  BY <1>1, <1>2, <2>1, <2>2, <2>3, RemoteReadTypes, RemoteWriteTypes
<1>6. CASE RemoteFilter
  <2>1. \E kind : RemoteReads(kind)
    BY <1>6 DEF RemoteFilter
  <2>2. \/ in' = in
        \/ RemoteWrites(Entries(2) \o <<Just("end")>>
                          \o (IF rprotocol < 30 THEN <<Just("io error")>> ELSE <<>>))
    BY <1>6 DEF RemoteFilter
  <2> QED  BY <1>1, <1>2, <2>1, <2>2, RemoteReadTypes, RemoteWriteTypes, RemoteListUnits
<1> QED  BY <1>3, <1>4, <1>5, <1>6 DEF Remote

(* The rest of the types. *)
LEMMA ClientTypes ==
  ASSUME Inv, Client
  PROVE  TypeInv'
<1>1. /\ TypeInv /\ PlaceInv /\ InwardInv
  BY DEF Inv
<1>2. /\ pc' \in ClientPcs /\ protocol' \in Int /\ index' \in Int /\ phase' \in Nat /\ lastIndex' \in Nat
      /\ rounds' \in Int /\ skipped' \in Int /\ logical' \in Int
      /\ sent' \subseteq Files /\ read' \in [Files -> Nat] /\ changed' \in BOOLEAN
  <2>1. /\ pc \in ClientPcs /\ protocol \in Int /\ index \in Int /\ phase \in Nat /\ lastIndex \in Nat
        /\ rounds \in Int /\ skipped \in Int /\ logical \in Int
        /\ sent \subseteq Files /\ read \in [Files -> Nat] /\ changed \in BOOLEAN
        /\ in \in Seq(Units)
    BY <1>1 DEF TypeInv
  <2>2. CASE Connect \/ ReadCompatibility \/ ReadSeed \/ SendFilters \/ ReceiveEntry \/ ReceiveEnd
             \/ ReceiveIoError \/ ReadFlags
    <3>1. UNCHANGED <<index, phase, lastIndex, rounds, skipped, logical, sent, read, changed, protocol>>
      BY <2>2 DEF Connect, ReadCompatibility, ReadSeed, SendFilters, ReceiveEntry, ReceiveEnd,
                  ReceiveIoError, ReadFlags, uploadState
    <3>2. pc' \in ClientPcs
      BY <2>1, <2>2 DEF Connect, ReadCompatibility, ReadSeed, SendFilters, ReceiveEntry, ReceiveEnd,
                  ReceiveIoError, ListReceived, ReadFlags, ClientPcs, SettingUp
    <3> QED  BY <2>1, <3>1, <3>2
  <2>3. CASE ReadVersion \/ ReadGreeting
    <3>1. in # <<>> /\ pc \in {"version", "login"}
      BY <2>3 DEF ReadVersion, ReadGreeting, Reads
    <3>2. Value \in Int
      <4>1. Head(in) = Unit("version", connection.version)
        BY <1>1, <3>1, ExpectGreeting
      <4>2. connection.version \in Nat
        BY <1>1, Agreement DEF TypeInv
      <4> QED  BY <4>1, <4>2 DEF Value, Unit
    <3>3. UNCHANGED <<index, phase, lastIndex, rounds, skipped, logical, sent, read, changed>>
      BY <2>3 DEF ReadVersion, ReadGreeting, uploadState
    <3>4. protocol' \in Int
      BY <2>1, <2>3, <3>2 DEF ReadVersion, ReadGreeting, Negotiated
    <3>5. pc' \in ClientPcs
      BY <2>3 DEF ReadVersion, ReadGreeting, AfterVersion, ClientPcs, SettingUp
    <3> QED  BY <2>1, <3>3, <3>4, <3>5
  <2>4. CASE ReadLine
    <3>1. UNCHANGED <<index, phase, lastIndex, rounds, skipped, logical, sent, read, changed, protocol>>
      BY <2>4 DEF ReadLine, uploadState
    <3>2. Value \in {"text", "authreqd", "ok", "exit", "error"}
      BY <1>1, <2>4, ExpectLine DEF ReadLine, Reads, Value
    <3>3. pc' \in {"lines", "fatal", LoginEnds}
      <4>1. CASE Value = "text"
        BY <2>4, <4>1 DEF ReadLine
      <4>2. CASE Value = "authreqd"
        BY <2>4, <4>2 DEF ReadLine
      <4>3. CASE Value = "ok"
        BY <2>4, <4>3 DEF ReadLine
      <4>4. CASE Value = "exit"
        BY <2>4, <4>4 DEF ReadLine
      <4>5. CASE Value = "error"
        BY <2>4, <4>5 DEF ReadLine
      <4> QED  BY <3>2, <4>1, <4>2, <4>3, <4>4, <4>5
    <3>4. LoginEnds \in {"done", "compatibility", "seed"}
      BY DEF LoginEnds, AfterVersion
    <3> QED  BY <2>1, <3>1, <3>3, <3>4 DEF ClientPcs, SettingUp
  <2>5. CASE SendList
    <3>1. /\ UNCHANGED <<protocol, index, phase, lastIndex, skipped, logical, sent, read, changed>>
          /\ pc' \in {"upload", "rounds"} /\ rounds' \in {2, 4}
      BY <2>5 DEF SendList
    <3>2. pc' \in ClientPcs
      BY <3>1 DEF ClientPcs
    <3>3. rounds' \in Int
      BY <3>1
    <3> QED  BY <2>1, <3>1, <3>2, <3>3
  <2>6. CASE UploadDone
    <3>1. Len(Sizes) \in Nat /\ Between(lastIndex, Len(Sizes) + 1) \in SUBSET Files
      BY FilesFinite DEF Between
    <3>2. SizeOf(Between(lastIndex, Len(Sizes) + 1)) \in Nat
      BY <3>1, BytesFinite
    <3>3. pc' \in ClientPcs
      BY <2>6 DEF UploadDone, ClientPcs, SettingUp
    <3> QED  BY <2>1, <2>6, <3>1, <3>2, <3>3 DEF UploadDone
  <2>7. CASE UploadIndex
    <3>1. Between(lastIndex, Value) \in SUBSET Files
      BY DEF Between
    <3>2. SizeOf(Between(lastIndex, Value)) \in Nat
      BY <3>1, BytesFinite
    <3>3. pc' \in ClientPcs /\ protocol' = protocol /\ rounds' = rounds /\ phase' = phase
      BY <2>7 DEF UploadIndex, ClientPcs, SettingUp
    <3>4. CASE Value \in Files
      <4>1. Sizes[Value] \in Nat /\ Value \in Nat
        <5>1. PICK k \in Files : k = Value
          BY <3>4
        <5>2. Sizes[k] \in Nat /\ k \in Nat
          <6>1. Sizes[k] \in Nat
            BY SizesAreLengths
          <6>2. Files \subseteq Nat
            BY FilesFinite
          <6> QED  BY <6>1, <6>2
        <5> QED  BY <5>1, <5>2
      <4>2. /\ index' = Value /\ lastIndex' = Value
            /\ skipped' = skipped + SizeOf(Between(lastIndex, Value))
            /\ logical' = BeforeSending(Value) /\ sent' \subseteq sent
            /\ changed' \in BOOLEAN /\ read' = read
        BY <2>7, <3>4 DEF UploadIndex
      <4>3. logical' \in Int
        BY <2>1, <4>1, <4>2 DEF BeforeSending
      <4>4. skipped' \in Int /\ index' \in Int /\ lastIndex' \in Nat
        BY <2>1, <3>2, <4>1, <4>2
      <4> QED  BY <2>1, <3>3, <4>2, <4>3, <4>4
    <3>5. CASE Value \notin Files
      BY <2>1, <2>7, <3>3, <3>5 DEF UploadIndex
    <3> QED  BY <3>4, <3>5
  <2>8. CASE SendFile
    <3>1. index \in Files
      BY <2>8 DEF SendFile, Inv, CountInv
    <3>2. Lengths[index] \in SUBSET Nat
      BY <3>1, SessionAssumption DEF Files
    <3>3. /\ UNCHANGED <<protocol, index, phase, lastIndex, rounds, skipped, changed>> /\ pc' = "upload"
          /\ \/ \E n \in Lengths[index] :
                  /\ logical' = logical + n /\ read' = [read EXCEPT ![index] = n]
                  /\ sent' = sent \cup {index}
             \/ UNCHANGED <<logical, sent, read>>
      BY <2>8 DEF SendFile
    <3>4. logical' \in Int /\ sent' \subseteq Files /\ read' \in [Files -> Nat]
      <4>1. CASE UNCHANGED <<logical, sent, read>>
        BY <2>1, <4>1
      <4>2. ASSUME NEW n \in Lengths[index],
                   logical' = logical + n, read' = [read EXCEPT ![index] = n], sent' = sent \cup {index}
            PROVE  logical' \in Int /\ sent' \subseteq Files /\ read' \in [Files -> Nat]
        <5>1. n \in Nat
          BY <3>2
        <5> QED  BY <2>1, <3>1, <4>2, <5>1
      <4> QED  BY <3>3, <4>1, <4>2
    <3> QED  BY <2>1, <3>3, <3>4 DEF ClientPcs
  <2>9. CASE Round
    <3>1. Value \in Int
      <4>1. in # <<>> /\ pc = "rounds"
        BY <2>9 DEF Round, Reads
      <4>2. Head(in).value = INDEX_DONE \/ Head(in).value \in Nat \ {0}
        BY <1>1, <4>1, ExpectIndex
      <4> QED  BY <4>2 DEF Value, INDEX_DONE
    <3>2. UNCHANGED <<protocol, phase, lastIndex, skipped, logical, sent, read, changed>>
      BY <2>9 DEF Round
    <3>3. rounds' \in Int /\ index' \in Int
      <4>1. rounds' \in {rounds, rounds - 1} /\ index' \in {index, Value}
        BY <2>9 DEF Round, EndRound
      <4>2. rounds - 1 \in Int
        BY <2>1
      <4> QED  BY <2>1, <3>1, <4>1, <4>2
    <3>4. pc' \in ClientPcs
      BY <2>9 DEF Round, EndRound, ClientPcs, SettingUp
    <3> QED  BY <2>1, <3>2, <3>3, <3>4
  <2>10. CASE RoundFlags
    <3>1. /\ UNCHANGED <<protocol, index, phase, lastIndex, skipped, logical, sent, read, changed>>
          /\ pc' \in {"done", "rounds"} /\ rounds' = rounds - 1
      BY <2>10 DEF RoundFlags, EndRound
    <3>2. pc' \in ClientPcs
      BY <3>1 DEF ClientPcs
    <3>3. rounds' \in Int
      BY <2>1, <3>1
    <3> QED  BY <2>1, <3>1, <3>2, <3>3
  <2> QED  BY <2>2, <2>3, <2>4, <2>5, <2>6, <2>7, <2>8, <2>9, <2>10 DEF Client
<1>3. UNCHANGED <<remote, constant>>
  BY DEF Client, Connect, ReadVersion, ReadGreeting, ReadLine, ReadCompatibility, ReadSeed,
         SendFilters, SendList, ReceiveEntry, ReceiveEnd, ReceiveIoError, UploadDone, UploadIndex,
         ReadFlags, SendFile, Round, RoundFlags
<1>4. in' \in Seq(Units) /\ out' \in Seq(Units) /\ buffer' \in Seq(Units)
  BY ClientWires
<1> QED  BY <1>1, <1>2, <1>3, <1>4 DEF TypeInv, remote, constant

(* The types in the steps of the remote side. *)
LEMMA RemoteTypes ==
  ASSUME Inv, Remote
  PROVE  TypeInv'
<1>1. /\ TypeInv /\ PlaceInv /\ OutwardInv
  BY DEF Inv
<1>2. UNCHANGED <<client, constant>>
  BY DEF Remote, RemoteGreets, RemoteNegotiates, RemoteModule, RemoteLines, RemoteResponse,
         RemoteArguments, RemoteSetsUp, RemoteFilter, RemoteList, RemoteIoError, RemoteGenerates,
         RemoteAsksAgain, RemoteDone, RemoteIndex, RemoteFlags, RemoteFile, RemoteSays, unchangedByRemote
<1>3. in' \in Seq(Units) /\ out' \in Seq(Units) /\ buffer' \in Seq(Units)
  BY RemoteWires
<1>4. /\ rpc \in RemotePcs /\ receiving \in Int /\ wanted \in Nat \ {0} /\ asked \subseteq Nat
      /\ redo \subseteq Nat \ {0}
      /\ rpc \in {"flags", "file"} => receiving \in Nat \ {0}
      /\ dones \in Nat /\ echoed \in Nat /\ retried \in BOOLEAN /\ rprotocol \in Int
      /\ out \in Seq(Units)
  BY <1>1 DEF TypeInv
<1>5. /\ rpc' \in RemotePcs /\ receiving' \in Int /\ wanted' \in Nat \ {0} /\ asked' \subseteq Nat
      /\ redo' \subseteq Nat \ {0}
      /\ rpc' \in {"flags", "file"} => receiving' \in Nat \ {0}
      /\ dones' \in Nat /\ echoed' \in Nat /\ retried' \in BOOLEAN /\ rprotocol' \in Int
  <2>1. CASE RemoteGreets \/ RemoteModule \/ RemoteLines \/ RemoteResponse \/ RemoteArguments
             \/ RemoteSetsUp \/ RemoteFilter \/ RemoteList \/ RemoteIoError
    <3>1. UNCHANGED <<rprotocol, receiving, wanted, asked, redo, dones, echoed, retried>>
      BY <2>1 DEF RemoteGreets, RemoteModule, RemoteLines, RemoteSays, RemoteResponse, RemoteArguments,
             RemoteSetsUp, RemoteFilter, RemoteList, RemoteIoError, generator
    <3>2. rpc' \in RemotePcs \ {"flags", "file"}
      BY <2>1, <1>4 DEF RemoteGreets, RemoteModule, RemoteLines, RemoteSays, RemoteResponse, RemoteArguments,
             RemoteSetsUp, RemoteFilter, RemoteList, RemoteIoError, RemotePcs
    <3> QED  BY <1>4, <3>1, <3>2
  <2>2. CASE RemoteNegotiates
    <3>1. out # <<>> /\ rpc = "version"
      BY <2>2 DEF RemoteNegotiates, RemoteReads
    <3>2. Head(out).value \in Int
      <4>1. Head(out) = Unit("version", connection.preferred)
        BY <1>1, <3>1, ExpectVersion
      <4>2. connection.preferred \in Int
        BY <1>1, Agreement DEF TypeInv
      <4> QED  BY <4>1, <4>2 DEF Unit
    <3> QED  BY <1>4, <2>2, <3>2 DEF RemoteNegotiates, RemotePcs, generator
  <2>3. CASE RemoteGenerates
    <3>1. /\ UNCHANGED <<rpc, rprotocol, receiving, redo, dones, echoed, retried>>
          /\ wanted' = wanted + 1 /\ asked' \in {asked, asked \cup {wanted}}
      BY <2>3 DEF RemoteGenerates
    <3>2. wanted' \in Nat \ {0} /\ asked' \subseteq Nat
      BY <1>4, <3>1
    <3> QED  BY <1>4, <3>1, <3>2
  <2>4. CASE RemoteAsksAgain
    BY <1>4, <2>4 DEF RemoteAsksAgain
  <2>5. CASE RemoteDone
    BY <1>4, <2>5 DEF RemoteDone
  <2>6. CASE RemoteIndex
    <3>1. out # <<>> /\ rpc \in {"receive", "serve"}
      BY <2>6 DEF RemoteIndex, RemoteReads
    <3>2. Head(out).value = INDEX_DONE \/ Head(out).value \in Nat \ {0}
      BY <1>1, <3>1, ExpectRemoteIndex
    <3>3. receiving' = Head(out).value /\ receiving' \in Int
      BY <2>6, <3>2 DEF RemoteIndex, INDEX_DONE
    <3>4. rpc' \in RemotePcs /\ (rpc' \in {"flags", "file"} => receiving' \in Nat \ {0}) /\ echoed' \in Nat
      <4>1. CASE receiving' = INDEX_DONE
        <5>1. echoed' = echoed + 1 /\ rpc' = rpc
          BY <2>6, <4>1 DEF RemoteIndex
        <5>2. rpc' \notin {"flags", "file"} /\ rpc' \in RemotePcs
          BY <1>4, <3>1, <5>1
        <5> QED  BY <1>4, <5>1, <5>2
      <4>2. CASE receiving' # INDEX_DONE
        <5>1. echoed' = echoed /\ rpc' = "flags"
          BY <2>6, <4>2 DEF RemoteIndex
        <5>2. receiving' \in Nat \ {0}
          BY <3>2, <3>3, <4>2
        <5> QED  BY <1>4, <5>1, <5>2 DEF RemotePcs
      <4> QED  BY <4>1, <4>2
    <3> QED  BY <1>4, <2>6, <3>3, <3>4 DEF RemoteIndex
  <2>7. CASE RemoteFlags
    BY <1>4, <2>7 DEF RemoteFlags, generator, RemotePcs
  <2>8. CASE RemoteFile
    BY <1>4, <2>8 DEF RemoteFile, RemotePcs
  <2> QED  BY <2>1, <2>2, <2>3, <2>4, <2>5, <2>6, <2>7, <2>8 DEF Remote
<1> QED  BY <1>1, <1>2, <1>3, <1>5 DEF TypeInv, client, constant

-----------------------------------------------------------------------------
(* What a step of the client leaves alone. *)
LEMMA ClientKeeps ==
  ASSUME Client
  PROVE  UNCHANGED <<remote, constant>>
BY DEF Client, Connect, ReadVersion, ReadGreeting, ReadLine, ReadCompatibility, ReadSeed,
       SendFilters, SendList, ReceiveEntry, ReceiveEnd, ReceiveIoError, UploadDone, UploadIndex,
       ReadFlags, SendFile, Round, RoundFlags

(* What a step of the remote side leaves alone. *)
LEMMA RemoteKeeps ==
  ASSUME Remote
  PROVE  UNCHANGED <<client, constant>>
BY DEF Remote, RemoteGreets, RemoteNegotiates, RemoteModule, RemoteLines, RemoteResponse,
       RemoteArguments, RemoteSetsUp, RemoteFilter, RemoteList, RemoteIoError, RemoteGenerates,
       RemoteAsksAgain, RemoteDone, RemoteIndex, RemoteFlags, RemoteFile, RemoteSays, unchangedByRemote

(* The protocol. *)
LEMMA ClientProtocol ==
  ASSUME Inv, Client, DaemonsPrefer30
  PROVE  ProtocolInv'
<1>1. /\ TypeInv /\ PlaceInv /\ InwardInv /\ ProtocolInv /\ UNCHANGED <<rpc, rprotocol, connection>>
  BY ClientKeeps DEF Inv, remote, constant
<1>2. Agreed' = Agreed
  BY <1>1 DEF Agreed
<1>3. /\ connection.preferred \in {29, 30} /\ connection.version \in Nat
      /\ connection.daemon = TRUE => connection.preferred = 30
  BY <1>1, Agreement DEF TypeInv, DaemonsPrefer30
<1>4. CASE Connect
  BY <1>1, <1>2, <1>4 DEF Connect, ProtocolInv
<1>5. CASE ReadVersion
  <2>1. Head(in) = Unit("version", connection.version)
    BY <1>1, <1>5, ExpectGreeting DEF ReadVersion, Reads
  <2>2. Value = connection.version /\ protocol = connection.preferred
    BY <1>1, <1>5, <2>1 DEF Value, Unit, ReadVersion, ProtocolInv
  <2>3. protocol' = Agreed
    BY <1>3, <1>5, <2>2 DEF ReadVersion, Negotiated, Agreed
  <2>4. pc' \in {"compatibility", "seed", "fatal"}
    BY <1>5 DEF ReadVersion, AfterVersion
  <2> QED  BY <1>1, <1>2, <2>3, <2>4 DEF ProtocolInv
<1>6. CASE ReadGreeting
  <2>1. Head(in) = Unit("version", connection.version)
    BY <1>1, <1>6, ExpectGreeting DEF ReadGreeting, Reads
  <2>2. /\ Value = connection.version /\ protocol = connection.preferred
        /\ connection.preferred = 30
    <3>1. Value = connection.version
      BY <2>1 DEF Value, Unit
    <3>2. pc = "login"
      BY <1>6 DEF ReadGreeting
    <3>3. protocol = connection.preferred
      BY <1>1, <3>2 DEF ProtocolInv
    <3>4. connection.daemon = TRUE
      BY <1>1, <3>2 DEF PlaceInv
    <3> QED  BY <1>3, <3>1, <3>3, <3>4
  <2>3. pc' \in {"lines", "fatal"} /\ (pc' = "lines" => Value >= 29)
    BY <1>6 DEF ReadGreeting
  <2>4. Value >= 29 => protocol' = Agreed
    BY <1>3, <1>6, <2>2 DEF ReadGreeting, Agreed
  <2> QED  BY <1>1, <1>2, <2>3, <2>4 DEF ProtocolInv
<1>7. CASE ~(Connect \/ ReadVersion \/ ReadGreeting)
  <2>1. protocol' = protocol
    BY <1>7 DEF Client, ReadLine, ReadCompatibility, ReadSeed, SendFilters, SendList, ReceiveEntry,
       ReceiveEnd, ReceiveIoError, UploadDone, UploadIndex, ReadFlags, SendFile, Round, RoundFlags
  <2>2. pc \notin {"connect", "version", "login", "fatal"}
    BY <1>7 DEF Client, ReadLine, ReadCompatibility, ReadSeed, SendFilters, SendList, ReceiveEntry,
       ReceiveEnd, ReceiveIoError, UploadDone, UploadIndex, ReadFlags, SendFile, Round, RoundFlags
  <2>3. pc' \notin {"connect", "version", "login"}
    <3>1. CASE ReadLine
      <4>1. Value \in {"text", "authreqd", "ok", "exit", "error"}
        BY <1>1, <3>1, ExpectLine DEF ReadLine, Reads, Value
      <4>2. Value \in {"text", "authreqd"} => pc' = pc
        BY <3>1 DEF ReadLine
      <4>3. Value \in {"ok", "exit"} => pc' = LoginEnds
        BY <3>1 DEF ReadLine
      <4>4. Value = "error" => pc' = "fatal"
        BY <3>1 DEF ReadLine
      <4> QED  BY <2>2, <4>1, <4>2, <4>3, <4>4 DEF LoginEnds, AfterVersion
    <3>2. CASE ~ReadLine
      BY <1>7, <2>2, <3>2 DEF Client, ReadCompatibility, ReadSeed, SendFilters, SendList, ReceiveEntry,
         ReceiveEnd, ReceiveIoError, ListReceived, UploadDone, UploadIndex, ReadFlags, SendFile,
         Round, RoundFlags, EndRound
    <3> QED  BY <3>1, <3>2
  <2> QED  BY <1>1, <1>2, <2>1, <2>2, <2>3 DEF ProtocolInv
<1> QED  BY <1>4, <1>5, <1>6, <1>7

(* The protocol in the steps of the remote side. *)
LEMMA RemoteProtocol ==
  ASSUME Inv, Remote
  PROVE  ProtocolInv'
<1>1. /\ TypeInv /\ OutwardInv /\ ProtocolInv /\ UNCHANGED <<pc, protocol, connection>>
  BY RemoteKeeps DEF Inv, client, constant
<1>2. Agreed' = Agreed
  BY <1>1 DEF Agreed
<1>3. rprotocol' = IF rpc' \in {"start", "version"} THEN connection.version ELSE Agreed
  <2>1. CASE RemoteNegotiates
    <3>1. Head(out) = Unit("version", connection.preferred)
      BY <1>1, <2>1, ExpectVersion DEF RemoteNegotiates, RemoteReads
    <3>2. Head(out).value = connection.preferred /\ rprotocol = connection.version
      <4>1. Head(out).value = connection.preferred
        BY <3>1 DEF Unit
      <4>2. rpc = "version"
        BY <2>1 DEF RemoteNegotiates
      <4>3. rprotocol = connection.version
        BY <1>1, <4>2 DEF ProtocolInv
      <4> QED  BY <4>1, <4>3
    <3>3. connection.preferred \in Nat /\ connection.version \in Nat
      BY <1>1, Agreement DEF TypeInv
    <3>4. rprotocol' = Agreed
      <4>1. rprotocol' = IF connection.preferred < connection.version THEN connection.preferred
                                                                   ELSE connection.version
        BY <2>1, <3>2 DEF RemoteNegotiates
      <4> QED  BY <3>3, <4>1 DEF Agreed
    <3> QED  BY <2>1, <3>4 DEF RemoteNegotiates
  <2>2. CASE RemoteGreets
    BY <1>1, <2>2 DEF RemoteGreets, ProtocolInv
  <2>3. CASE ~(RemoteNegotiates \/ RemoteGreets)
    <3>1. rprotocol' = rprotocol
      BY <2>3 DEF Remote, RemoteModule, RemoteLines, RemoteSays, RemoteResponse, RemoteArguments,
         RemoteSetsUp, RemoteFilter, RemoteList, RemoteIoError, RemoteGenerates, RemoteAsksAgain,
         RemoteDone, RemoteIndex, RemoteFlags, RemoteFile
    <3>2. rpc \notin {"start", "version"} /\ rpc' \notin {"start", "version"}
      BY <2>3 DEF Remote, RemoteModule, RemoteLines, RemoteSays, RemoteResponse, RemoteArguments,
         RemoteSetsUp, RemoteFilter, RemoteList, RemoteIoError, RemoteGenerates, RemoteAsksAgain,
         RemoteDone, RemoteIndex, RemoteFlags, RemoteFile, Generating
    <3> QED  BY <1>1, <3>1, <3>2 DEF ProtocolInv
  <2> QED  BY <2>1, <2>2, <2>3
<1> QED  BY <1>1, <1>2, <1>3 DEF ProtocolInv

-----------------------------------------------------------------------------
(* Of the client's places. *)
LEMMA ClientMoves ==
  ASSUME Inv, Client
  PROVE  PlaceInv'
<1>1. /\ TypeInv /\ PlaceInv /\ InwardInv
      /\ UNCHANGED <<rpc, dones, redo, connection, op>>
  BY ClientKeeps DEF Inv, remote, constant
<1>2. phase \in Nat /\ dones \in Nat /\ rounds \in Int /\ pc \in ClientPcs
  BY <1>1 DEF TypeInv
<1>3. Downloading' = Downloading /\ Deleting' = Deleting
  BY ClientKeeps DEF Downloading, Deleting, constant
<1>4. CASE Connect \/ ReadVersion \/ ReadGreeting \/ ReadCompatibility \/ ReadSeed
           \/ SendFilters \/ ReceiveEntry \/ ReceiveEnd \/ ReceiveIoError \/ ReadFlags \/ SendFile
  <2>1. phase' = phase /\ rounds' = rounds
    BY <1>4 DEF Connect, ReadVersion, ReadGreeting, ReadCompatibility, ReadSeed, SendFilters,
                ReceiveEntry, ReceiveEnd, ReceiveIoError, ReadFlags, SendFile, uploadState
  <2>2. CASE Connect
    <3>1. pc = "connect" /\ pc' = IF connection.daemon THEN "login" ELSE "version"
      BY <2>2 DEF Connect
    <3>2. connection.daemon \in BOOLEAN /\ (op = "listModules" => connection.daemon)
      BY <1>1, Agreement DEF TypeInv
    <3>3. phase = 0
      BY <1>1, <3>1 DEF PlaceInv, SettingUp
    <3>4. CASE connection.daemon = TRUE
      BY <1>1, <1>3, <2>1, <3>1, <3>3, <3>4 DEF PlaceInv
    <3>5. CASE connection.daemon = FALSE
      BY <1>1, <1>3, <2>1, <3>1, <3>2, <3>3, <3>5 DEF PlaceInv
    <3> QED  BY <3>2, <3>4, <3>5
  <2>3. CASE ReadVersion
    <3>1. pc = "version" /\ pc' \in {"compatibility", "seed", "fatal"}
      BY <2>3 DEF ReadVersion, AfterVersion
    <3>2. phase = 0 /\ op # "listModules"
      BY <1>1, <3>1 DEF PlaceInv, SettingUp
    <3> QED  BY <1>1, <1>3, <2>1, <3>1, <3>2 DEF PlaceInv
  <2>4. CASE ReadGreeting
    <3>1. pc = "login" /\ pc' \in {"lines", "fatal"}
      BY <2>4 DEF ReadGreeting
    <3>2. phase = 0 /\ connection.daemon = TRUE
      BY <1>1, <3>1 DEF PlaceInv, SettingUp
    <3> QED  BY <1>1, <1>3, <2>1, <3>1, <3>2 DEF PlaceInv
  <2>5. CASE ReadCompatibility \/ ReadSeed
    <3>1. /\ pc \in {"compatibility", "seed"}
          /\ pc' \in {"seed", "fatal", "receive list", "filters", "send list"}
          /\ pc' = "receive list" => Downloading
          /\ pc' = "filters" => op = "remove"
          /\ pc' = "send list" => ~Downloading
      BY <2>5 DEF ReadCompatibility, ReadSeed
    <3>2. phase = 0 /\ op # "listModules"
      BY <1>1, <3>1 DEF PlaceInv, SettingUp
    <3> QED  BY <1>1, <1>3, <2>1, <3>1, <3>2 DEF PlaceInv
  <2>6. CASE SendFilters
    <3>1. pc = "filters" /\ pc' = "send list"
      BY <2>6 DEF SendFilters
    <3>2. phase = 0 /\ op = "remove"
      BY <1>1, <3>1 DEF PlaceInv
    <3>3. ~Downloading
      BY <3>2 DEF Downloading
    <3> QED  BY <1>1, <1>3, <2>1, <3>1, <3>2, <3>3 DEF PlaceInv
  <2>7. CASE ReceiveEntry \/ ReceiveEnd \/ ReceiveIoError
    <3>1. pc \in {"receive list", "io error"} /\ pc' \in {"receive list", "io error", "done"}
      BY <2>7 DEF ReceiveEntry, ReceiveEnd, ReceiveIoError, ListReceived
    <3>2. phase = 0 /\ Downloading /\ op # "listModules"
      BY <1>1, <3>1 DEF PlaceInv
    <3> QED  BY <1>1, <1>3, <2>1, <3>1, <3>2 DEF PlaceInv
  <2>8. CASE ReadFlags \/ SendFile
    <3>1. pc \in {"flags", "checksums"} /\ pc' \in {"checksums", "upload"}
      BY <2>8 DEF ReadFlags, SendFile
    <3>2. phase \in {0, 1} /\ op = "upload" /\ rounds = 2
      BY <1>1, <3>1 DEF PlaceInv
    <3>3. pc' \notin SettingUp
      BY <3>1 DEF SettingUp
    <3> QED  BY <1>1, <1>3, <2>1, <3>1, <3>2, <3>3 DEF PlaceInv
  <2> QED  BY <1>4, <2>2, <2>3, <2>4, <2>5, <2>6, <2>7, <2>8
<1>5. CASE ReadLine
  <2>1. phase' = phase /\ rounds' = rounds /\ pc = "lines"
    BY <1>5 DEF ReadLine, uploadState
  <2>2. phase = 0 /\ connection.daemon = TRUE
    BY <1>1, <2>1 DEF PlaceInv, SettingUp
  <2>3. /\ Value \in {"text", "authreqd", "ok", "exit", "error"}
        /\ Value = "ok" => op # "listModules"
        /\ Value = "exit" => op = "listModules"
    BY <1>1, <1>5, <2>1, ExpectLine DEF ReadLine, Reads, Value
  <2>4. /\ pc' \in {"lines", "fatal", "done", "compatibility", "seed"}
        /\ pc' \in {"compatibility", "seed"} => op # "listModules"
    <3>1. CASE Value \in {"text", "authreqd", "error"}
      BY <1>5, <2>1, <3>1 DEF ReadLine
    <3>2. CASE Value = "ok"
      BY <1>5, <2>3, <3>2 DEF ReadLine, LoginEnds, AfterVersion
    <3>3. CASE Value = "exit"
      BY <1>5, <2>3, <3>3 DEF ReadLine, LoginEnds
    <3> QED  BY <2>3, <3>1, <3>2, <3>3
  <2> QED  BY <1>1, <1>3, <2>1, <2>2, <2>4 DEF PlaceInv
<1>6. CASE SendList
  <2>1. /\ pc = "send list" /\ phase' = phase
        /\ op = "upload" => pc' = "upload" /\ rounds' = 2
        /\ op # "upload" => pc' = "rounds"
    BY <1>6 DEF SendList
  <2>2. phase = 0 /\ ~Downloading /\ op # "listModules"
    BY <1>1, <2>1 DEF PlaceInv
  <2>3. CASE op = "upload"
    BY <1>1, <1>3, <2>1, <2>2, <2>3 DEF PlaceInv
  <2>4. CASE op # "upload"
    BY <1>1, <1>3, <2>1, <2>2, <2>4 DEF PlaceInv
  <2> QED  BY <2>3, <2>4
<1>7. CASE UploadDone
  <2>1. /\ pc = "upload" /\ phase' = phase + 1 /\ rounds' = rounds
        /\ in # <<>> /\ Head(in).value = INDEX_DONE
        /\ pc' = IF phase' < 2 THEN "upload" ELSE "rounds"
    BY <1>7 DEF UploadDone, Reads, Value, MorePhases
  <2>2. op = "upload" /\ phase \in {0, 1} /\ rounds = 2
    BY <1>1, <2>1 DEF PlaceInv
  <2>3. ClientLeft > 4 - dones
    BY <1>1, <2>1, <2>2, ExpectIndex
  <2>4. ClientLeft = 4 - phase
    BY <2>1, <2>2 DEF ClientLeft
  <2>5. phase' <= dones /\ phase' \in {1, 2} /\ (pc' = "upload" => phase' = 1) /\ (pc' = "rounds" => phase' = 2)
        /\ pc' \in {"upload", "rounds"}
    BY <1>2, <2>1, <2>2, <2>3, <2>4
  <2>6. ~Downloading
    BY <2>2 DEF Downloading
  <2>7. CASE pc' = "upload"
    BY <1>1, <1>3, <2>1, <2>2, <2>5, <2>6, <2>7 DEF PlaceInv, SettingUp
  <2>8. CASE pc' = "rounds"
    BY <1>1, <1>3, <2>1, <2>2, <2>5, <2>6, <2>8 DEF PlaceInv, SettingUp
  <2> QED  BY <2>5, <2>7, <2>8
<1>8. CASE UploadIndex
  <2>1. pc = "upload" /\ phase' = phase /\ rounds' = rounds /\ pc' \in {"flags", "fatal"}
    BY <1>8 DEF UploadIndex
  <2>2. op = "upload" /\ phase \in {0, 1} /\ rounds = 2
    BY <1>1, <2>1 DEF PlaceInv
  <2>3. pc' \notin SettingUp
    BY <2>1 DEF SettingUp
  <2> QED  BY <1>1, <1>3, <2>1, <2>2, <2>3 DEF PlaceInv
<1>9. CASE Round
  <2>1. /\ pc = "rounds" /\ phase' = phase /\ in # <<>>
        /\ \/ pc' = "round flags" /\ Head(in).value # INDEX_DONE
           \/ /\ rounds' = rounds - 1
              /\ pc' = IF rounds' = 0 THEN "done" ELSE "rounds"
    BY <1>9 DEF Round, EndRound, Reads, Value
  <2>2. ~Downloading /\ op # "listModules" /\ (op = "upload" => phase = 2 /\ rounds \in {1, 2})
    BY <1>1, <2>1 DEF PlaceInv
  <2>3. op = "upload" => ClientLeft = rounds
    BY <2>1 DEF ClientLeft
  <2>4. op = "upload" /\ Head(in).value # INDEX_DONE => ClientLeft \in {3, 4}
    BY <1>1, <2>1, ExpectIndex
  <2>5. CASE pc' = "round flags" /\ Head(in).value # INDEX_DONE
    <3>1. ASSUME op = "upload" PROVE FALSE
      <4>1. PICK r : r = rounds /\ r = ClientLeft
        BY <2>3, <3>1
      <4>2. r \in {1, 2} /\ r \in {3, 4}
        BY <2>2, <2>4, <2>5, <3>1, <4>1
      <4> QED  BY <4>2
    <3> QED  BY <1>1, <1>3, <2>1, <2>2, <2>5, <3>1 DEF PlaceInv, SettingUp
  <2>6. CASE rounds' = rounds - 1 /\ pc' = IF rounds' = 0 THEN "done" ELSE "rounds"
    <3>1. op = "upload" => rounds' \in {0, 1}
      BY <2>2, <2>6
    <3> QED  BY <1>1, <1>3, <2>1, <2>2, <2>6, <3>1 DEF PlaceInv, SettingUp
  <2> QED  BY <2>1, <2>5, <2>6
<1>10. CASE RoundFlags
  <2>1. /\ pc = "round flags" /\ phase' = phase /\ pc' \in {"done", "rounds"}
    BY <1>10 DEF RoundFlags, EndRound
  <2>2. ~Downloading /\ op \notin {"listModules", "upload"}
    BY <1>1, <2>1 DEF PlaceInv
  <2> QED  BY <1>1, <1>3, <2>1, <2>2 DEF PlaceInv, SettingUp
<1> QED  BY <1>4, <1>5, <1>6, <1>7, <1>8, <1>9, <1>10 DEF Client

(* Nothing that the client has written waits while the session is set up. *)
LEMMA ClientPrompt ==
  ASSUME Inv, Client
  PROVE  PromptInv'
<1>1. /\ TypeInv /\ PlaceInv /\ InwardInv /\ PromptInv /\ ProtocolInv
      /\ UNCHANGED <<rpc, connection>> /\ Outcome' = Outcome
  BY ClientKeeps DEF Inv, remote, constant, Outcome, AfterVersion, Agreed
<1>2. CASE Connect
  <2>1. pc = "connect" /\ pc' \in {"login", "version"} /\ buffer' = buffer
    BY <1>2 DEF Connect, WritesDirectly
  <2>2. rpc \in {"start", "version"} /\ buffer = <<>>
    BY <1>1, <2>1 DEF PromptInv, SettingUp
  <2> QED  BY <1>1, <2>1, <2>2 DEF PromptInv
<1>3. CASE ReadVersion \/ ReadGreeting
  <2>1. /\ pc \in {"version", "login"} /\ UNCHANGED <<out, buffer>>
        /\ pc = "version" => pc' \in {"compatibility", "seed", "fatal"}
        /\ pc = "login" => pc' \in {"lines", "fatal"}
    BY <1>3 DEF ReadVersion, ReadGreeting, WritesNothing, AfterVersion
  <2>2. buffer = <<>> /\ (pc = "version" => rpc # "arguments")
    <3>1. pc = "version" => rpc # "arguments"
      BY <1>1 DEF PlaceInv
    <3> QED  BY <1>1, <2>1, <3>1 DEF PromptInv, SettingUp
  <2> QED  BY <1>1, <2>1, <2>2 DEF PromptInv
<1>4. CASE ReadLine
  <2>1. pc = "lines" /\ in # <<>>
    BY <1>4 DEF ReadLine, Reads
  <2>2. /\ Value \in {"text", "authreqd", "ok", "exit", "error"}
        /\ Value = "authreqd" => rpc = "response"
        /\ Value = "ok" => op # "listModules"
        /\ Value = "exit" => op = "listModules"
    BY <1>1, <2>1, ExpectLine DEF Value
  <2>3. buffer' = buffer /\ buffer = <<>>
    <3>1. buffer = <<>>
      BY <1>1, <2>1 DEF PromptInv, SettingUp
    <3>2. CASE Value = "text"
      BY <1>4, <3>1, <3>2 DEF ReadLine, WritesNothing
    <3>3. CASE Value = "authreqd"
      BY <1>4, <3>1, <3>3 DEF ReadLine, WritesDirectly
    <3>4. CASE Value = "ok"
      BY <1>4, <3>1, <3>4 DEF ReadLine, WritesDirectly
    <3>5. CASE Value = "exit"
      BY <1>4, <3>1, <3>5 DEF ReadLine, WritesNothing
    <3>6. CASE Value = "error"
      BY <1>4, <3>1, <3>6 DEF ReadLine, WritesNothing
    <3> QED  BY <2>2, <3>2, <3>3, <3>4, <3>5, <3>6
  <2>4. protocol = Agreed
    BY <1>1, <2>1 DEF ProtocolInv
  <2>5. rpc = "arguments" =>
          /\ pc' \in {"lines", "done", "fatal", Outcome}
          /\ pc' = "lines" => out' = <<>>
    <3>1. rpc = "arguments" => out = <<>>
      BY <1>1, <2>1 DEF PromptInv
    <3>2. CASE Value = "text"
      BY <1>4, <2>1, <3>1, <3>2 DEF ReadLine, WritesNothing
    <3>3. CASE Value = "authreqd"
      BY <2>2, <3>3
    <3>4. CASE Value = "ok"
      <4>1. pc' = Outcome
        BY <1>4, <2>2, <2>4, <3>4 DEF ReadLine, LoginEnds, Outcome
      <4> QED  BY <4>1 DEF Outcome, AfterVersion
    <3>5. CASE Value = "exit"
      BY <1>4, <2>2, <3>5 DEF ReadLine, LoginEnds
    <3>6. CASE Value = "error"
      BY <1>4, <3>6 DEF ReadLine
    <3> QED  BY <2>2, <3>2, <3>3, <3>4, <3>5, <3>6
  <2>6. pc' \notin {"connect", "login"}
    <3>1. CASE Value \in {"text", "authreqd", "error"}
      BY <1>4, <2>1, <3>1 DEF ReadLine
    <3>2. CASE Value \in {"ok", "exit"}
      BY <1>4, <2>1, <3>2 DEF ReadLine, LoginEnds, AfterVersion
    <3> QED  BY <2>2, <3>1, <3>2
  <2> QED  BY <1>1, <2>3, <2>5, <2>6 DEF PromptInv
<1>5. CASE ReadCompatibility \/ ReadSeed
  <2>1. pc \in {"compatibility", "seed"} /\ in # <<>>
    BY <1>5 DEF ReadCompatibility, ReadSeed, Reads
  <2>2. rpc # "arguments"
    BY <1>1, <2>1, ExpectSetUp
  <2>3. /\ pc' \notin {"connect", "login", "version", "lines"}
        /\ pc' \in SettingUp => buffer' = buffer
    BY <1>5 DEF ReadCompatibility, ReadSeed, WritesNothing, SettingUp
  <2>4. buffer = <<>>
    BY <1>1, <2>1 DEF PromptInv, SettingUp
  <2> QED  BY <1>1, <2>2, <2>3, <2>4 DEF PromptInv
<1>6. CASE ~(Connect \/ ReadVersion \/ ReadGreeting \/ ReadLine \/ ReadCompatibility \/ ReadSeed)
  <2>1. /\ pc \notin SettingUp \cup {"done", "fatal"} /\ pc' \notin SettingUp
    BY <1>6 DEF Client, SendFilters, SendList, ReceiveEntry, ReceiveEnd, ReceiveIoError, ListReceived,
                UploadDone, UploadIndex, ReadFlags, SendFile, Round, RoundFlags, EndRound, SettingUp
  <2>2. Outcome \in SettingUp
    BY DEF Outcome, AfterVersion, SettingUp
  <2>3. rpc # "arguments"
    BY <1>1, <2>1, <2>2 DEF PromptInv, SettingUp
  <2> QED  BY <1>1, <2>1, <2>3 DEF PromptInv, SettingUp
<1> QED  BY <1>2, <1>3, <1>4, <1>5, <1>6

(* Of the places of the remote side. *)
LEMMA RemoteMoves ==
  ASSUME Inv, Remote
  PROVE  PlaceInv'
<1>1. /\ TypeInv /\ PlaceInv /\ OutwardInv
      /\ UNCHANGED <<pc, phase, rounds, connection, op>>
  BY RemoteKeeps DEF Inv, client, constant
<1>2. phase \in Nat /\ dones \in Nat /\ rpc \in RemotePcs /\ connection.daemon \in BOOLEAN
      /\ (op = "listModules" => connection.daemon)
  BY <1>1, Agreement DEF TypeInv
<1>3. Downloading' = Downloading
  BY RemoteKeeps DEF Downloading, constant
<1>4. ASSUME /\ rpc' \in {"module", "lines", "response", "arguments"} => connection.daemon = TRUE
             /\ op = "listModules" => rpc' \in {"start", "version", "module", "lines", "gone"}
             /\ rpc' \in {"list", "io error", "receive", "flags", "file"} => ~Downloading
             /\ rpc' = "serve" => Downloading
             /\ rpc' \in {"flags", "receive", "file"} \/ (dones' = 0 /\ redo' = {})
             /\ phase <= dones => phase <= dones'
             /\ rpc' = "file" \/ redo' # {} => op = "upload"
      PROVE  PlaceInv'
  BY <1>1, <1>3, <1>4 DEF PlaceInv
<1>5. CASE RemoteGreets \/ RemoteModule \/ RemoteArguments \/ RemoteList \/ RemoteIoError \/ RemoteResponse
  <2>1. /\ UNCHANGED <<dones, redo>>
        /\ \/ rpc = "start" /\ rpc' = "version"
           \/ rpc = "module" /\ rpc' = "lines"
           \/ rpc = "response" /\ rpc' \in {"arguments", "gone"}
           \/ rpc = "arguments" /\ rpc' = "set up"
           \/ rpc = "list" /\ rpc' \in {"list", "io error", "receive"}
           \/ rpc = "io error" /\ rpc' = "receive"
    BY <1>5 DEF RemoteGreets, RemoteModule, RemoteArguments, RemoteList, RemoteIoError, RemoteResponse, generator
  <2>2. /\ dones = 0 /\ redo = {}
        /\ rpc \in {"module", "response"} => connection.daemon = TRUE
        /\ op = "listModules" => rpc \in {"start", "version", "module", "lines", "gone"}
        /\ rpc \in {"list", "io error"} => ~Downloading
    BY <1>1, <2>1 DEF PlaceInv
  <2> QED  BY <1>4, <2>1, <2>2
<1>6. CASE RemoteNegotiates
  <2>1. /\ UNCHANGED <<dones, redo>> /\ rpc = "version"
        /\ rpc' = IF connection.daemon THEN "module" ELSE "set up"
    BY <1>6 DEF RemoteNegotiates, generator
  <2>2. dones = 0 /\ redo = {}
    BY <1>1, <2>1 DEF PlaceInv
  <2> QED  BY <1>2, <1>4, <2>1, <2>2
<1>7. CASE RemoteLines
  <2>1. /\ UNCHANGED <<dones, redo>> /\ rpc = "lines"
        /\ rpc' \in {"lines", "gone"} \/ (op # "listModules" /\ rpc' \in {"response", "arguments"})
    BY <1>7 DEF RemoteLines, RemoteSays, generator
  <2>2. dones = 0 /\ redo = {} /\ connection.daemon = TRUE
    BY <1>1, <2>1 DEF PlaceInv
  <2> QED  BY <1>4, <2>1, <2>2
<1>8. CASE RemoteSetsUp
  <2>1. /\ UNCHANGED <<dones, redo>> /\ rpc = "set up"
        /\ rpc' = IF Downloading \/ Deleting THEN "filters" ELSE "list"
    BY <1>8 DEF RemoteSetsUp, generator
  <2>2. dones = 0 /\ redo = {} /\ op # "listModules"
    BY <1>1, <2>1 DEF PlaceInv
  <2> QED  BY <1>4, <2>1, <2>2
<1>9. CASE RemoteFilter
  <2>1. /\ UNCHANGED <<dones, redo>> /\ rpc = "filters"
        /\ rpc' = "filters" \/ (Downloading /\ rpc' = "serve") \/ (~Downloading /\ rpc' = "list")
    BY <1>9 DEF RemoteFilter, generator
  <2>2. dones = 0 /\ redo = {} /\ op # "listModules"
    BY <1>1, <2>1 DEF PlaceInv
  <2> QED  BY <1>4, <2>1, <2>2
<1>10. CASE RemoteGenerates \/ RemoteAsksAgain \/ RemoteDone
  <2>1. /\ rpc' = rpc /\ rpc \in {"receive", "flags", "file"} /\ dones' \in {dones, dones + 1}
        /\ redo' \subseteq redo
    BY <1>10 DEF RemoteGenerates, RemoteAsksAgain, RemoteDone, Generating
  <2>2. op # "listModules" /\ ~Downloading /\ (rpc = "file" \/ redo # {} => op = "upload")
    BY <1>1, <2>1 DEF PlaceInv
  <2>3. phase <= dones => phase <= dones'
    BY <1>2, <2>1
  <2> QED  BY <1>4, <2>1, <2>2, <2>3
<1>11. CASE RemoteIndex
  <2>1. /\ UNCHANGED <<dones, redo>> /\ rpc \in {"receive", "serve"} /\ out # <<>>
        /\ rpc' = IF Head(out).value = INDEX_DONE THEN rpc ELSE "flags"
    BY <1>11 DEF RemoteIndex, RemoteReads
  <2>2. Head(out).value # INDEX_DONE => ~Downloading
    BY <1>1, <2>1, ExpectRemoteIndex
  <2>3. /\ op # "listModules" /\ (rpc = "receive" => ~Downloading) /\ (rpc = "serve" => Downloading)
        /\ rpc = "serve" => dones = 0 /\ redo = {}
        /\ redo # {} => op = "upload"
    BY <1>1, <2>1 DEF PlaceInv
  <2> QED  BY <1>4, <2>1, <2>2, <2>3
<1>12. CASE RemoteFlags
  <2>1. /\ UNCHANGED <<dones, redo>> /\ rpc = "flags" /\ out # <<>>
        /\ rpc' = IF Head(out).value = "wanted" THEN "file" ELSE "receive"
    BY <1>12 DEF RemoteFlags, RemoteReads, generator
  <2>2. Head(out).value = "wanted" => op = "upload"
    BY <1>1, <2>1, ExpectRemoteFlags
  <2>3. op # "listModules" /\ ~Downloading /\ (redo # {} => op = "upload")
    BY <1>1, <2>1 DEF PlaceInv
  <2> QED  BY <1>4, <2>1, <2>2, <2>3
<1>13. CASE RemoteFile
  <2>1. dones' = dones /\ rpc = "file" /\ rpc' = "receive"
    BY <1>13 DEF RemoteFile
  <2>2. op = "upload" /\ op # "listModules" /\ ~Downloading
    BY <1>1, <2>1 DEF PlaceInv
  <2> QED  BY <1>4, <2>1, <2>2
<1> QED  BY <1>5, <1>6, <1>7, <1>8, <1>9, <1>10, <1>11, <1>12, <1>13 DEF Remote

(* Who waits for whom, in the steps of the remote side. *)
LEMMA RemotePrompt ==
  ASSUME Inv, Remote
  PROVE  PromptInv'
<1>1. /\ TypeInv /\ PlaceInv /\ OutwardInv /\ PromptInv
      /\ UNCHANGED <<pc, buffer, connection>> /\ Outcome' = Outcome
  BY RemoteKeeps DEF Inv, client, constant, Outcome, AfterVersion, Agreed
<1>2. CASE RemoteGreets
  BY <1>1, <1>2 DEF RemoteGreets, PromptInv
<1>3. CASE RemoteNegotiates
  <2>1. out # <<>> /\ rpc' \in {"module", "set up"}
    BY <1>3 DEF RemoteNegotiates, RemoteReads
  <2> QED  BY <1>1, <2>1 DEF PromptInv
<1>4. CASE RemoteLines
  <2>1. rpc = "lines" /\ out' = out
    BY <1>4 DEF RemoteLines, RemoteSays
  <2>2. out = <<>> /\ (Gone \/ pc \in {"login", "lines"})
    BY <1>1, <2>1, ExpectNothing
  <2> QED  BY <1>1, <2>1, <2>2 DEF PromptInv, Gone
<1>5. CASE RemoteResponse
  <2>1. rpc = "response" /\ out # <<>> /\ out' = Tail(out) /\ rpc' \in {"arguments", "gone"}
    BY <1>5 DEF RemoteResponse, RemoteReads
  <2>2. Tail(out) = <<>> /\ (Gone \/ pc = "lines")
    BY <1>1, <2>1, ExpectResponse
  <2> QED  BY <1>1, <2>1, <2>2 DEF PromptInv, Gone
<1>6. CASE ~(RemoteGreets \/ RemoteNegotiates \/ RemoteLines \/ RemoteResponse)
  <2>1. rpc \notin {"start", "version"} /\ rpc' \notin {"response", "arguments"}
    BY <1>6 DEF Remote, RemoteModule, RemoteArguments, RemoteSetsUp, RemoteFilter, RemoteList, RemoteIoError,
                RemoteGenerates, RemoteAsksAgain, RemoteDone, RemoteIndex, RemoteFlags, RemoteFile, Generating
  <2> QED  BY <1>1, <2>1 DEF PromptInv
<1> QED  BY <1>2, <1>3, <1>4, <1>5, <1>6

-----------------------------------------------------------------------------
(* The counters. *)
LEMMA ClientCounts ==
  ASSUME Inv, Client
  PROVE  CountInv'
<1>1. /\ TypeInv /\ PlaceInv /\ InwardInv /\ CountInv
      /\ UNCHANGED <<op, asked, wanted, retried, dones>>
  BY ClientKeeps DEF Inv, remote, constant
<1>2. PICK N \in Nat : N = Len(Sizes) /\ Files = 1 .. N
  BY FilesFinite
<1>3. /\ lastIndex \in Nat /\ phase \in Nat /\ dones \in Nat /\ sent \subseteq Files /\ skipped \in Int
      /\ logical \in Int /\ asked \subseteq Nat /\ wanted \in Nat
      /\ read \in [Files -> Nat] /\ changed \in BOOLEAN
  BY <1>1 DEF TypeInv
<1>4. CASE UploadDone
  <2>1. /\ pc = "upload" /\ in # <<>> /\ Head(in).value = INDEX_DONE
        /\ skipped' = skipped + SizeOf(Between(lastIndex, N + 1))
        /\ lastIndex' = IF lastIndex <= N THEN N + 1 ELSE lastIndex + 1
        /\ phase' = phase + 1 /\ UNCHANGED <<index, logical, sent, read, changed>>
        /\ pc' \in {"upload", "rounds"}
    BY <1>2, <1>4 DEF UploadDone, Reads, Value, MorePhases
  <2>2. op = "upload" /\ phase \in {0, 1} /\ ClientLeft = 4 - phase
    BY <1>1, <2>1 DEF PlaceInv, ClientLeft
  <2>3. phase = 0 => \A j \in asked : j <= lastIndex
    BY <1>1, <2>1, <2>2, ExpectIndex
  <2>4. lastIndex' > N
    BY <1>2, <1>3, <2>1
  <2>5. ASSUME ~retried PROVE skipped' = SizeOf(Files \ asked)
    <3>1. CASE phase = 0
      <4> DEFINE a == {k \in Files : k <= lastIndex} \ asked
                 b == Between(lastIndex, N + 1)
      <4>1. skipped = SizeOf(a)
        BY <1>1, <2>2, <3>1 DEF CountInv
      <4>2. a \cap b = {} /\ a \in SUBSET Files /\ b \in SUBSET Files
        BY <1>2, <1>3 DEF Between
      <4>3. a \cup b = Files \ asked
        <5>1. ASSUME NEW k \in Files PROVE k \in a \cup b <=> k \notin asked
          <6>1. k \in 1 .. N /\ (k \in asked => k <= lastIndex)
            BY <1>2, <2>3, <3>1
          <6>2. k \in b <=> lastIndex < k /\ k < N + 1
            BY DEF Between
          <6>3. k \in a <=> k <= lastIndex /\ k \notin asked
            OBVIOUS
          <6> HIDE DEF a, b
          <6> QED  BY <1>3, <6>1, <6>2, <6>3
        <5> HIDE DEF a, b
        <5> QED  BY <4>2, <5>1
      <4> HIDE DEF a, b
      <4>4. SizeOf(a \cup b) = SizeOf(a) + SizeOf(b)
        BY <4>2, SizeOfTwo
      <4> QED  BY <2>1, <4>1, <4>3, <4>4 DEF b
    <3>2. CASE phase = 1
      <4>1. lastIndex > N /\ skipped = SizeOf(Files \ asked)
        BY <1>1, <1>2, <2>5, <3>2 DEF CountInv
      <4>2. Between(lastIndex, N + 1) = {}
        BY <1>2, <1>3, <4>1 DEF Between
      <4>3. skipped' = skipped + 0
        BY <2>1, <4>2, SizeOfNone
      <4> QED  BY <1>3, <4>1, <4>3
    <3> QED  BY <2>2, <3>1, <3>2
  <2>6. phase' # 0
    BY <1>3, <2>1
  <2>7. ~changed => logical = Total(sent, read)
    BY <1>1 DEF CountInv
  <2> QED  BY <1>1, <1>2, <2>1, <2>4, <2>5, <2>6, <2>7 DEF CountInv
<1>5. CASE UploadIndex
  <2>1. /\ pc = "upload" /\ in # <<>> /\ Value = Head(in).value /\ Value # INDEX_DONE
        /\ phase' = phase
    BY <1>5 DEF UploadIndex, Reads, Value
  <2>2. op = "upload" /\ phase \in {0, 1} /\ ClientLeft = 4 - phase
    BY <1>1, <2>1 DEF PlaceInv, ClientLeft
  <2>3. CASE Value \notin Files
    <3>1. pc' = "fatal" /\ UNCHANGED <<index, logical, sent, read, changed, skipped, lastIndex>>
      BY <1>5, <2>3 DEF UploadIndex
    <3> QED  BY <1>1, <2>1, <3>1 DEF CountInv
  <2>4. CASE Value \in Files
    <3>1. PICK v \in Files : v = Value
      BY <2>4
    <3>2. /\ pc' = "flags" /\ index' = v /\ logical' = BeforeSending(v)
          /\ sent' = (IF phase = 1 THEN sent \ {v} ELSE sent)
          /\ skipped' = skipped + SizeOf(Between(lastIndex, v)) /\ lastIndex' = v
          /\ changed' = (changed \/ (phase = 1 /\ read[v] # Sizes[v])) /\ read' = read
      BY <1>5, <3>1 DEF UploadIndex
    <3>3. v \in 1 .. N
      BY <1>2
    <3>4. CASE phase = 0
      <4>1. /\ lastIndex < v /\ v < wanted /\ v \in asked
            /\ \A j \in asked : j <= lastIndex \/ v <= j
        BY <1>1, <2>1, <2>2, <3>1, <3>4, ExpectIndex
      <4>2. /\ sent \subseteq 1 .. lastIndex /\ (~changed => logical = Total(sent, read))
            /\ skipped = SizeOf({k \in Files : k <= lastIndex} \ asked)
        BY <1>1, <2>2, <3>4 DEF CountInv
      <4>3. sent' = sent /\ logical' = logical /\ read' = read /\ changed' = changed
        BY <1>3, <3>2, <3>4 DEF BeforeSending
      <4>4. v \notin sent /\ sent \subseteq 1 .. v
        BY <1>3, <3>3, <4>1, <4>2
      <4>5. skipped' = SizeOf({k \in Files : k <= v} \ asked)
        <5> DEFINE a == {k \in Files : k <= lastIndex} \ asked
                   b == Between(lastIndex, v)
        <5>1. a \cap b = {} /\ a \in SUBSET Files /\ b \in SUBSET Files
          BY <1>2, <1>3 DEF Between
        <5>2. ASSUME NEW k \in Files PROVE k \in a \cup b <=> k <= v /\ k \notin asked
          <6>1. k \in 1 .. N /\ (k \in asked => k <= lastIndex \/ v <= k) /\ (k = v => k \in asked)
            BY <1>2, <4>1
          <6>2. k \in b <=> lastIndex < k /\ k < v
            BY DEF Between
          <6>3. k \in a <=> k <= lastIndex /\ k \notin asked
            OBVIOUS
          <6> HIDE DEF a, b
          <6> QED  BY <1>3, <3>3, <4>1, <6>1, <6>2, <6>3
        <5>3. a \cup b = {k \in Files : k <= v} \ asked
          <6> HIDE DEF a, b
          <6> QED  BY <5>1, <5>2
        <5> HIDE DEF a, b
        <5>4. SizeOf(a \cup b) = SizeOf(a) + SizeOf(b)
          BY <5>1, SizeOfTwo
        <5> QED  BY <3>2, <4>2, <5>3, <5>4 DEF a, b
      <4>6. v \in 0 .. N /\ phase' = 0 /\ ~(phase' >= 1)
        BY <2>1, <3>3, <3>4
      <4> QED  BY <1>1, <1>2, <3>2, <4>1, <4>2, <4>3, <4>4, <4>5, <4>6 DEF CountInv
    <3>5. CASE phase = 1
      <4>1. retried = TRUE /\ v \in sent
        BY <1>1, <2>1, <2>2, <3>1, <3>5, ExpectIndex
      <4>2. ASSUME ~changed' PROVE logical' = Total(sent', read')
        <5>1. ~changed /\ read[v] = Sizes[v] /\ read' = read
          BY <3>2, <3>5, <4>2
        <5>2. sent' = sent \ {v} /\ logical' = logical - Sizes[v] /\ logical = Total(sent, read)
          BY <1>1, <3>2, <3>5, <5>1 DEF BeforeSending, CountInv
        <5>3. Total(sent \ {v}, read) = Total(sent, read) - read[v]
          BY <1>3, <4>1, TotalOfMore
        <5> QED  BY <5>1, <5>2, <5>3
      <4>3. phase' = 1 /\ sent' = sent \ {v}
        BY <2>1, <3>2, <3>5
      <4> QED  BY <1>1, <3>2, <4>1, <4>2, <4>3 DEF CountInv
    <3> QED  BY <2>2, <3>4, <3>5
  <2> QED  BY <2>3, <2>4
<1>6. CASE SendFile
  <2>1. /\ pc = "checksums" /\ pc' = "upload" /\ UNCHANGED <<index, phase, lastIndex, skipped>>
        /\ changed' = changed
        /\ \/ \E n \in Lengths[index] :
                /\ logical' = logical + n /\ read' = [read EXCEPT ![index] = n]
                /\ sent' = sent \cup {index}
           \/ UNCHANGED <<logical, sent, read>>
    BY <1>6 DEF SendFile
  <2>2. PICK k \in Files : k = index /\ k \notin sent /\ (phase = 0 => k = lastIndex)
    BY <1>1, <2>1 DEF CountInv
  <2>3. sent' \in {sent, sent \cup {k}}
    BY <2>1, <2>2
  <2>4. ASSUME ~changed' PROVE logical' = Total(sent', read')
    <3>1. logical = Total(sent, read)
      BY <1>1, <2>1, <2>4 DEF CountInv
    <3>2. CASE UNCHANGED <<logical, sent, read>>
      BY <3>1, <3>2
    <3>3. ASSUME NEW n \in Lengths[index],
                 logical' = logical + n, read' = [read EXCEPT ![index] = n], sent' = sent \cup {index}
          PROVE  logical' = Total(sent', read')
      <4>1. n \in Nat
        BY <2>2, SessionAssumption DEF Files
      <4>2. PICK r \in [Files -> Nat] : r = [read EXCEPT ![k] = n]
        BY <1>3, <4>1
      <4>3. Total(sent, r) = Total(sent, read)
        <5>1. sent \in SUBSET Files /\ k \in Files \ sent
          BY <1>3, <2>2
        <5>2. Total(sent, [read EXCEPT ![k] = n]) = Total(sent, read)
          BY <1>3, <4>1, <5>1, TotalOfOthers
        <5> QED  BY <4>2, <5>2
      <4>4. Total(sent \cup {k}, r) = Total(sent, r) + r[k]
        BY <1>3, <2>2, TotalOfMore
      <4>5. r[k] = n
        BY <1>3, <4>2
      <4> QED  BY <2>2, <3>1, <3>3, <4>2, <4>3, <4>4, <4>5
    <3> QED  BY <2>1, <3>2, <3>3
  <2>5. op = "upload" /\ phase = 0 => sent' \subseteq 1 .. lastIndex
    <3>1. ASSUME op = "upload", phase = 0 PROVE sent \subseteq 1 .. lastIndex /\ k \in 1 .. lastIndex
      <4>1. sent \subseteq 1 .. lastIndex
        BY <1>1, <3>1 DEF CountInv
      <4>2. k = lastIndex /\ k \in 1 .. N
        BY <1>2, <2>2, <3>1
      <4> QED  BY <4>1, <4>2
    <3> QED  BY <2>3, <3>1
  <2> QED  BY <1>1, <2>1, <2>4, <2>5 DEF CountInv
<1>7. CASE ~(UploadDone \/ UploadIndex \/ SendFile)
  <2>1. UNCHANGED <<phase, lastIndex, skipped, logical, sent, read, changed>>
    BY <1>7 DEF Client, Connect, ReadVersion, ReadGreeting, ReadLine, ReadCompatibility, ReadSeed,
       SendFilters, SendList, ReceiveEntry, ReceiveEnd, ReceiveIoError, ReadFlags, Round, RoundFlags,
       uploadState
  <2>2. pc' \in {"flags", "checksums"} => pc = "flags" /\ index' = index
    <3>1. CASE ReadLine
      <4>1. Value \in {"text", "authreqd", "ok", "exit", "error"}
        BY <1>1, <3>1, ExpectLine DEF ReadLine, Reads, Value
      <4>2. CASE Value \in {"text", "authreqd", "error"}
        BY <3>1, <4>2 DEF ReadLine
      <4>3. CASE Value \in {"ok", "exit"}
        BY <3>1, <4>3 DEF ReadLine, LoginEnds, AfterVersion
      <4> QED  BY <4>1, <4>2, <4>3
    <3>2. CASE ~ReadLine
      BY <1>7, <3>2 DEF Client, Connect, ReadVersion, ReadGreeting, ReadCompatibility, ReadSeed, AfterVersion,
         SendFilters, SendList, ReceiveEntry, ReceiveEnd, ReceiveIoError, ListReceived, ReadFlags,
         Round, RoundFlags, EndRound, uploadState
    <3> QED  BY <3>1, <3>2
  <2> QED  BY <1>1, <2>1, <2>2 DEF CountInv
<1> QED  BY <1>4, <1>5, <1>6, <1>7

(* The counters in the steps of the remote side, which may ask for another file. *)
LEMMA RemoteCounts ==
  ASSUME Inv, Remote
  PROVE  CountInv'
<1>1. /\ TypeInv /\ PlaceInv /\ CountInv
      /\ UNCHANGED <<op, pc, index, phase, lastIndex, skipped, logical, sent, read, changed>>
  BY RemoteKeeps DEF Inv, client, constant
<1>2. CASE RemoteGenerates
  <2>1. dones = 0 /\ wanted' = wanted + 1 /\ retried' = retried /\ asked' \in {asked, asked \cup {wanted}}
    BY <1>2 DEF RemoteGenerates
  <2>2. phase \in Nat /\ wanted \in Nat /\ lastIndex \in Nat
    BY <1>1 DEF TypeInv
  <2>3. ~(phase >= 1)
    <3>1. phase >= 1 => phase <= dones
      BY <1>1 DEF PlaceInv
    <3> QED  BY <2>1, <2>2, <3>1
  <2>4. ASSUME op = "upload", phase = 0
        PROVE  /\ lastIndex < wanted'
               /\ {k \in Files : k <= lastIndex} \ asked' = {k \in Files : k <= lastIndex} \ asked
    <3>1. lastIndex < wanted /\ ~(wanted <= lastIndex)
      BY <1>1, <2>2, <2>4 DEF CountInv
    <3>2. lastIndex < wanted'
      BY <2>1, <2>2, <3>1
    <3> QED  BY <2>1, <3>1, <3>2
  <2>5. (~changed' => logical' = Total(sent', read')) /\ ~(phase' >= 1)
    BY <1>1, <2>3 DEF CountInv
  <2>6. pc' \in {"flags", "checksums"} => index' \in Files \ sent' /\ (phase' = 0 => index' = lastIndex')
    BY <1>1 DEF CountInv
  <2>7. op' = "upload" /\ phase' = 0 =>
          /\ lastIndex' \in 0 .. Len(Sizes) /\ lastIndex' < wanted'
          /\ sent' \subseteq 1 .. lastIndex'
          /\ skipped' = SizeOf({k \in Files : k <= lastIndex'} \ asked')
    <3>1. ASSUME op = "upload", phase = 0
          PROVE  /\ lastIndex \in 0 .. Len(Sizes) /\ sent \subseteq 1 .. lastIndex
                 /\ skipped = SizeOf({k \in Files : k <= lastIndex} \ asked)
      BY <1>1, <3>1 DEF CountInv
    <3> QED  BY <1>1, <2>4, <3>1
  <2> QED  BY <2>5, <2>6, <2>7 DEF CountInv
<1>3. CASE RemoteAsksAgain
  <2>1. retried' = TRUE /\ UNCHANGED <<wanted, asked>>
    BY <1>3 DEF RemoteAsksAgain
  <2> QED  BY <1>1, <2>1 DEF CountInv
<1>4. CASE ~(RemoteGenerates \/ RemoteAsksAgain)
  <2>1. UNCHANGED <<wanted, asked, retried>>
    BY <1>4 DEF Remote, RemoteGreets, RemoteNegotiates, RemoteModule, RemoteLines, RemoteResponse,
         RemoteArguments, RemoteSetsUp, RemoteFilter, RemoteList, RemoteIoError,
         RemoteDone, RemoteIndex, RemoteFlags, RemoteFile, RemoteSays, generator
  <2> QED  BY <1>1, <2>1 DEF CountInv
<1> QED  BY <1>2, <1>3, <1>4

-----------------------------------------------------------------------------
(* A side that could take a unit still can after the other side has moved on. *)
LEMMA ClientMore ==
  ASSUME TypeInv, UNCHANGED constant,
         dones' >= dones, echoed' >= echoed, wanted' >= wanted,
         dones' \in Nat, echoed' \in Nat, wanted' \in Nat,
         retried = TRUE => retried' = TRUE,
         asked' = asked \/ (dones = 0 /\ asked' = asked \cup {wanted})
  PROVE  ClientSteps \subseteq ClientSteps'
<1>1. /\ UNCHANGED <<op, connection>> /\ Agreed' = Agreed /\ Outcome' = Outcome /\ Downloading' = Downloading
  BY DEF constant, Agreed, Outcome, AfterVersion, Downloading
<1>2. dones \in Nat /\ echoed \in Nat /\ wanted \in Nat /\ asked \subseteq Nat
  BY DEF TypeInv
<1>3. ASSUME NEW s \in ClientState, NEW u \in Units, NEW t \in ClientState, ClientTakes(s, u, t)
      PROVE  ClientTakes(s, u, t)'
  <2>1. s.left \in Int /\ s.last \in Int
    BY DEF ClientState
  <2>2. CASE TakesSetUp(s, u, t)
    BY <1>1, <2>2 DEF TakesSetUp, ClientTakes
  <2>3. CASE TakesList(s, u, t)
    BY <1>1, <2>3 DEF TakesList, ClientTakes
  <2>4. CASE TakesFlags(s, u, t)
    BY <1>1, <2>4 DEF TakesFlags, ClientTakes
  <2>5. CASE TakesDone(s, u, t)
    <3>1. s.place = "index" /\ u = Index(INDEX_DONE)
      BY <2>5 DEF TakesDone
    <3>2. CASE op = "upload"
      <4>1. /\ s.left > 4 - dones /\ (s.left = 4 => \A j \in asked : j <= s.last)
            /\ t = [s EXCEPT !.left = s.left - 1]
        BY <2>5, <3>2 DEF TakesDone
      <4>2. s.left > 4 - dones'
        BY <1>2, <2>1, <4>1
      <4>3. s.left = 4 => asked' = asked
        BY <1>2, <2>1, <4>1
      <4>4. s.left = 4 => \A j \in asked' : j <= s.last
        BY <4>1, <4>3
      <4> QED  BY <1>1, <3>1, <3>2, <4>1, <4>2, <4>4 DEF TakesDone, ClientTakes
    <3>3. CASE op # "upload"
      BY <1>1, <2>5, <3>3 DEF TakesDone, ClientTakes
    <3> QED  BY <3>2, <3>3
  <2>6. CASE TakesIndex(s, u, t)
    <3>1. s.place = "index" /\ u.kind = "index" /\ u.value \in Nat \ {0}
      BY <2>6 DEF TakesIndex
    <3>2. PICK k : k = u.value
      OBVIOUS
    <3>3. CASE op = "upload" /\ TakesFirst(s, k, t)
      <4>1. /\ s.left = 4 /\ s.last < k /\ k < wanted /\ k \in asked
            /\ \A j \in asked : j <= s.last \/ k <= j
            /\ t = [s EXCEPT !.place = "flags", !.last = k]
        BY <3>3 DEF TakesFirst
      <4>2. k < wanted' /\ k \in asked' /\ k <= wanted
        BY <1>2, <3>1, <3>2, <4>1
      <4>3. \A j \in asked' : j <= s.last \/ k <= j
        BY <4>1, <4>2
      <4>4. TakesFirst(s, k, t)'
        BY <4>1, <4>2, <4>3 DEF TakesFirst
      <4> QED  BY <1>1, <3>1, <3>2, <3>3, <4>4 DEF TakesIndex, ClientTakes
    <3>4. CASE op = "upload" /\ TakesAgain(s, k, t)
      <4>1. echoed' >= 1
        BY <1>2, <3>4 DEF TakesAgain
      <4>2. TakesAgain(s, k, t)'
        BY <3>4, <4>1 DEF TakesAgain
      <4> QED  BY <1>1, <3>1, <3>2, <3>4, <4>2 DEF TakesIndex, ClientTakes
    <3>5. CASE op \notin {"upload", "link"} /\ t = MovesTo(s, "flags")
      BY <1>1, <3>1, <3>5 DEF TakesIndex, ClientTakes
    <3> QED  BY <2>6, <3>2, <3>3, <3>4, <3>5 DEF TakesIndex
  <2> QED  BY <1>3, <2>2, <2>3, <2>4, <2>5, <2>6 DEF ClientTakes
<1> QED  BY <1>3 DEF ClientSteps

(* The more INDEX_DONEs have come back and the more files were sent, the more
   the remote side may take. *)
LEMMA RemoteMore ==
  ASSUME TypeInv, UNCHANGED constant,
         echoed' \in Nat, echoed' >= echoed, echoed' = 0 => sent \subseteq sent'
  PROVE  RemoteSteps \subseteq RemoteSteps'
<1>1. /\ UNCHANGED <<op, connection>> /\ Agreed' = Agreed /\ SetUp' = SetUp /\ Downloading' = Downloading
  BY DEF constant, Agreed, SetUp, Downloading, Deleting
<1>2. echoed \in Nat
  BY DEF TypeInv
<1>3. echoed' = 0 => echoed = 0
  BY <1>2
<1>4. ASSUME NEW s \in RemoteState, NEW u \in Units, NEW t \in RemoteState, RemoteTakes(s, u, t)
      PROVE  RemoteTakes(s, u, t)'
  <2>1. CASE s.place = "file"
    <3>1. /\ u.kind = "file" /\ t = MovesTo(s, "index")
          /\ echoed = 0 /\ s.echo = 0 => s.of \in sent
      BY <1>4, <2>1 DEF RemoteTakes
    <3>2. echoed' = 0 /\ s.echo = 0 => s.of \in sent'
      BY <1>3, <3>1
    <3> QED  BY <2>1, <3>1, <3>2 DEF RemoteTakes
  <2>2. CASE s.place # "file"
    BY <1>1, <1>4, <2>2 DEF RemoteTakes
  <2> QED  BY <2>1, <2>2
<1> QED  BY <1>4 DEF RemoteSteps

(* The client's own steps change nothing of what it may take. *)
LEMMA ClientSame ==
  ASSUME Inv, Client
  PROVE  /\ ClientSteps \subseteq ClientSteps' /\ RemoteAt' = RemoteAt
         /\ \A m : ClientWillBe(m)' = ClientWillBe(m)
         /\ Downloading' = Downloading /\ SetUp' = SetUp /\ Agreed' = Agreed /\ Outcome' = Outcome
<1>1. UNCHANGED <<remote, constant>> /\ TypeInv
  BY ClientKeeps DEF Inv
<1>2. /\ UNCHANGED <<op, deletionEnabled, connection, rpc, rprotocol, lines, receiving, wanted, asked, redo,
                     dones, echoed, retried>>
  BY <1>1 DEF remote, constant
<1>3. Downloading' = Downloading /\ SetUp' = SetUp /\ Agreed' = Agreed /\ Outcome' = Outcome
  BY <1>2 DEF Downloading, SetUp, Deleting, Agreed, Outcome, AfterVersion
<1>4. dones \in Nat /\ echoed \in Nat /\ wanted \in Nat
  BY <1>1 DEF TypeInv
<1>5. ClientSteps \subseteq ClientSteps'
  <2>1. /\ UNCHANGED constant /\ asked' = asked /\ (retried = TRUE => retried' = TRUE)
        /\ dones' >= dones /\ echoed' >= echoed /\ wanted' >= wanted
        /\ dones' \in Nat /\ echoed' \in Nat /\ wanted' \in Nat
    BY <1>1, <1>2, <1>4
  <2> QED  BY <1>1, <2>1, ClientMore
<1>6. RemoteAt' = RemoteAt
  BY <1>2 DEF RemoteAt, RemotePlace, SetUp, Downloading, Deleting
<1>7. \A m : ClientWillBe(m)' = ClientWillBe(m)
  BY <1>2, <1>3 DEF ClientWillBe, RemoteWritesAt
<1> QED  BY <1>3, <1>5, <1>6, <1>7

(* Where a unit takes a client, by the place where it finds it. *)
LEMMA TakenAt ==
  ASSUME NEW s, NEW u, NEW t, ClientTakes(s, u, t)
  PROVE  /\ s.place = "greeting" => t = MovesTo(s, IF connection.daemon THEN "lines" ELSE Outcome)
         /\ s.place = "lines" =>
              \/ u.value = "text" /\ t = s
              \/ u.value = "authreqd" /\ t = MovesTo(s, "authorizing")
              \/ u.value = "ok" /\ t = MovesTo(s, "arguments")
              \/ u.value \in {"exit", "error"} /\ t = MovesTo(s, "end")
         /\ s.place = "compatibility" => t = MovesTo(s, "seed")
         /\ s.place = "seed" => t = MovesTo(s, IF Downloading THEN "entries" ELSE "index")
         /\ s.place = "entries" =>
              \/ u.kind = "entry" /\ t = s
              \/ u.kind = "end" /\ t = MovesTo(s, IF Agreed < 30 THEN "io error" ELSE "end")
         /\ s.place = "index" => TakesDone(s, u, t) \/ TakesIndex(s, u, t)
         /\ s.place = "flags" =>
              \/ u.value = "wanted" /\ op = "upload" /\ s.left >= 3 /\ t = MovesTo(s, "checksums")
              \/ u.value = "unwanted" /\ t = MovesTo(s, "index")
         /\ s.place = "checksums" => t = MovesTo(s, "index")
<1>1. TakesSetUp(s, u, t) \/ TakesList(s, u, t) \/ TakesDone(s, u, t) \/ TakesIndex(s, u, t) \/ TakesFlags(s, u, t)
  BY DEF ClientTakes
<1>2. CASE TakesSetUp(s, u, t)
  BY <1>2 DEF TakesSetUp
<1>3. CASE TakesList(s, u, t)
  BY <1>3 DEF TakesList
<1>4. CASE TakesDone(s, u, t)
  BY <1>4 DEF TakesDone
<1>5. CASE TakesIndex(s, u, t)
  BY <1>5 DEF TakesIndex
<1>6. CASE TakesFlags(s, u, t)
  BY <1>6 DEF TakesFlags
<1> QED  BY <1>1, <1>2, <1>3, <1>4, <1>5, <1>6

(* The fields of a client that has moved. *)
LEMMA Moved ==
  ASSUME NEW s \in ClientState, NEW place
  PROVE  /\ MovesTo(s, place).place = place /\ MovesTo(s, place).left = s.left
         /\ MovesTo(s, place).last = s.last /\ MovesTo(s, place).again = s.again
BY DEF MovesTo, ClientState

(* The client is where the unit takes it. *)
TakenTo(t) ==
  /\ t.place = ClientPlace' /\ t.left = ClientLeft' /\ t.again \subseteq sent'
  /\ op = "upload" /\ phase' = 0 => t.last = lastIndex'

(* A client that is where the unit takes it is still led to where it will be. *)
LEMMA InwardFrom ==
  ASSUME Inv, Client, in' = Tail(in), NEW m \in Int, NEW t \in ClientState,
         Run(ClientSteps, Tail(in), t, ClientWillBe(m)),
         op = "upload" /\ dones = 0 => m < wanted /\ \A j \in asked : j <= m,
         Gone' \/ TakenTo(t)
  PROVE  InwardInv'
<1>1. /\ UNCHANGED <<op, dones, wanted, asked>> /\ ClientSteps \subseteq ClientSteps'
      /\ ClientWillBe(m)' = ClientWillBe(m)
  BY ClientKeeps, ClientSame DEF remote, constant
<1>2. t = [place |-> t.place, left |-> t.left, last |-> t.last, again |-> t.again]
      /\ t.last \in Int /\ t.again \in SUBSET Int
  BY DEF ClientState
<1>3. ASSUME ~Gone'
      PROVE  \E l \in Int, g \in SUBSET Int :
               /\ t = ClientAt(l, g)' /\ g \subseteq sent'
               /\ op' = "upload" /\ phase' = 0 => l = lastIndex'
  <2>1. t = ClientAt(t.last, t.again)'
    BY <1>2, <1>3 DEF TakenTo, ClientAt
  <2> QED  BY <1>1, <1>2, <1>3, <2>1 DEF TakenTo
<1>4. Run(ClientSteps', in', t, ClientWillBe(m)')
  <2>1. PICK R : R = ClientSteps
    OBVIOUS
  <2>2. PICK S : S = ClientSteps'
    OBVIOUS
  <2>3. PICK w : w = Tail(in)
    OBVIOUS
  <2>4. PICK e : e = ClientWillBe(m)
    OBVIOUS
  <2>5. Run(S, w, t, e)
    BY <1>1, <2>1, <2>2, <2>3, <2>4, RunMore
  <2> QED  BY <1>1, <2>2, <2>3, <2>4, <2>5
<1>5. op' = "upload" /\ dones' = 0 => m < wanted' /\ \A j \in asked' : j <= m
  BY <1>1
<1>6. ASSUME ~Gone'
      PROVE  \E l, k \in Int, g \in SUBSET Int :
              /\ Run(ClientSteps', in', ClientAt(l, g)', ClientWillBe(k)')
              /\ g \subseteq sent'
              /\ op' = "upload" /\ phase' = 0 => l = lastIndex'
              /\ op' = "upload" /\ dones' = 0 => k < wanted' /\ \A j \in asked' : j <= k
  <2>1. PICK l \in Int, g \in SUBSET Int :
          /\ t = ClientAt(l, g)' /\ g \subseteq sent'
          /\ op' = "upload" /\ phase' = 0 => l = lastIndex'
    BY <1>3, <1>6
  <2> HIDE DEF ClientAt, ClientWillBe
  <2>2. Run(ClientSteps', in', ClientAt(l, g)', ClientWillBe(m)')
    BY <1>4, <2>1
  <2> QED  BY <1>5, <2>1, <2>2
<1> QED  BY <1>6 DEF InwardInv

-----------------------------------------------------------------------------
(* How many INDEX_DONEs are still to come. *)
LEMMA LeftOf ==
  /\ op # "upload" => ClientLeft = 4
  /\ op = "upload" /\ pc = "rounds" => ClientLeft = rounds
  /\ op = "upload" /\ pc \notin {"rounds", "round flags"} => ClientLeft = 4 - phase
BY DEF ClientLeft

(* What the client has not yet read still leads to where the remote side is. *)
LEMMA ClientReadsOn ==
  ASSUME Inv, Client, ProtocolInv', ~Gone', in # <<>>, in' = Tail(in),
         NEW l \in Int, NEW g \in SUBSET Int, NEW t \in ClientState,
         ClientTakes(ClientAt(l, g), Head(in), t),
         g \subseteq sent, op = "upload" /\ phase = 0 => l = lastIndex
  PROVE  TakenTo(t)
<1>1. /\ TypeInv /\ PlaceInv /\ PromptInv /\ ProtocolInv /\ CountInv /\ InwardInv
      /\ UNCHANGED <<op, rpc, connection, dones>> /\ Downloading' = Downloading
      /\ phase \in Nat /\ rounds \in Int
  BY ClientKeeps, ClientSame DEF Inv, remote, constant, TypeInv
<1>2. PICK s : s = ClientAt(l, g)
  OBVIOUS
<1>3. /\ s \in ClientState /\ s.place = ClientPlace /\ s.left = ClientLeft /\ s.last = l /\ s.again = g
  <2>1. s.place = ClientPlace /\ s.left = ClientLeft /\ s.last = l /\ s.again = g
    BY <1>2, PlaceOf
  <2>2. ClientPlace \in ClientPlaces
    BY <1>1 DEF ClientPlace, ClientPlaces, TypeInv, ClientPcs, SettingUp
  <2>3. ClientLeft \in Int
    BY <1>1 DEF ClientLeft
  <2> QED  BY <1>2, <2>2, <2>3 DEF ClientAt, ClientState
<1>4. ClientTakes(s, Head(in), t)
  BY <1>2
<1>5. ASSUME NEW place, t = MovesTo(s, place) \/ (t = s /\ place = s.place), place = ClientPlace',
             ClientLeft' = ClientLeft, sent \subseteq sent', UNCHANGED <<phase, lastIndex>>
      PROVE  TakenTo(t)
  <2>1. t.place = place /\ t.left = s.left /\ t.last = s.last /\ t.again = s.again
    BY <1>3, <1>5, Moved
  <2> QED  BY <1>1, <1>3, <1>5, <2>1 DEF TakenTo
<1>6. ASSUME UNCHANGED phase, pc \notin {"rounds", "round flags"}, pc' \notin {"rounds", "round flags"}
      PROVE  ClientLeft' = ClientLeft
  BY <1>1, <1>6 DEF ClientLeft
<1>7. pc' \notin {"connect", "version", "login", "fatal", "done"} => protocol' = Agreed
  BY ClientSame DEF ProtocolInv
<1> HIDE DEF ClientAt, ClientPlace, ClientLeft
<1>8. CASE ReadVersion
  <2>1. /\ pc = "version" /\ UNCHANGED <<phase, lastIndex, sent>>
        /\ pc' = AfterVersion(protocol') \/ pc' = "fatal"
    BY <1>8 DEF ReadVersion, uploadState
  <2>2. pc' = AfterVersion(protocol') /\ pc' \in {"compatibility", "seed"}
    BY <2>1 DEF Gone, AfterVersion
  <2>3. pc' = Outcome
    BY <1>7, <2>2 DEF Outcome
  <2>4. rpc # "arguments" /\ connection.daemon = FALSE
    BY <1>1, <2>1 DEF PlaceInv
  <2>5. ClientPlace = "greeting" /\ ClientPlace' = Outcome
    BY <1>1, <2>1, <2>2, <2>3, <2>4 DEF ClientPlace
  <2>6. t = MovesTo(s, Outcome)
    BY <1>3, <1>4, <2>4, <2>5, TakenAt
  <2> QED  BY <1>5, <1>6, <2>1, <2>2, <2>5, <2>6
<1>9. CASE ReadGreeting
  <2>1. /\ pc = "login" /\ UNCHANGED <<phase, lastIndex, sent, out>> /\ pc' \in {"lines", "fatal"}
    BY <1>9 DEF ReadGreeting, uploadState, WritesNothing
  <2>2. pc' = "lines"
    BY <2>1 DEF Gone
  <2>3. connection.daemon = TRUE /\ (rpc = "response" => out = <<>>)
    BY <1>1, <2>1 DEF PlaceInv, PromptInv
  <2>4. ClientPlace = "greeting" /\ ClientPlace' = "lines"
    BY <1>1, <2>1, <2>2, <2>3 DEF ClientPlace
  <2>5. t = MovesTo(s, "lines")
    BY <1>3, <1>4, <2>3, <2>4, TakenAt
  <2> QED  BY <1>5, <1>6, <2>1, <2>2, <2>4, <2>5
<1>10. CASE ReadLine
  <2>1. pc = "lines" /\ UNCHANGED <<phase, lastIndex, sent>> /\ Value = Head(in).value
    BY <1>10 DEF ReadLine, uploadState, Value
  <2>2. /\ ~(rpc = "response" /\ out # <<>>)
        /\ Value \in {"text", "authreqd", "ok", "exit", "error"}
        /\ Value = "authreqd" => rpc = "response" /\ out = <<>>
        /\ Value = "ok" => op # "listModules" /\ rpc = "arguments"
        /\ Value = "exit" => op = "listModules"
    BY <1>1, <2>1, ExpectLine
  <2>3. ClientPlace = "lines"
    BY <2>1, <2>2 DEF ClientPlace
  <2>4. CASE Value = "text"
    <3>1. pc' = "lines" /\ out' = out
      BY <1>10, <2>1, <2>4 DEF ReadLine, WritesNothing
    <3>2. ClientPlace' = "lines"
      BY <1>1, <2>2, <3>1 DEF ClientPlace
    <3>3. t = s
      BY <1>3, <1>4, <2>1, <2>3, <2>4, TakenAt
    <3> QED  BY <1>3, <1>5, <1>6, <2>1, <2>3, <3>1, <3>2, <3>3
  <2>5. CASE Value = "authreqd"
    <3>1. pc' = "lines" /\ out' = out \o <<Just("response")>>
      BY <1>10, <2>1, <2>5 DEF ReadLine, WritesDirectly
    <3>2. out' # <<>>
      BY <2>2, <2>5, <3>1
    <3>3. ClientPlace' = "authorizing"
      BY <1>1, <2>2, <2>5, <3>1, <3>2 DEF ClientPlace
    <3>4. t = MovesTo(s, "authorizing")
      BY <1>3, <1>4, <2>1, <2>3, <2>5, TakenAt
    <3> QED  BY <1>5, <1>6, <2>1, <3>1, <3>3, <3>4
  <2>6. CASE Value = "ok"
    <3>1. pc' = AfterVersion(protocol)
      BY <1>10, <2>2, <2>6 DEF ReadLine, LoginEnds
    <3>2. pc' \in {"compatibility", "seed"}
      BY <3>1 DEF AfterVersion
    <3>3. ClientPlace' = "arguments"
      BY <1>1, <2>2, <2>6, <3>2 DEF ClientPlace
    <3>4. t = MovesTo(s, "arguments")
      BY <1>3, <1>4, <2>1, <2>3, <2>6, TakenAt
    <3> QED  BY <1>5, <1>6, <2>1, <3>2, <3>3, <3>4
  <2>7. CASE Value \in {"exit", "error"}
    <3>1. pc' \in {"done", "fatal"}
      <4>1. CASE Value = "exit"
        BY <1>10, <2>2, <4>1 DEF ReadLine, LoginEnds
      <4>2. CASE Value = "error"
        BY <1>10, <4>2 DEF ReadLine
      <4> QED  BY <2>7, <4>1, <4>2
    <3> QED  BY <3>1 DEF Gone
  <2> QED  BY <2>2, <2>4, <2>5, <2>6, <2>7
<1>11. CASE ReadCompatibility \/ ReadSeed
  <2>1. pc \in {"compatibility", "seed"} /\ UNCHANGED <<phase, lastIndex, sent>>
    BY <1>11 DEF ReadCompatibility, ReadSeed, uploadState
  <2>2. rpc # "arguments"
    BY <1>1, <2>1, ExpectSetUp
  <2>3. CASE ReadCompatibility
    <3>1. pc = "compatibility" /\ pc' = "seed"
      BY <2>3 DEF ReadCompatibility, Gone
    <3>2. ClientPlace = "compatibility" /\ ClientPlace' = "seed"
      BY <1>1, <2>2, <3>1 DEF ClientPlace
    <3>3. t = MovesTo(s, "seed")
      BY <1>3, <1>4, <3>2, TakenAt
    <3> QED  BY <1>5, <1>6, <2>1, <3>1, <3>2, <3>3
  <2>4. CASE ReadSeed
    <3>1. /\ pc = "seed" /\ pc' \in {"receive list", "filters", "send list"}
          /\ pc' = "receive list" <=> Downloading
      <4>1. pc = "seed"
        BY <2>4 DEF ReadSeed
      <4>2. CASE Downloading
        <5>1. op # "remove"
          BY <4>2 DEF Downloading
        <5> QED  BY <2>4, <4>1, <4>2, <5>1 DEF ReadSeed
      <4>3. CASE ~Downloading
        BY <2>4, <4>1, <4>3 DEF ReadSeed
      <4> QED  BY <4>2, <4>3
    <3>2. ClientPlace = "seed" /\ ClientPlace' = IF Downloading THEN "entries" ELSE "index"
      <4>1. CASE pc' = "receive list"
        BY <1>1, <2>2, <3>1, <4>1 DEF ClientPlace
      <4>2. CASE pc' \in {"filters", "send list"}
        BY <1>1, <2>2, <3>1, <4>2 DEF ClientPlace
      <4> QED  BY <3>1, <4>1, <4>2
    <3>3. t = MovesTo(s, IF Downloading THEN "entries" ELSE "index")
      BY <1>3, <1>4, <3>2, TakenAt
    <3> QED  BY <1>5, <1>6, <2>1, <3>1, <3>2, <3>3
  <2> QED  BY <1>11, <2>3, <2>4
<1>12. CASE ReceiveEntry \/ ReceiveEnd \/ ReceiveIoError
  <2>1. UNCHANGED <<phase, lastIndex, sent>>
    BY <1>12 DEF ReceiveEntry, ReceiveEnd, ReceiveIoError, uploadState
  <2>2. CASE ReceiveEntry
    <3>1. pc = "receive list" /\ pc' = "receive list" /\ Head(in).kind = "entry"
      BY <2>2 DEF ReceiveEntry, Reads
    <3>2. ClientPlace = "entries" /\ ClientPlace' = "entries"
      BY <3>1 DEF ClientPlace
    <3>3. t = s
      BY <1>3, <1>4, <3>1, <3>2, TakenAt
    <3> QED  BY <1>3, <1>5, <1>6, <2>1, <3>1, <3>2, <3>3
  <2>3. CASE ReceiveEnd
    <3>1. /\ pc = "receive list" /\ Head(in).kind = "end"
          /\ protocol < 30 /\ pc' = "io error"
      BY <2>3 DEF ReceiveEnd, Reads, ListReceived, Gone
    <3>2. ClientPlace = "entries" /\ ClientPlace' = "io error"
      BY <3>1 DEF ClientPlace
    <3>3. protocol = Agreed
      BY <1>1, <3>1 DEF ProtocolInv
    <3>4. t = MovesTo(s, "io error")
      BY <1>3, <1>4, <3>1, <3>2, <3>3, TakenAt
    <3> QED  BY <1>5, <1>6, <2>1, <3>1, <3>2, <3>4
  <2>4. CASE ReceiveIoError
    BY <2>4 DEF ReceiveIoError, ListReceived, Gone
  <2> QED  BY <1>12, <2>2, <2>3, <2>4
<1>13. CASE ReadFlags \/ SendFile
  <2>1. /\ pc \in {"flags", "checksums"} /\ pc' \in {"checksums", "upload"}
        /\ UNCHANGED <<phase, lastIndex>> /\ sent \subseteq sent'
    BY <1>13 DEF ReadFlags, SendFile, uploadState
  <2>2. CASE ReadFlags
    <3>1. /\ pc = "flags" /\ pc' = IF Head(in).value = "wanted" THEN "checksums" ELSE "upload"
      BY <2>2 DEF ReadFlags, Value
    <3>2. ClientPlace = "flags" /\ ClientPlace' = IF Head(in).value = "wanted" THEN "checksums" ELSE "index"
      BY <3>1 DEF ClientPlace
    <3>3. t = MovesTo(s, IF Head(in).value = "wanted" THEN "checksums" ELSE "index")
      <4>1. CASE Head(in).value = "wanted"
        BY <1>3, <1>4, <3>2, <4>1, TakenAt
      <4>2. CASE Head(in).value # "wanted"
        BY <1>3, <1>4, <3>2, <4>2, TakenAt
      <4> QED  BY <4>1, <4>2
    <3> QED  BY <1>5, <1>6, <2>1, <3>2, <3>3
  <2>3. CASE SendFile
    <3>1. pc = "checksums" /\ pc' = "upload"
      BY <2>3 DEF SendFile
    <3>2. ClientPlace = "checksums" /\ ClientPlace' = "index"
      BY <3>1 DEF ClientPlace
    <3>3. t = MovesTo(s, "index")
      BY <1>3, <1>4, <3>2, TakenAt
    <3> QED  BY <1>5, <1>6, <2>1, <3>2, <3>3
  <2> QED  BY <1>13, <2>2, <2>3
<1>14. CASE UploadDone
  <2>1. /\ pc = "upload" /\ Value = INDEX_DONE /\ phase' = phase + 1 /\ UNCHANGED <<rounds, sent>>
        /\ pc' = IF phase' < 2 THEN "upload" ELSE "rounds"
    BY <1>14 DEF UploadDone, MorePhases
  <2>2. op = "upload" /\ phase \in {0, 1} /\ rounds = 2
    BY <1>1, <2>1 DEF PlaceInv
  <2>3. ClientPlace = "index" /\ ClientPlace' = "index"
    <3>1. pc' \in {"upload", "rounds"}
      BY <2>1
    <3> QED  BY <2>1, <3>1 DEF ClientPlace
  <2>4. ClientLeft = 4 - phase /\ ClientLeft' = ClientLeft - 1 /\ phase' # 0
    <3>1. ClientLeft = 4 - phase
      BY <2>1, <2>2, LeftOf
    <3>2. CASE phase = 0
      <4>1. pc' = "upload" /\ phase' = 1
        BY <2>1, <3>2
      <4>2. ClientLeft' = 4 - phase'
        BY <1>1, <2>2, <4>1 DEF ClientLeft
      <4> QED  BY <3>1, <3>2, <4>1, <4>2
    <3>3. CASE phase = 1
      <4>1. pc' = "rounds" /\ phase' = 2
        BY <2>1, <3>3
      <4>2. ClientLeft' = rounds'
        BY <1>1, <2>2, <4>1 DEF ClientLeft
      <4> QED  BY <2>1, <2>2, <3>1, <3>3, <4>1, <4>2
    <3> QED  BY <2>2, <3>2, <3>3
  <2>5. t = [s EXCEPT !.left = s.left - 1]
    <3>1. TakesDone(s, Head(in), t) \/ TakesIndex(s, Head(in), t)
      BY <1>3, <1>4, <2>3, TakenAt
    <3>2. Head(in).value = INDEX_DONE
      BY <2>1 DEF Value
    <3>3. ~TakesIndex(s, Head(in), t)
      BY <3>2 DEF TakesIndex, INDEX_DONE
    <3> QED  BY <2>2, <3>1, <3>3 DEF TakesDone
  <2>6. t.place = s.place /\ t.left = s.left - 1 /\ t.again = s.again
    BY <1>3, <2>5 DEF ClientState
  <2> QED  BY <1>3, <2>1, <2>3, <2>4, <2>6 DEF TakenTo
<1>15. CASE UploadIndex
  <2>1. /\ pc = "upload" /\ Value # INDEX_DONE /\ phase' = phase
        /\ pc' = "flags" /\ lastIndex' = Value
        /\ sent' = IF phase = 1 THEN sent \ {Value} ELSE sent
    BY <1>15 DEF UploadIndex, Gone
  <2>2. op = "upload" /\ phase \in {0, 1}
    BY <1>1, <2>1 DEF PlaceInv
  <2>3. ClientPlace = "index" /\ ClientPlace' = "flags"
    BY <2>1 DEF ClientPlace
  <2>4. ClientLeft = 4 - phase /\ ClientLeft' = ClientLeft
    <3>1. ClientLeft = 4 - phase
      BY <2>1, <2>2, LeftOf
    <3> QED  BY <1>6, <2>1, <3>1
  <2>5. TakesFirst(s, Value, t) \/ TakesAgain(s, Value, t)
    <3>1. TakesDone(s, Head(in), t) \/ TakesIndex(s, Head(in), t)
      BY <1>3, <1>4, <2>3, TakenAt
    <3>2. ~TakesDone(s, Head(in), t)
      <4>1. Head(in) = Index(INDEX_DONE) => Head(in).value = INDEX_DONE
        BY UnitShapes
      <4> QED  BY <2>1, <4>1 DEF TakesDone, Value
    <3> QED  BY <2>2, <3>1, <3>2 DEF TakesIndex, Value
  <2>6. PICK k : k = Value
    OBVIOUS
  <2>7. CASE TakesFirst(s, k, t)
    <3>1. t.place = "flags" /\ t.last = k /\ t.left = s.left /\ t.again = s.again /\ s.left = 4
      BY <1>3, <2>7 DEF TakesFirst, ClientState
    <3>2. phase = 0
      BY <1>3, <2>2, <2>4, <3>1
    <3>3. sent' = sent
      BY <2>1, <3>2
    <3> QED  BY <1>3, <2>1, <2>3, <2>4, <2>6, <3>1, <3>3 DEF TakenTo
  <2>8. CASE TakesAgain(s, k, t)
    <3>1. /\ t.place = "flags" /\ t.left = s.left /\ s.left = 3
          /\ k \notin t.again /\ s.again = t.again \cup {k}
      BY <2>8 DEF TakesAgain
    <3>2. phase = 1
      BY <1>3, <2>2, <2>4, <3>1
    <3>3. sent' = sent \ {k}
      BY <2>1, <2>6, <3>2
    <3>4. t.again \subseteq sent' /\ phase' # 0
      BY <1>3, <2>1, <3>1, <3>2, <3>3
    <3> QED  BY <1>3, <2>3, <2>4, <3>1, <3>4 DEF TakenTo
  <2> QED  BY <2>5, <2>6, <2>7, <2>8
<1>16. CASE Round
  <2>1. /\ pc = "rounds" /\ UNCHANGED <<phase, lastIndex, sent>> /\ Value = Head(in).value
    BY <1>16 DEF Round, Value
  <2>2. ClientPlace = "index"
    BY <2>1 DEF ClientPlace
  <2>3. /\ op = "upload" => phase = 2
        /\ op = "upload" => ClientLeft = rounds /\ rounds \in {1, 2}
    BY <1>1, <2>1, LeftOf DEF PlaceInv
  <2>4. TakesDone(s, Head(in), t) \/ TakesIndex(s, Head(in), t)
    BY <1>3, <1>4, <2>2, TakenAt
  <2>5. CASE Value = INDEX_DONE
    <3>1. rounds' = rounds - 1 /\ pc' = "rounds"
      BY <1>16, <2>5 DEF Round, EndRound, Gone
    <3>2. ClientPlace' = "index"
      BY <3>1 DEF ClientPlace
    <3>3. TakesDone(s, Head(in), t)
      BY <2>1, <2>4, <2>5 DEF TakesIndex, INDEX_DONE
    <3>4. CASE op = "upload"
      <4>1. t = [s EXCEPT !.left = s.left - 1]
        BY <3>3, <3>4 DEF TakesDone
      <4>2. t.place = s.place /\ t.left = s.left - 1 /\ t.again = s.again
        BY <1>3, <4>1 DEF ClientState
      <4>3. ClientLeft' = rounds'
        BY <1>1, <3>1, <3>4 DEF ClientLeft
      <4>4. phase' # 0
        BY <2>1, <2>3, <3>4
      <4> QED  BY <1>3, <2>1, <2>2, <2>3, <3>1, <3>2, <3>4, <4>2, <4>3, <4>4 DEF TakenTo
    <3>5. CASE op # "upload"
      <4>1. t = s
        BY <3>3, <3>5 DEF TakesDone
      <4>2. ClientLeft = 4 /\ ClientLeft' = 4
        BY <1>1, <3>5 DEF ClientLeft
      <4> QED  BY <1>3, <1>5, <2>1, <2>2, <3>2, <4>1, <4>2
    <3> QED  BY <3>4, <3>5
  <2>6. CASE Value # INDEX_DONE
    <3>1. /\ op # "link"
          /\ op = "upload" => ClientLeft \in {3, 4}
      BY <1>1, <2>1, <2>6, ExpectIndex
    <3>2. op # "upload"
      <4>1. ASSUME op = "upload" PROVE FALSE
        <5>1. PICK r : r = rounds /\ r = ClientLeft
          BY <2>3, <4>1
        <5>2. r \in {1, 2} /\ r \in {3, 4}
          BY <2>3, <3>1, <4>1, <5>1
        <5> QED  BY <5>2
      <4> QED  BY <4>1
    <3>3. pc' = "round flags"
      BY <1>16, <2>6, <3>1 DEF Round
    <3>4. ClientPlace' = "flags" /\ ClientLeft' = ClientLeft
      BY <1>1, <3>2, <3>3 DEF ClientPlace, ClientLeft
    <3>5. ~TakesDone(s, Head(in), t)
      <4>1. Head(in) = Index(INDEX_DONE) => Head(in).value = INDEX_DONE
        BY UnitShapes
      <4> QED  BY <2>1, <2>6, <4>1 DEF TakesDone
    <3>6. t = MovesTo(s, "flags")
      BY <2>4, <3>2, <3>5 DEF TakesIndex
    <3> QED  BY <1>5, <2>1, <3>4, <3>6
  <2> QED  BY <2>5, <2>6
<1>17. CASE RoundFlags
  <2>1. pc = "round flags" /\ pc' = "rounds" /\ UNCHANGED <<phase, lastIndex, sent>>
    BY <1>17 DEF RoundFlags, EndRound, Gone
  <2>2. op # "upload"
    BY <1>1, <2>1 DEF PlaceInv
  <2>3. ClientPlace = "flags" /\ ClientPlace' = "index" /\ ClientLeft' = ClientLeft
    BY <1>1, <2>1, <2>2 DEF ClientPlace, ClientLeft
  <2>4. t = MovesTo(s, "index")
    BY <1>3, <1>4, <2>2, <2>3, TakenAt
  <2> QED  BY <1>5, <2>1, <2>3, <2>4
<1>18. CASE Connect \/ SendFilters \/ SendList
  <2>1. in' = in
    BY <1>18 DEF Connect, SendFilters, SendList
  <2>2. in \in Seq(Units)
    BY <1>1 DEF TypeInv
  <2>3. Len(Tail(in)) = Len(in) - 1 /\ Len(in) \in Nat
    BY <2>2, HeadTailProperties, LenProperties
  <2> QED  BY <2>1, <2>3
<1> QED
  BY <1>8, <1>9, <1>10, <1>11, <1>12, <1>13, <1>14, <1>15, <1>16, <1>17, <1>18 DEF Client

(* The way to the client, in the steps of the client. *)
LEMMA ClientInward ==
  ASSUME Inv, Client, ProtocolInv'
  PROVE  InwardInv'
<1>1. /\ TypeInv /\ PlaceInv /\ InwardInv
      /\ UNCHANGED <<op, rpc, dones, wanted, asked>>
      /\ ClientSteps \subseteq ClientSteps' /\ (\A m : ClientWillBe(m)' = ClientWillBe(m))
  BY ClientKeeps, ClientSame DEF Inv, remote, constant
<1>2. CASE Connect \/ SendFilters \/ SendList
  <2>1. in' = in /\ UNCHANGED <<phase, lastIndex, sent>> /\ ~Gone
    BY <1>2 DEF Connect, SendFilters, SendList, uploadState, Gone
  <2>2. \A l, g : ClientAt(l, g)' = ClientAt(l, g)
    <3>1. ClientPlace' = ClientPlace
      <4>1. CASE Connect
        <5>1. pc = "connect" /\ pc' \in {"login", "version"}
          BY <4>1 DEF Connect
        <5> QED  BY <5>1 DEF ClientPlace
      <4>2. CASE SendFilters
        <5>1. pc = "filters" /\ pc' = "send list"
          BY <4>2 DEF SendFilters
        <5> QED  BY <5>1 DEF ClientPlace
      <4>3. CASE SendList
        <5>1. pc = "send list" /\ pc' \in {"upload", "rounds"}
          BY <4>3 DEF SendList
        <5> QED  BY <5>1 DEF ClientPlace
      <4> QED  BY <1>2, <4>1, <4>2, <4>3
    <3>2. ClientLeft' = ClientLeft
      <4>1. CASE op = "upload"
        <5>1. pc \notin {"rounds", "round flags"} /\ pc' \notin {"rounds", "round flags"}
          BY <1>2, <4>1 DEF Connect, SendFilters, SendList
        <5> QED  BY <1>1, <2>1, <4>1, <5>1 DEF ClientLeft
      <4>2. CASE op # "upload"
        BY <1>1, <4>2 DEF ClientLeft
      <4> QED  BY <4>1, <4>2
    <3> HIDE DEF ClientPlace, ClientLeft
    <3> QED  BY <3>1, <3>2 DEF ClientAt
  <2>3. PICK l \in Int : \E m \in Int, g \in SUBSET Int :
          /\ Run(ClientSteps, in, ClientAt(l, g), ClientWillBe(m))
          /\ g \subseteq sent
          /\ op = "upload" /\ phase = 0 => l = lastIndex
          /\ op = "upload" /\ dones = 0 => m < wanted /\ \A j \in asked : j <= m
    BY <1>1, <2>1 DEF InwardInv
  <2>4. PICK m \in Int : \E g \in SUBSET Int :
          /\ Run(ClientSteps, in, ClientAt(l, g), ClientWillBe(m))
          /\ g \subseteq sent
          /\ op = "upload" /\ phase = 0 => l = lastIndex
          /\ op = "upload" /\ dones = 0 => m < wanted /\ \A j \in asked : j <= m
    BY <2>3
  <2>5. PICK g \in SUBSET Int :
          /\ Run(ClientSteps, in, ClientAt(l, g), ClientWillBe(m))
          /\ g \subseteq sent
          /\ op = "upload" /\ phase = 0 => l = lastIndex
          /\ op = "upload" /\ dones = 0 => m < wanted /\ \A j \in asked : j <= m
    BY <2>4
  <2> HIDE DEF ClientAt, ClientWillBe
  <2>6. Run(ClientSteps', in', ClientAt(l, g)', ClientWillBe(m)')
    <3>1. PICK R : R = ClientSteps
      OBVIOUS
    <3>2. PICK S : S = ClientSteps'
      OBVIOUS
    <3>3. PICK w, s, e : w = in /\ s = ClientAt(l, g) /\ e = ClientWillBe(m)
      OBVIOUS
    <3>4. Run(S, w, s, e)
      BY <1>1, <2>5, <3>1, <3>2, <3>3, RunMore
    <3> QED  BY <1>1, <2>1, <2>2, <3>2, <3>3, <3>4
  <2>7. /\ g \subseteq sent' /\ (op' = "upload" /\ phase' = 0 => l = lastIndex')
        /\ op' = "upload" /\ dones' = 0 => m < wanted' /\ \A j \in asked' : j <= m
    BY <1>1, <2>1, <2>5
  <2> QED  BY <2>6, <2>7 DEF InwardInv
<1>3. CASE ~(Connect \/ SendFilters \/ SendList) /\ ~Gone'
  <2>1. in # <<>> /\ in' = Tail(in) /\ ~Gone
    BY <1>3 DEF Client, ReadVersion, ReadGreeting, ReadLine, ReadCompatibility, ReadSeed, ReceiveEntry,
       ReceiveEnd, ReceiveIoError, UploadDone, UploadIndex, ReadFlags, SendFile, Round, RoundFlags,
       Reads, Gone
  <2>2. PICK l \in Int, m \in Int, g \in SUBSET Int, q \in ClientState :
          /\ ClientTakes(ClientAt(l, g), Head(in), q)
          /\ Run(ClientSteps, Tail(in), q, ClientWillBe(m))
          /\ g \subseteq sent
          /\ op = "upload" /\ phase = 0 => l = lastIndex
          /\ op = "upload" /\ dones = 0 => m < wanted /\ \A j \in asked : j <= m
    BY <1>1, <2>1, InwardHead
  <2>3. TakenTo(q)
    BY <1>3, <2>1, <2>2, ClientReadsOn
  <2> QED  BY <2>1, <2>2, <2>3, InwardFrom
<1>4. CASE Gone'
  BY <1>4 DEF InwardInv
<1> QED  BY <1>2, <1>3, <1>4

-----------------------------------------------------------------------------
(* A few units are as many steps. *)
LEMMA RunTwo ==
  ASSUME NEW B, NEW a \in B, NEW b \in B, NEW R, NEW s, NEW t, NEW u,
         <<s, a, t>> \in R, <<t, b, u>> \in R
  PROVE  Run(R, <<a, b>>, s, u)
<1>1. Run(R, <<a>>, s, t) /\ Run(R, <<b>>, t, u) /\ <<a>> \in Seq(B) /\ <<b>> \in Seq(B)
  BY RunOne
<1>2. <<a>> \o <<b>> = <<a, b>>
  <2>1. PICK v \in Seq(B) : v = <<a>> \o <<b>>
    BY <1>1, ConcatProperties
  <2>2. Len(<<a>>) = 1 /\ Len(<<b>>) = 1 /\ <<a>>[1] = a /\ <<b>>[1] = b
    OBVIOUS
  <2>3. Len(v) = 2 /\ v[1] = a /\ v[2] = b
    BY <1>1, <2>1, <2>2, ConcatProperties
  <2>4. v = <<a, b>>
    BY <2>3
  <2> QED  BY <2>1, <2>4
<1>3. Run(R, <<a>> \o <<b>>, s, u)
  BY <1>1, RunConcat
<1> QED  BY <1>2, <1>3

(* Three units are three steps. *)
LEMMA RunThree ==
  ASSUME NEW B, NEW a \in B, NEW b \in B, NEW c \in B, NEW R, NEW s, NEW t, NEW u, NEW v,
         <<s, a, t>> \in R, <<t, b, u>> \in R, <<u, c, v>> \in R
  PROVE  Run(R, <<a, b, c>>, s, v)
<1>1. Run(R, <<a, b>>, s, u) /\ Run(R, <<c>>, u, v)
  BY RunOne, RunTwo
<1>2. <<a, b>> \in Seq(B) /\ <<c>> \in Seq(B) /\ <<a, b>> \o <<c>> = <<a, b, c>>
  <2>1. <<a, b>> \in Seq(B) /\ <<c>> \in Seq(B)
    OBVIOUS
  <2>2. PICK w \in Seq(B) : w = <<a, b>> \o <<c>>
    BY <2>1, ConcatProperties
  <2>3. Len(<<a, b>>) = 2 /\ Len(<<c>>) = 1 /\ <<a, b>>[1] = a /\ <<a, b>>[2] = b /\ <<c>>[1] = c
    OBVIOUS
  <2>4. Len(w) = 3 /\ w[1] = a /\ w[2] = b /\ w[3] = c
    BY <2>1, <2>2, <2>3, ConcatProperties
  <2>5. w = <<a, b, c>>
    BY <2>4
  <2> QED  BY <2>1, <2>2, <2>5
<1>3. Run(R, <<a, b>> \o <<c>>, s, v)
  BY <1>1, <1>2, RunConcat
<1> QED  BY <1>2, <1>3

(* A unit that is written reaches the remote side behind all the others. *)
LEMMA Written ==
  ASSUME out \in Seq(Units), buffer \in Seq(Units), NEW units \in Seq(Units),
         \/ WritesDirectly(units) /\ buffer = <<>>
         \/ Buffers(units)
         \/ Flushes(units)
         \/ WritesNothing /\ units = <<>>
  PROVE  out' \o buffer' = (out \o buffer) \o units
<1>1. out \o buffer \in Seq(Units) /\ (out \o buffer) \o units \in Seq(Units)
  BY ConcatProperties
<1>2. CASE WritesDirectly(units) /\ buffer = <<>>
  <2>1. out \o buffer = out /\ (out \o units) \o <<>> = out \o units
    BY <1>2
  <2> QED  BY <1>2, <2>1 DEF WritesDirectly
<1>3. CASE Buffers(units)
  BY <1>3, ConcatAssociative DEF Buffers
<1>4. CASE Flushes(units)
  <2>1. out' = (out \o buffer) \o units /\ buffer' = <<>>
    BY <1>4 DEF Flushes
  <2> QED  BY <1>1, <2>1, ConcatEmptySeq
<1>5. CASE WritesNothing /\ units = <<>>
  BY <1>1, <1>5, ConcatEmptySeq DEF WritesNothing
<1> QED  BY <1>2, <1>3, <1>4, <1>5

(* What the remote side can take, and where that takes it. *)
LEMMA RemoteCan ==
  ASSUME TypeInv, NEW s \in RemoteState
  PROVE  /\ s.place = "version" =>
              <<s, Unit("version", connection.preferred),
                MovesTo(s, IF connection.daemon THEN "module" ELSE SetUp)>> \in RemoteSteps
         /\ s.place = "module" => <<s, Just("module"), MovesTo(s, "lines")>> \in RemoteSteps
         /\ s.place = "response" => <<s, Just("response"), MovesTo(s, "lines")>> \in RemoteSteps
         /\ s.place = "arguments" => <<s, Just("arguments"), MovesTo(s, SetUp)>> \in RemoteSteps
         /\ s.place = "filters" =>
              /\ <<s, Just("filter"), s>> \in RemoteSteps
              /\ <<s, Just("no filter"), MovesTo(s, IF Downloading THEN "index" ELSE "list")>> \in RemoteSteps
         /\ s.place = "list" =>
              /\ <<s, Just("entry"), s>> \in RemoteSteps
              /\ <<s, Just("end"), MovesTo(s, IF Agreed < 30 THEN "io error" ELSE "index")>> \in RemoteSteps
         /\ s.place = "io error" => <<s, Just("io error"), MovesTo(s, "index")>> \in RemoteSteps
         /\ s.place = "index" =>
              /\ <<s, Index(INDEX_DONE), [s EXCEPT !.of = INDEX_DONE, !.echo = s.echo + 1]>> \in RemoteSteps
              /\ \A k \in Nat \ {0} :
                   ~Downloading => <<s, Index(k), [s EXCEPT !.place = "flags", !.of = k]>> \in RemoteSteps
         /\ s.place = "flags" =>
              /\ op = "upload" => <<s, Unit("flags", "wanted"), MovesTo(s, "file")>> \in RemoteSteps
              /\ <<s, Unit("flags", "unwanted"), MovesTo(s, "index")>> \in RemoteSteps
<1>1. connection.preferred \in Int
  BY Agreement DEF TypeInv
<1>2. ASSUME NEW place \in RemotePlaces PROVE MovesTo(s, place) \in RemoteState
  BY DEF MovesTo, RemoteState
<1>3. SetUp \in RemotePlaces /\ \A place \in {"module", "lines", "index", "list", "io error", "file"} : place \in RemotePlaces
  BY DEF SetUp, RemotePlaces
<1>4. ASSUME NEW u \in Units, NEW t \in RemoteState, RemoteTakes(s, u, t)
      PROVE  <<s, u, t>> \in RemoteSteps
  BY <1>4 DEF RemoteSteps
<1> DEFINE N(kind) == Just(kind) \in Units /\ Just(kind).kind = kind
<1>5. /\ N("module") /\ N("response") /\ N("arguments") /\ N("filter") /\ N("no filter")
      /\ N("entry") /\ N("end") /\ N("io error")
  <2>1. \A kind \in {"module", "response", "arguments", "filter", "no filter", "entry", "end", "io error"} :
          kind \in Kinds \ {"version", "index"}
    BY DEF Kinds
  <2>2. \A kind \in Kinds \ {"version", "index"} : N(kind)
    BY UnitShapes
  <2> HIDE DEF N
  <2>3. \A kind \in {"module", "response", "arguments", "filter", "no filter", "entry", "end", "io error"} : N(kind)
    BY <2>1, <2>2, Zenon
  <2> QED  BY <2>3
<1> HIDE DEF N
<1>6. CASE s.place = "version"
  <2>1. Unit("version", connection.preferred) \in Units
    BY <1>1, UnitShapes
  <2>2. MovesTo(s, IF connection.daemon THEN "module" ELSE SetUp) \in RemoteState
    BY <1>2, <1>3
  <2>3. RemoteTakes(s, Unit("version", connection.preferred), MovesTo(s, IF connection.daemon THEN "module" ELSE SetUp))
    BY <1>6 DEF RemoteTakes
  <2> QED  BY <1>4, <1>6, <2>1, <2>2, <2>3
<1>7. CASE s.place \in {"module", "response", "arguments", "io error"}
  <2>1. ASSUME s.place = "module" PROVE <<s, Just("module"), MovesTo(s, "lines")>> \in RemoteSteps
    <3>1. RemoteTakes(s, Just("module"), MovesTo(s, "lines"))
      BY <1>5, <2>1 DEF RemoteTakes, N
    <3> QED  BY <1>2, <1>3, <1>4, <1>5, <3>1 DEF N
  <2>2. ASSUME s.place = "response" PROVE <<s, Just("response"), MovesTo(s, "lines")>> \in RemoteSteps
    <3>1. RemoteTakes(s, Just("response"), MovesTo(s, "lines"))
      BY <1>5, <2>2 DEF RemoteTakes, N
    <3> QED  BY <1>2, <1>3, <1>4, <1>5, <3>1 DEF N
  <2>3. ASSUME s.place = "arguments" PROVE <<s, Just("arguments"), MovesTo(s, SetUp)>> \in RemoteSteps
    <3>1. RemoteTakes(s, Just("arguments"), MovesTo(s, SetUp))
      BY <1>5, <2>3 DEF RemoteTakes, N
    <3> QED  BY <1>2, <1>3, <1>4, <1>5, <3>1 DEF N
  <2>4. ASSUME s.place = "io error" PROVE <<s, Just("io error"), MovesTo(s, "index")>> \in RemoteSteps
    <3>1. RemoteTakes(s, Just("io error"), MovesTo(s, "index"))
      BY <1>5, <2>4 DEF RemoteTakes, N
    <3> QED  BY <1>2, <1>3, <1>4, <1>5, <3>1 DEF N
  <2> QED  BY <1>7, <2>1, <2>2, <2>3, <2>4
<1>8. CASE s.place = "filters"
  <2>1. <<s, Just("filter"), s>> \in RemoteSteps
    <3>1. RemoteTakes(s, Just("filter"), s)
      BY <1>5, <1>8 DEF RemoteTakes, N
    <3> QED  BY <1>4, <1>5, <3>1 DEF N
  <2>2. <<s, Just("no filter"), MovesTo(s, IF Downloading THEN "index" ELSE "list")>> \in RemoteSteps
    <3>1. RemoteTakes(s, Just("no filter"), MovesTo(s, IF Downloading THEN "index" ELSE "list"))
      BY <1>5, <1>8 DEF RemoteTakes, N
    <3>2. MovesTo(s, IF Downloading THEN "index" ELSE "list") \in RemoteState
      BY <1>2, <1>3
    <3> QED  BY <1>4, <1>5, <3>1, <3>2 DEF N
  <2> QED  BY <1>8, <2>1, <2>2
<1>9. CASE s.place = "list"
  <2>1. <<s, Just("entry"), s>> \in RemoteSteps
    <3>1. RemoteTakes(s, Just("entry"), s)
      BY <1>5, <1>9 DEF RemoteTakes, N
    <3> QED  BY <1>4, <1>5, <3>1 DEF N
  <2>2. <<s, Just("end"), MovesTo(s, IF Agreed < 30 THEN "io error" ELSE "index")>> \in RemoteSteps
    <3>1. RemoteTakes(s, Just("end"), MovesTo(s, IF Agreed < 30 THEN "io error" ELSE "index"))
      BY <1>5, <1>9 DEF RemoteTakes, N
    <3>2. MovesTo(s, IF Agreed < 30 THEN "io error" ELSE "index") \in RemoteState
      BY <1>2, <1>3
    <3> QED  BY <1>4, <1>5, <3>1, <3>2 DEF N
  <2> QED  BY <1>9, <2>1, <2>2
<1>10. CASE s.place = "index"
  <2>1. <<s, Index(INDEX_DONE), [s EXCEPT !.of = INDEX_DONE, !.echo = s.echo + 1]>> \in RemoteSteps
    <3>1. RemoteTakes(s, Index(INDEX_DONE), [s EXCEPT !.of = INDEX_DONE, !.echo = s.echo + 1])
      BY <1>10 DEF RemoteTakes
    <3>2. [s EXCEPT !.of = INDEX_DONE, !.echo = s.echo + 1] \in RemoteState
      <4>1. INDEX_DONE \in Int /\ s.echo + 1 \in Nat
        BY DEF RemoteState, INDEX_DONE
      <4> QED  BY <4>1 DEF RemoteState
    <3> QED  BY <1>4, <3>1, <3>2, UnitShapes
  <2>2. ASSUME NEW k \in Nat \ {0}, ~Downloading
        PROVE  <<s, Index(k), [s EXCEPT !.place = "flags", !.of = k]>> \in RemoteSteps
    <3>1. Index(k) \in Units /\ Index(k).kind = "index" /\ Index(k).value = k
      BY UnitShapes
    <3>2. RemoteTakes(s, Index(k), [s EXCEPT !.place = "flags", !.of = k])
      BY <1>10, <2>2, <3>1 DEF RemoteTakes
    <3>3. [s EXCEPT !.place = "flags", !.of = k] \in RemoteState
      <4>1. "flags" \in RemotePlaces /\ k \in Int
        BY DEF RemotePlaces
      <4> QED  BY <4>1 DEF RemoteState
    <3> QED  BY <1>4, <3>1, <3>2, <3>3
  <2> QED  BY <1>10, <2>1, <2>2
<1>11. CASE s.place = "flags"
  <2>1. ASSUME NEW text \in {"wanted", "unwanted"}
        PROVE  /\ Unit("flags", text) \in Units /\ Unit("flags", text).kind = "flags"
               /\ Unit("flags", text).value = text
    BY UnitShapes DEF Texts
  <2>2. op = "upload" => <<s, Unit("flags", "wanted"), MovesTo(s, "file")>> \in RemoteSteps
    <3>1. op = "upload" => RemoteTakes(s, Unit("flags", "wanted"), MovesTo(s, "file"))
      BY <1>11, <2>1 DEF RemoteTakes
    <3> QED  BY <1>2, <1>3, <1>4, <2>1, <3>1
  <2>3. <<s, Unit("flags", "unwanted"), MovesTo(s, "index")>> \in RemoteSteps
    <3>1. RemoteTakes(s, Unit("flags", "unwanted"), MovesTo(s, "index"))
      BY <1>11, <2>1 DEF RemoteTakes
    <3> QED  BY <1>2, <1>3, <1>4, <2>1, <3>1
  <2> QED  BY <1>11, <2>2, <2>3
<1>12. CASE s.place \in {"lines", "file", "gone"}
  BY <1>12
<1>13. s.place \in RemotePlaces
  BY DEF RemoteState
<1> QED  BY <1>6, <1>7, <1>8, <1>9, <1>10, <1>11, <1>12, <1>13 DEF RemotePlaces

(* A file is taken back from those that were sent only after the remote side
   has stopped to look at that. *)
LEMMA SentGrows ==
  ASSUME Inv, Client
  PROVE  RemoteSteps \subseteq RemoteSteps'
<1>1. /\ TypeInv /\ PlaceInv /\ InwardInv /\ UNCHANGED <<remote, constant>> /\ echoed' = echoed
  BY ClientKeeps DEF Inv, remote
<1>2. echoed = 0 => sent \subseteq sent'
  <2>1. CASE UploadIndex
    <3>1. /\ pc = "upload" /\ in # <<>> /\ Head(in).value # INDEX_DONE
          /\ sent' = IF phase = 1 /\ Value \in Files THEN sent \ {Value} ELSE sent
      BY <2>1 DEF UploadIndex, Reads, Value
    <3>2. op = "upload" /\ phase \in {0, 1} /\ ClientLeft = 4 - phase
      BY <1>1, <3>1 DEF PlaceInv, ClientLeft
    <3>3. phase = 1 => echoed >= 1
      BY <1>1, <3>1, <3>2, ExpectIndex
    <3>4. echoed = 0 => phase # 1
      BY <3>3
    <3> QED  BY <3>1, <3>4
  <2>2. CASE ~UploadIndex
    BY <2>2 DEF Client, Connect, ReadVersion, ReadGreeting, ReadLine, ReadCompatibility, ReadSeed,
       SendFilters, SendList, ReceiveEntry, ReceiveEnd, ReceiveIoError, UploadDone, ReadFlags, SendFile,
       Round, RoundFlags, uploadState
  <2> QED  BY <2>1, <2>2
<1>3. echoed' \in Nat /\ echoed' >= echoed
  BY <1>1 DEF TypeInv
<1>4. UNCHANGED constant /\ (echoed' = 0 => sent \subseteq sent')
  BY <1>1, <1>2
<1> QED  BY <1>1, <1>3, <1>4, RemoteMore

(* What the client writes leads the remote side from where the client wrote to
   where it writes next. *)
LEMMA OutwardFrom ==
  ASSUME Inv, Client, NEW units \in Seq(Units), out' \o buffer' = (out \o buffer) \o units,
         rpc # "gone" =>
           \A t \in RemoteState : t.place = ClientWritesAt =>
             \E e \in RemoteState : /\ Run(RemoteSteps', units, t, e)
                                    /\ Gone' \/ e.place = ClientWritesAt'
  PROVE  OutwardInv'
<1>1. /\ TypeInv /\ OutwardInv /\ RemoteAt' = RemoteAt /\ rpc' = rpc
      /\ out \in Seq(Units) /\ buffer \in Seq(Units)
  BY ClientKeeps, ClientSame DEF Inv, remote, TypeInv
<1>2. ~Gone
  BY DEF Client, Connect, ReadVersion, ReadGreeting, ReadLine, ReadCompatibility, ReadSeed,
       SendFilters, SendList, ReceiveEntry, ReceiveEnd, ReceiveIoError, UploadDone, UploadIndex,
       ReadFlags, SendFile, Round, RoundFlags, Gone
<1>3. ASSUME rpc # "gone"
      PROVE  \E e \in RemoteState : /\ Run(RemoteSteps', out' \o buffer', RemoteAt', e)
                                    /\ ~Gone' => e.place = ClientWritesAt'
  <2>1. PICK t \in RemoteState : Run(RemoteSteps, out \o buffer, RemoteAt, t) /\ t.place = ClientWritesAt
    BY <1>1, <1>2, <1>3, OutwardRun
  <2>2. PICK e \in RemoteState : /\ Run(RemoteSteps', units, t, e)
                                 /\ Gone' \/ e.place = ClientWritesAt'
    BY <1>3, <2>1
  <2>3. PICK R : R = RemoteSteps
    OBVIOUS
  <2>4. PICK S : S = RemoteSteps'
    OBVIOUS
  <2>5. PICK w \in Seq(Units) : w = out \o buffer
    BY <1>1, ConcatProperties
  <2>6. PICK s : s = RemoteAt
    OBVIOUS
  <2>7. Run(S, w, s, t)
    <3>1. R \subseteq S
      BY <2>3, <2>4, SentGrows
    <3>2. Run(R, w, s, t)
      BY <2>1, <2>3, <2>5, <2>6
    <3> QED  BY <3>1, <3>2, RunMore
  <2>8. Run(S, w \o units, s, e)
    BY <2>2, <2>4, <2>7, RunConcat
  <2>9. Run(RemoteSteps', out' \o buffer', RemoteAt', e)
    BY <1>1, <2>4, <2>5, <2>6, <2>8
  <2> QED  BY <2>2, <2>9
<1> QED  BY <1>1, <1>3 DEF OutwardInv

(* Nothing is written, and the client still writes where it did. *)
LEMMA OutwardSame ==
  ASSUME Inv, Client, WritesNothing, Gone' \/ ClientWritesAt' = ClientWritesAt
  PROVE  OutwardInv'
<1>1. PICK units \in Seq(Units) : units = <<>>
  BY EmptySeq
<1>2. out \in Seq(Units) /\ buffer \in Seq(Units)
  BY DEF Inv, TypeInv
<1>3. out' \o buffer' = (out \o buffer) \o units
  BY <1>1, <1>2, Written
<1>4. ASSUME NEW t \in RemoteState, t.place = ClientWritesAt
      PROVE  Run(RemoteSteps', units, t, t) /\ (Gone' \/ t.place = ClientWritesAt')
  <2>1. Gone' \/ t.place = ClientWritesAt'
    BY <1>4
  <2>2. Run(RemoteSteps', <<>>, t, t)
    BY RunNothing
  <2> QED  BY <1>1, <2>1, <2>2
<1> QED  BY <1>3, <1>4, OutwardFrom

(* One unit more. *)
LEMMA OutwardOne ==
  ASSUME Inv, Client, NEW u \in Units,
         (WritesDirectly(<<u>>) /\ buffer = <<>>) \/ Buffers(<<u>>) \/ Flushes(<<u>>),
         rpc # "gone" =>
           \A t \in RemoteState : t.place = ClientWritesAt =>
             \E e \in RemoteState : /\ <<t, u, e>> \in RemoteSteps'
                                    /\ Gone' \/ e.place = ClientWritesAt'
  PROVE  OutwardInv'
<1>1. PICK units \in Seq(Units) : units = <<u>>
  BY Few
<1>2. out \in Seq(Units) /\ buffer \in Seq(Units)
  BY DEF Inv, TypeInv
<1>3. out' \o buffer' = (out \o buffer) \o units
  BY <1>1, <1>2, Written
<1>4. ASSUME rpc # "gone", NEW t \in RemoteState, t.place = ClientWritesAt
      PROVE  \E e \in RemoteState : /\ Run(RemoteSteps', units, t, e)
                                    /\ Gone' \/ e.place = ClientWritesAt'
  <2>1. PICK e \in RemoteState : <<t, u, e>> \in RemoteSteps' /\ (Gone' \/ e.place = ClientWritesAt')
    BY <1>4
  <2>2. Run(RemoteSteps', <<u>>, t, e)
    BY <2>1, RunOne
  <2> QED  BY <1>1, <2>1, <2>2
<1> QED  BY <1>3, <1>4, OutwardFrom

(* A step of the remote side stays one, and leads to a state of it. *)
LEMMA StillCan ==
  ASSUME Inv, Client, NEW s, NEW u, NEW t, <<s, u, t>> \in RemoteSteps
  PROVE  <<s, u, t>> \in RemoteSteps' /\ t \in RemoteState
BY SentGrows DEF RemoteSteps

(* The fields of a remote side that has moved. *)
LEMMA RemoteMoved ==
  ASSUME NEW s \in RemoteState, NEW place
  PROVE  /\ MovesTo(s, place).place = place /\ MovesTo(s, place).of = s.of
         /\ MovesTo(s, place).echo = s.echo
         /\ [s EXCEPT !.of = INDEX_DONE, !.echo = s.echo + 1].place = s.place
         /\ \A k : [s EXCEPT !.place = "flags", !.of = k].place = "flags"
BY DEF MovesTo, RemoteState

-----------------------------------------------------------------------------
(* While the session is set up. *)
LEMMA SetUpOutward ==
  ASSUME Inv, Client, ProtocolInv',
         Connect \/ ReadVersion \/ ReadGreeting \/ ReadLine \/ ReadCompatibility \/ ReadSeed
  PROVE  OutwardInv'
<1>1. /\ TypeInv /\ PlaceInv /\ PromptInv /\ ProtocolInv /\ InwardInv
      /\ UNCHANGED <<op, rpc, connection>> /\ Downloading' = Downloading /\ SetUp' = SetUp
  BY ClientKeeps, ClientSame DEF Inv, remote, constant
<1>2. CASE Connect
  <2>1. pc = "connect" /\ protocol = connection.preferred /\ rpc \in {"start", "version"} /\ buffer = <<>>
    BY <1>1, <1>2 DEF Connect, ProtocolInv, PromptInv, SettingUp
  <2>2. connection.daemon \in BOOLEAN /\ connection.preferred \in Int
    BY <1>1, Agreement DEF TypeInv
  <2>3. ClientWritesAt = "version"
    BY <2>1 DEF ClientWritesAt
  <2>4. PICK u \in Units, v \in Units : u = Unit("version", connection.preferred) /\ v = Just("module")
    BY <2>2, UnitShapes DEF Kinds
  <2>5. CASE connection.daemon = FALSE
    <3>1. WritesDirectly(<<u>>) /\ pc' = "version"
      BY <1>2, <2>1, <2>4, <2>5 DEF Connect
    <3>2. ClientWritesAt' = SetUp
      BY <1>1, <3>1 DEF ClientWritesAt
    <3>3. ASSUME NEW t \in RemoteState, t.place = "version"
          PROVE  \E e \in RemoteState : <<t, u, e>> \in RemoteSteps' /\ e.place = ClientWritesAt'
      <4>1. <<t, u, MovesTo(t, SetUp)>> \in RemoteSteps
        BY <1>1, <2>4, <2>5, <3>3, RemoteCan
      <4>2. <<t, u, MovesTo(t, SetUp)>> \in RemoteSteps' /\ MovesTo(t, SetUp) \in RemoteState
        BY <4>1, StillCan
      <4> QED  BY <3>2, <4>2, RemoteMoved
    <3> QED  BY <2>1, <2>3, <3>1, <3>3, OutwardOne
  <2>6. CASE connection.daemon = TRUE
    <3>1. WritesDirectly(<<u, v>>) /\ pc' = "login"
      BY <1>2, <2>1, <2>4, <2>6 DEF Connect
    <3>2. ClientWritesAt' = "lines"
      BY <1>1, <2>1, <3>1 DEF ClientWritesAt
    <3>3. PICK units \in Seq(Units) : units = <<u, v>>
      BY Few
    <3>4. out' \o buffer' = (out \o buffer) \o units
      <4>1. out \in Seq(Units) /\ buffer \in Seq(Units)
        BY <1>1 DEF TypeInv
      <4> QED  BY <2>1, <3>1, <3>3, <4>1, Written
    <3>5. ASSUME NEW t \in RemoteState, t.place = "version"
          PROVE  \E e \in RemoteState : Run(RemoteSteps', units, t, e) /\ e.place = ClientWritesAt'
      <4>1. PICK d \in RemoteState : d = MovesTo(t, "module") /\ <<t, u, d>> \in RemoteSteps'
        <5>1. <<t, u, MovesTo(t, "module")>> \in RemoteSteps
          BY <1>1, <2>4, <2>6, <3>5, RemoteCan
        <5> QED  BY <5>1, StillCan
      <4>2. d.place = "module"
        BY <4>1, RemoteMoved
      <4>3. PICK e \in RemoteState : e = MovesTo(d, "lines") /\ <<d, v, e>> \in RemoteSteps'
        <5>1. <<d, v, MovesTo(d, "lines")>> \in RemoteSteps
          BY <1>1, <2>4, <4>2, RemoteCan
        <5> QED  BY <5>1, StillCan
      <4>4. e.place = "lines"
        BY <4>3, RemoteMoved
      <4>5. Run(RemoteSteps', <<u, v>>, t, e)
        BY <4>1, <4>3, RunTwo
      <4> QED  BY <3>2, <3>3, <4>4, <4>5
    <3> QED  BY <2>3, <3>4, <3>5, OutwardFrom
  <2> QED  BY <2>2, <2>5, <2>6
<1>3. CASE ReadVersion \/ ReadGreeting \/ ReadCompatibility
  <2>1. WritesNothing /\ out' = out
    BY <1>3 DEF ReadVersion, ReadGreeting, ReadCompatibility, WritesNothing
  <2>2. \/ pc \in {"version", "compatibility"} /\ pc' \in {"compatibility", "seed", "fatal"}
        \/ pc = "login" /\ pc' \in {"lines", "fatal"}
    BY <1>3 DEF ReadVersion, ReadGreeting, ReadCompatibility, AfterVersion
  <2>3. Gone' \/ ClientWritesAt' = ClientWritesAt
    <3>1. CASE pc' = "fatal"
      BY <3>1 DEF Gone
    <3>2. CASE pc \in {"version", "compatibility"} /\ pc' \in {"compatibility", "seed"}
      <4>1. ClientWritesAt = SetUp
        BY <3>2 DEF ClientWritesAt
      <4>2. ClientWritesAt' = SetUp
        BY <1>1, <3>2 DEF ClientWritesAt
      <4> QED  BY <4>1, <4>2
    <3>3. CASE pc = "login" /\ pc' = "lines"
      BY <1>1, <2>1, <3>3 DEF ClientWritesAt
    <3> QED  BY <2>2, <3>1, <3>2, <3>3
  <2> QED  BY <2>1, <2>3, OutwardSame
<1>4. CASE ReadLine
  <2>1. pc = "lines" /\ in # <<>> /\ Value = Head(in).value
    BY <1>4 DEF ReadLine, Reads, Value
  <2>2. /\ Value \in {"text", "authreqd", "ok", "exit", "error"}
        /\ Value = "authreqd" => rpc = "response" /\ out = <<>>
        /\ Value = "ok" => op # "listModules" /\ rpc = "arguments"
        /\ Value = "exit" => op = "listModules"
    BY <1>1, <2>1, ExpectLine
  <2>3. buffer = <<>> /\ (rpc = "arguments" => out = <<>>)
    BY <1>1, <2>1 DEF PromptInv, SettingUp
  <2>4. CASE Value = "text"
    <3>1. pc' = "lines" /\ WritesNothing /\ out' = out
      BY <1>4, <2>1, <2>4 DEF ReadLine, WritesNothing
    <3>2. ClientWritesAt' = ClientWritesAt
      BY <1>1, <2>1, <3>1 DEF ClientWritesAt
    <3> QED  BY <3>1, <3>2, OutwardSame
  <2>5. CASE Value \in {"exit", "error"}
    <3>1. WritesNothing /\ pc' \in {"done", "fatal"}
      <4>1. CASE Value = "exit"
        BY <1>4, <2>2, <4>1 DEF ReadLine, LoginEnds
      <4>2. CASE Value = "error"
        BY <1>4, <4>2 DEF ReadLine
      <4> QED  BY <2>5, <4>1, <4>2
    <3>2. Gone'
      BY <3>1 DEF Gone
    <3> QED  BY <3>1, <3>2, OutwardSame
  <2>6. CASE Value = "authreqd"
    <3>1. PICK u \in Units : u = Just("response")
      BY UnitShapes DEF Kinds
    <3>2. pc' = "lines" /\ WritesDirectly(<<u>>)
      BY <1>4, <2>1, <2>6, <3>1 DEF ReadLine
    <3>3. out' = out \o <<u>> /\ out' # <<>>
      BY <2>2, <2>6, <3>2 DEF WritesDirectly
    <3>4. ClientWritesAt = "response" /\ ClientWritesAt' = "lines"
      BY <1>1, <2>1, <2>2, <2>6, <3>2, <3>3 DEF ClientWritesAt
    <3>5. ASSUME NEW t \in RemoteState, t.place = "response"
          PROVE  \E e \in RemoteState : <<t, u, e>> \in RemoteSteps' /\ e.place = "lines"
      <4>1. <<t, u, MovesTo(t, "lines")>> \in RemoteSteps
        BY <1>1, <3>1, <3>5, RemoteCan
      <4>2. <<t, u, MovesTo(t, "lines")>> \in RemoteSteps' /\ MovesTo(t, "lines") \in RemoteState
        BY <4>1, StillCan
      <4> QED  BY <4>2, RemoteMoved
    <3> QED  BY <2>3, <3>2, <3>4, <3>5, OutwardOne
  <2>7. CASE Value = "ok"
    <3>1. PICK u \in Units : u = Just("arguments")
      BY UnitShapes DEF Kinds
    <3>2. pc' = AfterVersion(protocol) /\ WritesDirectly(<<u>>)
      BY <1>4, <2>1, <2>2, <2>7, <3>1 DEF ReadLine, LoginEnds
    <3>3. pc' \in {"compatibility", "seed"}
      BY <3>2 DEF AfterVersion
    <3>4. ClientWritesAt = "arguments" /\ ClientWritesAt' = SetUp
      <4>1. ClientWritesAt = "arguments"
        BY <2>1, <2>2, <2>3, <2>7 DEF ClientWritesAt
      <4>2. ClientWritesAt' = SetUp
        BY <1>1, <3>3 DEF ClientWritesAt
      <4> QED  BY <4>1, <4>2
    <3>5. ASSUME NEW t \in RemoteState, t.place = "arguments"
          PROVE  \E e \in RemoteState : <<t, u, e>> \in RemoteSteps' /\ e.place = SetUp
      <4>1. <<t, u, MovesTo(t, SetUp)>> \in RemoteSteps
        BY <1>1, <3>1, <3>5, RemoteCan
      <4>2. <<t, u, MovesTo(t, SetUp)>> \in RemoteSteps' /\ MovesTo(t, SetUp) \in RemoteState
        BY <4>1, StillCan
      <4> QED  BY <4>2, RemoteMoved
    <3> QED  BY <2>3, <3>2, <3>4, <3>5, OutwardOne
  <2> QED  BY <2>2, <2>4, <2>5, <2>6, <2>7
<1>5. CASE ReadSeed
  <2>1. pc = "seed" /\ deletionEnabled \in BOOLEAN
    BY <1>1, <1>5 DEF ReadSeed, TypeInv
  <2>2. ClientWritesAt = SetUp
    BY <2>1 DEF ClientWritesAt
  <2>3. CASE Downloading \/ deletionEnabled = TRUE
    <3>1. op # "remove"
      BY <1>1, <2>3 DEF Downloading, TypeInv
    <3>2. SetUp = "filters"
      BY <1>1, <2>1, <2>3 DEF SetUp, Deleting, TypeInv, Downloading
    <3>3. pc' = IF Downloading THEN "receive list" ELSE "send list"
      <4>1. CASE Downloading
        BY <1>5, <3>1, <4>1 DEF ReadSeed
      <4>2. CASE ~Downloading
        BY <1>5, <3>1, <4>2 DEF ReadSeed
      <4> QED  BY <4>1, <4>2
    <3>4. PICK u \in Units : u = Just("no filter")
      BY UnitShapes DEF Kinds
    <3>5. Flushes(<<u>>)
      BY <1>5, <2>3, <3>4 DEF ReadSeed
    <3>6. ClientWritesAt' = IF Downloading THEN "index" ELSE "list"
      <4>1. CASE Downloading
        <5>1. pc' = "receive list"
          BY <3>3, <4>1
        <5> QED  BY <4>1, <5>1 DEF ClientWritesAt
      <4>2. CASE ~Downloading
        <5>1. pc' = "send list"
          BY <3>3, <4>2
        <5> QED  BY <4>2, <5>1 DEF ClientWritesAt
      <4> QED  BY <4>1, <4>2
    <3>7. ASSUME NEW t \in RemoteState, t.place = "filters"
          PROVE  \E e \in RemoteState : <<t, u, e>> \in RemoteSteps' /\ e.place = ClientWritesAt'
      <4>1. PICK place : place = IF Downloading THEN "index" ELSE "list"
        OBVIOUS
      <4>2. <<t, u, MovesTo(t, place)>> \in RemoteSteps
        BY <1>1, <3>4, <3>7, <4>1, RemoteCan
      <4>3. <<t, u, MovesTo(t, place)>> \in RemoteSteps' /\ MovesTo(t, place) \in RemoteState
        BY <4>2, StillCan
      <4> QED  BY <3>6, <4>1, <4>3, RemoteMoved
    <3> QED  BY <2>2, <3>2, <3>5, <3>7, OutwardOne
  <2>4. CASE ~Downloading /\ deletionEnabled = FALSE
    <3>1. WritesNothing
      BY <1>5, <2>4 DEF ReadSeed
    <3>2. SetUp = IF op = "remove" THEN "filters" ELSE "list"
      BY <2>4 DEF SetUp, Deleting
    <3>3. pc' = IF op = "remove" THEN "filters" ELSE "send list"
      <4>1. CASE op = "remove"
        BY <1>5, <2>4, <4>1 DEF ReadSeed
      <4>2. CASE op # "remove"
        BY <1>5, <2>4, <4>2 DEF ReadSeed
      <4> QED  BY <4>1, <4>2
    <3>4. ClientWritesAt' = SetUp
      <4>1. CASE op = "remove"
        <5>1. pc' = "filters"
          BY <3>3, <4>1
        <5> QED  BY <3>2, <4>1, <5>1 DEF ClientWritesAt
      <4>2. CASE op # "remove"
        <5>1. pc' = "send list"
          BY <3>3, <4>2
        <5> QED  BY <3>2, <4>2, <5>1 DEF ClientWritesAt
      <4> QED  BY <4>1, <4>2
    <3> QED  BY <2>2, <3>1, <3>4, OutwardSame
  <2> QED  BY <2>1, <2>3, <2>4
<1> QED  BY <1>2, <1>3, <1>4, <1>5

(* The lists. *)
LEMMA ListOutward ==
  ASSUME Inv, Client, SendFilters \/ SendList
  PROVE  OutwardInv'
<1>1. /\ TypeInv /\ PlaceInv /\ ProtocolInv
      /\ UNCHANGED <<op, rpc, connection>> /\ Downloading' = Downloading
      /\ out \in Seq(Units) /\ buffer \in Seq(Units)
  BY ClientKeeps, ClientSame DEF Inv, remote, constant, TypeInv
<1>2. CASE SendFilters
  <2>1. pc = "filters" /\ pc' = "send list" /\ op = "remove" /\ ~Downloading
    BY <1>1, <1>2 DEF SendFilters, PlaceInv, Downloading
  <2>2. ClientWritesAt = "filters" /\ ClientWritesAt' = "list"
    BY <2>1 DEF ClientWritesAt
  <2>3. PICK u \in Units, v \in Units : u = Just("filter") /\ v = Just("no filter")
    BY UnitShapes DEF Kinds
  <2>4. PICK x \in Seq(Units), y \in Seq(Units) : x = <<u, u, u>> /\ y = <<u, v>>
    BY Few
  <2>5. x \o y = <<u, u, u, u, v>>
    <3>1. PICK w \in Seq(Units) : w = x \o y
      BY ConcatProperties
    <3>2. Len(x) = 3 /\ Len(y) = 2 /\ x[1] = u /\ x[2] = u /\ x[3] = u /\ y[1] = u /\ y[2] = v
      BY <2>4
    <3>3. Len(w) = 5 /\ w[1] = u /\ w[2] = u /\ w[3] = u /\ w[4] = u /\ w[5] = v
      <4>1. Len(w) = 5 /\ \A k \in 1 .. 5 : w[k] = IF k <= 3 THEN x[k] ELSE y[k - 3]
        <5>1. /\ Len(x \o y) = Len(x) + Len(y)
              /\ \A k \in 1 .. Len(x) + Len(y) : (x \o y)[k] = IF k <= Len(x) THEN x[k] ELSE y[k - Len(x)]
          BY LenProperties, ConcatProperties
        <5>2. Len(x) + Len(y) = 5
          BY <3>2
        <5> QED  BY <3>1, <3>2, <5>1, <5>2
      <4>2. w[1] = u /\ w[2] = u /\ w[3] = u
        BY <3>2, <4>1
      <4>3. 4 - 3 = 1 /\ 5 - 3 = 2 /\ 4 \in 1 .. 5 /\ 5 \in 1 .. 5 /\ ~(4 <= 3) /\ ~(5 <= 3)
        OBVIOUS
      <4>4. w[4] = y[4 - 3] /\ w[5] = y[5 - 3]
        BY <4>1, <4>3
      <4> QED  BY <3>2, <4>1, <4>2, <4>3, <4>4
    <3>4. w = <<u, u, u, u, v>>
      BY <3>3
    <3> QED  BY <3>1, <3>4
  <2>6. Flushes(x \o y) /\ x \o y \in Seq(Units)
    BY <1>2, <2>3, <2>5, FilterUnits, ConcatProperties DEF SendFilters
  <2>7. out' \o buffer' = (out \o buffer) \o (x \o y)
    BY <1>1, <2>6, Written
  <2>8. ASSUME NEW t \in RemoteState, t.place = "filters"
        PROVE  \E e \in RemoteState : Run(RemoteSteps', x \o y, t, e) /\ e.place = "list"
    <3>1. <<t, u, t>> \in RemoteSteps'
      <4>1. <<t, u, t>> \in RemoteSteps
        BY <1>1, <2>3, <2>8, RemoteCan
      <4> QED  BY <4>1, StillCan
    <3>2. PICK e \in RemoteState : e = MovesTo(t, "list") /\ <<t, v, e>> \in RemoteSteps'
      <4>1. <<t, v, MovesTo(t, "list")>> \in RemoteSteps
        BY <1>1, <2>1, <2>3, <2>8, RemoteCan
      <4> QED  BY <4>1, StillCan
    <3>3. Run(RemoteSteps', x, t, t) /\ Run(RemoteSteps', y, t, e)
      BY <2>4, <3>1, <3>2, RunTwo, RunThree
    <3>4. Run(RemoteSteps', x \o y, t, e)
      BY <3>3, RunConcat
    <3> QED  BY <3>2, <3>4, RemoteMoved
  <2> QED  BY <2>2, <2>6, <2>7, <2>8, OutwardFrom
<1>3. CASE SendList
  <2>1. pc = "send list" /\ pc' \in {"upload", "rounds"} /\ protocol = Agreed
    BY <1>1, <1>3 DEF SendList, ProtocolInv
  <2>2. ClientWritesAt = "list" /\ ClientWritesAt' = "index"
    BY <2>1 DEF ClientWritesAt
  <2>3. PICK n \in Nat : n = IF op = "upload" THEN Len(Sizes) ELSE 1
    BY FilesFinite
  <2>4. PICK u \in Units, v \in Units, w \in Units :
          u = Just("entry") /\ v = Just("end") /\ w = Just("io error")
    BY UnitShapes DEF Kinds
  <2>5. PICK x \in Seq(Units) : x = Entries(n) /\ Len(x) = n /\ \A k \in 1 .. n : x[k] = u
    BY <2>4, ListUnits
  <2>6. PICK y \in Seq(Units), z \in Seq(Units) : y = <<v>> /\ z = IF Agreed < 30 THEN <<w>> ELSE <<>>
    <3>1. <<v>> \in Seq(Units) /\ <<w>> \in Seq(Units) /\ <<>> \in Seq(Units)
      BY Few
    <3> QED  BY <3>1
  <2>7. PICK units \in Seq(Units) : units = (x \o y) \o z
    BY ConcatProperties
  <2>8. Flushes(units)
    BY <1>3, <2>1, <2>3, <2>4, <2>5, <2>6, <2>7 DEF SendList, IoError
  <2>9. out' \o buffer' = (out \o buffer) \o units
    BY <1>1, <2>8, Written
  <2>10. ASSUME NEW t \in RemoteState, t.place = "list"
         PROVE  \E e \in RemoteState : Run(RemoteSteps', units, t, e) /\ e.place = "index"
    <3>1. <<t, u, t>> \in RemoteSteps'
      <4>1. <<t, u, t>> \in RemoteSteps
        BY <1>1, <2>4, <2>10, RemoteCan
      <4> QED  BY <4>1, StillCan
    <3>2. PICK d \in RemoteState : d = MovesTo(t, IF Agreed < 30 THEN "io error" ELSE "index")
                                     /\ <<t, v, d>> \in RemoteSteps'
      <4>1. <<t, v, MovesTo(t, IF Agreed < 30 THEN "io error" ELSE "index")>> \in RemoteSteps
        BY <1>1, <2>4, <2>10, RemoteCan
      <4> QED  BY <4>1, StillCan
    <3>3. d.place = IF Agreed < 30 THEN "io error" ELSE "index"
      <4>1. PICK place \in RemotePlaces : place = IF Agreed < 30 THEN "io error" ELSE "index"
        BY DEF RemotePlaces
      <4>2. d = MovesTo(t, place)
        BY <3>2, <4>1
      <4>3. d.place = place
        BY <2>10, <4>2 DEF MovesTo, RemoteState
      <4> QED  BY <4>1, <4>3
    <3>4. PICK e \in RemoteState : Run(RemoteSteps', z, d, e) /\ e.place = "index"
      <4>1. CASE Agreed < 30
        <5>1. <<d, w, MovesTo(d, "index")>> \in RemoteSteps
          BY <1>1, <2>4, <3>3, <4>1, RemoteCan
        <5>2. <<d, w, MovesTo(d, "index")>> \in RemoteSteps' /\ MovesTo(d, "index") \in RemoteState
          BY <5>1, StillCan
        <5>3. Run(RemoteSteps', <<w>>, d, MovesTo(d, "index"))
          BY <5>2, RunOne
        <5> QED  BY <2>6, <4>1, <5>2, <5>3, RemoteMoved
      <4>2. CASE ~(Agreed < 30)
        <5>1. Run(RemoteSteps', <<>>, d, d)
          BY RunNothing
        <5> QED  BY <2>6, <3>3, <4>2, <5>1
      <4> QED  BY <4>1, <4>2
    <3>5. Run(RemoteSteps', x, t, t)
      BY <2>5, <3>1, RunSame
    <3>6. Run(RemoteSteps', y, t, d)
      BY <2>6, <3>2, RunOne
    <3>7. Run(RemoteSteps', x \o y, t, d) /\ x \o y \in Seq(Units)
      BY <3>5, <3>6, RunConcat, ConcatProperties
    <3>8. Run(RemoteSteps', (x \o y) \o z, t, e)
      BY <3>4, <3>7, RunConcat
    <3> QED  BY <2>7, <3>4, <3>8
  <2> QED  BY <2>2, <2>9, <2>10, OutwardFrom
<1> QED  BY <1>2, <1>3

(* After that. *)
LEMMA AnswersOutward ==
  ASSUME Inv, Client,
         UploadDone \/ UploadIndex \/ ReadFlags \/ SendFile \/ Round \/ RoundFlags
         \/ ReceiveEntry \/ ReceiveEnd \/ ReceiveIoError
  PROVE  OutwardInv'
<1>1. /\ TypeInv /\ PlaceInv /\ ProtocolInv /\ CountInv /\ InwardInv
      /\ UNCHANGED <<op, rpc, connection>> /\ Downloading' = Downloading
      /\ out \in Seq(Units) /\ buffer \in Seq(Units)
  BY ClientKeeps, ClientSame DEF Inv, remote, constant, TypeInv
<1>2. PICK d \in Units : d = Index(INDEX_DONE)
  BY UnitShapes
<1>3. ASSUME NEW t \in RemoteState, t.place = "index"
      PROVE  \E e \in RemoteState : <<t, d, e>> \in RemoteSteps' /\ e.place = "index"
  <2>1. <<t, d, [t EXCEPT !.of = INDEX_DONE, !.echo = t.echo + 1]>> \in RemoteSteps
    BY <1>1, <1>2, <1>3, RemoteCan
  <2>2. PICK e : e = [t EXCEPT !.of = INDEX_DONE, !.echo = t.echo + 1]
    OBVIOUS
  <2>3. <<t, d, e>> \in RemoteSteps' /\ e \in RemoteState
    BY <2>1, <2>2, StillCan
  <2>4. e.place = "index"
    BY <1>3, <2>2, RemoteMoved
  <2> QED  BY <2>3, <2>4
<1>4. CASE UploadDone
  <2>1. pc = "upload" /\ pc' \in {"upload", "rounds"} /\ Flushes(<<d>>)
    BY <1>2, <1>4 DEF UploadDone, AnswerDone
  <2>2. ClientWritesAt = "index" /\ ClientWritesAt' = "index"
    BY <2>1 DEF ClientWritesAt
  <2> QED  BY <1>3, <2>1, <2>2, OutwardOne
<1>5. CASE UploadIndex
  <2>1. pc = "upload" /\ pc' \in {"flags", "fatal"} /\ WritesNothing
    BY <1>5 DEF UploadIndex
  <2>2. ClientWritesAt' = ClientWritesAt
    BY <2>1 DEF ClientWritesAt
  <2> QED  BY <2>1, <2>2, OutwardSame
<1>6. CASE ReadFlags \/ SendFile
  <2>1. /\ pc \in {"flags", "checksums"} /\ pc' \in {"checksums", "upload"} /\ index' = index
    BY <1>6 DEF ReadFlags, SendFile, uploadState
  <2>2. ClientWritesAt = "index" /\ ClientWritesAt' = "index"
    BY <2>1 DEF ClientWritesAt
  <2>3. index \in Files /\ index \in Nat \ {0} /\ op = "upload" /\ ~Downloading
    <3>1. index \in Files
      BY <1>1, <2>1 DEF CountInv
    <3>2. op = "upload"
      BY <1>1, <2>1 DEF PlaceInv
    <3>3. ~Downloading
      BY <3>2 DEF Downloading
    <3>4. index \in Nat \ {0}
      BY <3>1, FilesFinite
    <3> QED  BY <3>1, <3>2, <3>3, <3>4
  <2>4. PICK u \in Units : u = Index(index)
    BY <2>3, UnitShapes
  <2>5. ASSUME NEW t \in RemoteState, t.place = "index"
        PROVE  \E q \in RemoteState : <<t, u, q>> \in RemoteSteps' /\ q.place = "flags" /\ q.of = index
    <3>1. PICK k \in Nat \ {0} : k = index
      BY <2>3
    <3>2. PICK q : q = [t EXCEPT !.place = "flags", !.of = k]
      OBVIOUS
    <3>3. <<t, u, q>> \in RemoteSteps
      BY <1>1, <2>3, <2>4, <2>5, <3>1, <3>2, RemoteCan
    <3>4. q.place = "flags" /\ q.of = k
      BY <3>2 DEF RemoteState
    <3> QED  BY <3>1, <3>3, <3>4, StillCan
  <2>6. CASE WritesNothing
    BY <2>2, <2>6, OutwardSame
  <2>7. CASE ReadFlags /\ ~WritesNothing
    <3>1. pc = "flags" /\ Value # "wanted" /\ Value = Head(in).value /\ in # <<>>
      BY <2>7 DEF ReadFlags, Value, Reads
    <3>2. Value = "unwanted"
      BY <1>1, <3>1, ExpectFlags
    <3>3. PICK v \in Units : v = Unit("flags", "unwanted")
      BY UnitShapes DEF Texts
    <3>4. PICK units \in Seq(Units) : units = <<u, v>>
      BY Few
    <3>5. Buffers(units)
      BY <2>4, <2>7, <3>1, <3>2, <3>3, <3>4 DEF ReadFlags
    <3>6. out' \o buffer' = (out \o buffer) \o units
      BY <1>1, <3>5, Written
    <3>7. ASSUME NEW t \in RemoteState, t.place = "index"
          PROVE  \E e \in RemoteState : Run(RemoteSteps', units, t, e) /\ e.place = "index"
      <4>1. PICK q \in RemoteState : <<t, u, q>> \in RemoteSteps' /\ q.place = "flags"
        BY <2>5, <3>7
      <4>2. PICK e \in RemoteState : <<q, v, e>> \in RemoteSteps' /\ e.place = "index"
        <5>1. <<q, v, MovesTo(q, "index")>> \in RemoteSteps
          BY <1>1, <3>3, <4>1, RemoteCan
        <5>2. <<q, v, MovesTo(q, "index")>> \in RemoteSteps' /\ MovesTo(q, "index") \in RemoteState
          BY <5>1, StillCan
        <5> QED  BY <5>2, RemoteMoved
      <4>3. Run(RemoteSteps', <<u, v>>, t, e)
        BY <4>1, <4>2, RunTwo
      <4> QED  BY <3>4, <4>2, <4>3
    <3> QED  BY <2>2, <3>6, <3>7, OutwardFrom
  <2>8. CASE SendFile /\ ~WritesNothing
    <3>1. PICK v \in Units, w \in Units : v = Unit("flags", "wanted") /\ w = Just("file")
      BY UnitShapes DEF Texts, Kinds
    <3>2. PICK units \in Seq(Units) : units = <<u, v, w>>
      BY Few
    <3>3. Flushes(units) /\ sent' = sent \cup {index}
      BY <2>4, <2>8, <3>1, <3>2 DEF SendFile
    <3>4. out' \o buffer' = (out \o buffer) \o units
      BY <1>1, <3>3, Written
    <3>5. ASSUME NEW t \in RemoteState, t.place = "index"
          PROVE  \E e \in RemoteState : Run(RemoteSteps', units, t, e) /\ e.place = "index"
      <4>1. PICK q \in RemoteState : <<t, u, q>> \in RemoteSteps' /\ q.place = "flags" /\ q.of = index
        BY <2>5, <3>5
      <4>2. PICK r \in RemoteState : r = MovesTo(q, "file") /\ <<q, v, r>> \in RemoteSteps'
        <5>1. <<q, v, MovesTo(q, "file")>> \in RemoteSteps
          BY <1>1, <2>3, <3>1, <4>1, RemoteCan
        <5> QED  BY <5>1, StillCan
      <4>3. r.place = "file" /\ r.of = index
        BY <4>1, <4>2, RemoteMoved
      <4>4. PICK e : e = MovesTo(r, "index")
        OBVIOUS
      <4>5. e \in RemoteState /\ e.place = "index"
        <5>1. "index" \in RemotePlaces
          BY DEF RemotePlaces
        <5> QED  BY <4>4, <5>1 DEF MovesTo, RemoteState
      <4>6. <<r, w, e>> \in RemoteSteps'
        <5>1. r.of \in sent'
          BY <3>3, <4>3
        <5>2. w.kind = "file"
          BY <3>1 DEF Just, Unit
        <5>3. RemoteTakes(r, w, e)'
          BY <4>3, <4>4, <5>1, <5>2 DEF RemoteTakes
        <5> QED  BY <4>5, <5>3 DEF RemoteSteps
      <4>7. Run(RemoteSteps', <<u, v, w>>, t, e)
        BY <4>1, <4>2, <4>6, RunThree
      <4> QED  BY <3>2, <4>5, <4>7
    <3> QED  BY <2>2, <3>4, <3>5, OutwardFrom
  <2> QED  BY <1>6, <2>6, <2>7, <2>8
<1>7. CASE Round
  <2>1. pc = "rounds" /\ in # <<>> /\ Value = Head(in).value
    BY <1>7 DEF Round, Reads, Value
  <2>2. ClientWritesAt = "index" /\ ~Downloading
    BY <1>1, <2>1 DEF ClientWritesAt, PlaceInv
  <2>3. CASE Value = INDEX_DONE \/ op = "link"
    <3>1. Flushes(<<d>>) /\ pc' \in {"done", "rounds"}
      BY <1>2, <1>7, <2>3 DEF Round, EndRound
    <3>2. ClientWritesAt' = "index"
      BY <3>1 DEF ClientWritesAt
    <3> QED  BY <1>3, <2>2, <3>1, <3>2, OutwardOne
  <2>4. CASE ~(Value = INDEX_DONE \/ op = "link")
    <3>1. PICK k \in Nat \ {0} : k = Value
      BY <1>1, <2>1, <2>4, ExpectIndex
    <3>2. PICK u \in Units : u = Index(k)
      BY UnitShapes
    <3>3. Buffers(<<u>>) /\ pc' = "round flags"
      BY <1>7, <2>4, <3>1, <3>2 DEF Round
    <3>4. ClientWritesAt' = "flags"
      BY <3>3 DEF ClientWritesAt
    <3>5. ASSUME NEW t \in RemoteState, t.place = "index"
          PROVE  \E e \in RemoteState : <<t, u, e>> \in RemoteSteps' /\ e.place = "flags"
      <4>1. PICK q : q = [t EXCEPT !.place = "flags", !.of = k]
        OBVIOUS
      <4>2. <<t, u, q>> \in RemoteSteps
        BY <1>1, <2>2, <3>2, <3>5, <4>1, RemoteCan
      <4>3. q.place = "flags"
        BY <4>1, RemoteMoved
      <4> QED  BY <4>2, <4>3, StillCan
    <3> QED  BY <2>2, <3>3, <3>4, <3>5, OutwardOne
  <2> QED  BY <2>3, <2>4
<1>8. CASE RoundFlags
  <2>1. pc = "round flags" /\ in # <<>> /\ Value = Head(in).value /\ pc' \in {"done", "rounds"}
    BY <1>8 DEF RoundFlags, Reads, Value, EndRound
  <2>2. Value = "unwanted"
    <3>1. op # "upload"
      BY <1>1, <2>1 DEF PlaceInv
    <3> QED  BY <1>1, <2>1, <3>1, ExpectFlags
  <2>3. PICK v \in Units : v = Unit("flags", "unwanted")
    BY UnitShapes DEF Texts
  <2>4. Flushes(<<v>>)
    BY <1>8, <2>2, <2>3 DEF RoundFlags, EndRound
  <2>5. ClientWritesAt = "flags" /\ ClientWritesAt' = "index"
    BY <2>1 DEF ClientWritesAt
  <2>6. ASSUME NEW t \in RemoteState, t.place = "flags"
        PROVE  \E e \in RemoteState : <<t, v, e>> \in RemoteSteps' /\ e.place = "index"
    <3>1. <<t, v, MovesTo(t, "index")>> \in RemoteSteps
      BY <1>1, <2>3, <2>6, RemoteCan
    <3>2. <<t, v, MovesTo(t, "index")>> \in RemoteSteps' /\ MovesTo(t, "index") \in RemoteState
      BY <3>1, StillCan
    <3> QED  BY <3>2, RemoteMoved
  <2> QED  BY <2>4, <2>5, <2>6, OutwardOne
<1>9. CASE ReceiveEntry \/ ReceiveEnd \/ ReceiveIoError
  <2>1. /\ pc \in {"receive list", "io error"} /\ pc' \in {"receive list", "io error", "done"}
        /\ WritesNothing \/ (Flushes(<<d, d>>) /\ pc' = "done")
    BY <1>2, <1>9 DEF ReceiveEntry, ReceiveEnd, ReceiveIoError, ListReceived
  <2>2. ClientWritesAt = "index" /\ ClientWritesAt' = "index"
    BY <2>1 DEF ClientWritesAt
  <2>3. CASE WritesNothing
    BY <2>2, <2>3, OutwardSame
  <2>4. CASE Flushes(<<d, d>>)
    <3>1. PICK units \in Seq(Units) : units = <<d, d>>
      BY Few
    <3>2. out' \o buffer' = (out \o buffer) \o units
      BY <1>1, <2>4, <3>1, Written
    <3>3. ASSUME NEW t \in RemoteState, t.place = "index"
          PROVE  \E e \in RemoteState : Run(RemoteSteps', units, t, e) /\ e.place = "index"
      <4>1. PICK q \in RemoteState : <<t, d, q>> \in RemoteSteps' /\ q.place = "index"
        BY <1>3, <3>3
      <4>2. PICK e \in RemoteState : <<q, d, e>> \in RemoteSteps' /\ e.place = "index"
        BY <1>3, <4>1
      <4>3. Run(RemoteSteps', <<d, d>>, t, e)
        BY <4>1, <4>2, RunTwo
      <4> QED  BY <3>1, <4>2, <4>3
    <3> QED  BY <2>2, <3>2, <3>3, OutwardFrom
  <2> QED  BY <2>1, <2>3, <2>4
<1> QED  BY <1>4, <1>5, <1>6, <1>7, <1>8, <1>9

(* The way to the remote side, in the steps of the client. *)
LEMMA ClientOutward ==
  ASSUME Inv, Client, ProtocolInv'
  PROVE  OutwardInv'
BY SetUpOutward, ListOutward, AnswersOutward DEF Client

-----------------------------------------------------------------------------
(* Steps of the remote side change nothing of what either side may take. *)
LEMMA RemoteSame ==
  ASSUME Inv, Remote
  PROVE  /\ RemoteSteps \subseteq RemoteSteps'
         /\ UNCHANGED <<pc, buffer, op, connection, sent, phase, lastIndex, rounds, Gone>>
         /\ Downloading' = Downloading /\ SetUp' = SetUp /\ Agreed' = Agreed /\ Outcome' = Outcome
<1>1. UNCHANGED <<client, constant>> /\ TypeInv
  BY RemoteKeeps DEF Inv
<1>2. UNCHANGED <<pc, buffer, op, deletionEnabled, connection, sent, phase, lastIndex, rounds>>
  BY <1>1 DEF client, constant
<1>3. echoed' \in {echoed, echoed + 1}
  BY DEF Remote, RemoteGreets, RemoteNegotiates, RemoteModule, RemoteLines, RemoteResponse,
         RemoteArguments, RemoteSetsUp, RemoteFilter, RemoteList, RemoteIoError, RemoteGenerates,
         RemoteAsksAgain, RemoteDone, RemoteIndex, RemoteFlags, RemoteFile, RemoteSays, generator
<1>4. echoed \in Nat
  BY <1>1 DEF TypeInv
<1>5. echoed' \in Nat /\ echoed' >= echoed /\ sent \subseteq sent'
  BY <1>2, <1>3, <1>4
<1>6. RemoteSteps \subseteq RemoteSteps'
  BY <1>1, <1>5, RemoteMore
<1>7. Downloading' = Downloading /\ SetUp' = SetUp /\ Agreed' = Agreed /\ Outcome' = Outcome
  BY <1>2 DEF Downloading, SetUp, Deleting, Agreed, Outcome, AfterVersion
<1>8. Gone' = Gone
  BY <1>2 DEF Gone
<1> QED  BY <1>2, <1>6, <1>7, <1>8

(* The remote side reads a unit, or none, and what is left leads as far. *)
LEMMA OutwardReads ==
  ASSUME Inv, Remote, rpc # "gone", out # <<>>, out' = Tail(out),
         \A q \in RemoteState : RemoteTakes(RemoteAt, Head(out), q) => q = RemoteAt',
         Gone \/ ClientWritesAt' = ClientWritesAt
  PROVE  OutwardInv'
<1>1. PICK q, t \in RemoteState : /\ RemoteTakes(RemoteAt, Head(out), q)
                                  /\ Run(RemoteSteps, Tail(out) \o buffer, q, t)
                                  /\ ~Gone => t.place = ClientWritesAt
  BY OutwardHead DEF Inv
<1>2. RemoteSteps \subseteq RemoteSteps' /\ buffer' = buffer /\ Gone' = Gone
  BY RemoteSame
<1>3. q = RemoteAt'
  BY <1>1
<1>4. PICK R : R = RemoteSteps
  OBVIOUS
<1>5. PICK S : S = RemoteSteps'
  OBVIOUS
<1>6. PICK w : w = Tail(out) \o buffer
  OBVIOUS
<1>7. Run(S, w, q, t)
  <2>1. R \subseteq S /\ Run(R, w, q, t)
    BY <1>1, <1>2, <1>4, <1>5, <1>6
  <2> QED  BY <2>1, RunMore
<1>8. Run(RemoteSteps', out' \o buffer', RemoteAt', t)
  BY <1>2, <1>3, <1>5, <1>6, <1>7
<1> QED  BY <1>1, <1>2, <1>8 DEF OutwardInv

(* A step of the remote side that reads nothing and stays where it is. *)
LEMMA OutwardKeeps ==
  ASSUME Inv, Remote, rpc # "gone", out' = out, RemoteAt' = RemoteAt,
         Gone \/ ClientWritesAt' = ClientWritesAt
  PROVE  OutwardInv'
<1>1. PICK t \in RemoteState : /\ Run(RemoteSteps, out \o buffer, RemoteAt, t)
                               /\ ~Gone => t.place = ClientWritesAt
  BY OutwardRun DEF Inv
<1>2. RemoteSteps \subseteq RemoteSteps' /\ buffer' = buffer /\ Gone' = Gone
  BY RemoteSame
<1>3. PICK s : s = RemoteAt
  OBVIOUS
<1>4. PICK R : R = RemoteSteps
  OBVIOUS
<1>5. PICK S : S = RemoteSteps'
  OBVIOUS
<1>6. PICK w : w = out \o buffer
  OBVIOUS
<1>7. Run(S, w, s, t)
  <2>1. R \subseteq S /\ Run(R, w, s, t)
    BY <1>1, <1>2, <1>3, <1>4, <1>5, <1>6
  <2> QED  BY <2>1, RunMore
<1>8. Run(RemoteSteps', out' \o buffer', RemoteAt', t)
  BY <1>2, <1>3, <1>5, <1>6, <1>7
<1> QED  BY <1>1, <1>2, <1>8 DEF OutwardInv

(* While the two sides take turns nothing is on its way. *)
LEMMA OutwardQuiet ==
  ASSUME Inv, Remote, rpc' \in {"lines", "response", "arguments"}, out' = <<>>, buffer' = <<>>,
         Gone \/ pc \in {"login", "lines"}
  PROVE  OutwardInv'
<1>1. TypeInv' /\ UNCHANGED <<pc, Gone>>
  BY RemoteTypes, RemoteSame
<1>2. PICK t : t = RemoteAt'
  OBVIOUS
<1>3. t = [place |-> rpc', of |-> receiving', echo |-> echoed'] /\ t.place = rpc'
  BY <1>2 DEF RemoteAt, RemotePlace
<1>4. t \in RemoteState
  BY <1>1, <1>3 DEF RemoteState, RemotePlaces, TypeInv
<1>5. <<>> \o <<>> = <<>>
  OBVIOUS
<1>6. Run(RemoteSteps', out' \o buffer', RemoteAt', t)
  <2>1. Run(RemoteSteps', <<>>, t, t)
    BY RunNothing
  <2> QED  BY <1>2, <1>5, <2>1
<1>7. ~Gone' => t.place = ClientWritesAt'
  BY <1>1, <1>3 DEF ClientWritesAt
<1> QED  BY <1>4, <1>6, <1>7 DEF OutwardInv

(* The states of a remote side that has read an index. *)
LEMMA EchoRecord ==
  ASSUME NEW s \in RemoteState, NEW k \in Int, NEW f \in Nat
  PROVE  /\ [s EXCEPT !.of = k, !.echo = f] = [place |-> s.place, of |-> k, echo |-> f]
         /\ [s EXCEPT !.place = "flags", !.of = k] = [place |-> "flags", of |-> k, echo |-> s.echo]
<1>1. PICK x : x = [s EXCEPT !.of = k, !.echo = f]
  OBVIOUS
<1>2. PICK y : y = [s EXCEPT !.place = "flags", !.of = k]
  OBVIOUS
<1>3. x \in RemoteState /\ x.place = s.place /\ x.of = k /\ x.echo = f
  BY <1>1 DEF RemoteState
<1>4. y \in RemoteState /\ y.place = "flags" /\ y.of = k /\ y.echo = s.echo
  BY <1>2 DEF RemoteState, RemotePlaces
<1>5. \A z \in RemoteState : z = [place |-> z.place, of |-> z.of, echo |-> z.echo]
  BY DEF RemoteState
<1> QED  BY <1>1, <1>2, <1>3, <1>4, <1>5

(* Where a unit takes the remote side, by the place where it finds it. *)
LEMMA RemoteTakenAt ==
  ASSUME NEW s, NEW u, NEW t, RemoteTakes(s, u, t)
  PROVE  /\ s.place = "version" => t = MovesTo(s, IF connection.daemon THEN "module" ELSE SetUp)
         /\ s.place = "module" => t = MovesTo(s, "lines")
         /\ s.place = "arguments" => t = MovesTo(s, SetUp)
         /\ s.place = "filters" =>
              \/ u.kind = "filter" /\ t = s
              \/ u.kind = "no filter" /\ t = MovesTo(s, IF Downloading THEN "index" ELSE "list")
         /\ s.place = "list" =>
              \/ u.kind = "entry" /\ t = s
              \/ u.kind = "end" /\ t = MovesTo(s, IF Agreed < 30 THEN "io error" ELSE "index")
         /\ s.place = "io error" => t = MovesTo(s, "index")
         /\ s.place = "flags" =>
              \/ u.value = "wanted" /\ t = MovesTo(s, "file")
              \/ u.value = "unwanted" /\ t = MovesTo(s, "index")
         /\ s.place = "file" => t = MovesTo(s, "index")
BY DEF RemoteTakes

(* The two ways to take an index. *)
LEMMA IndexTaken ==
  ASSUME NEW s \in RemoteState, NEW u, NEW t, RemoteTakes(s, u, t), s.place = "index"
  PROVE  \/ /\ u = Index(INDEX_DONE)
            /\ t = [place |-> s.place, of |-> INDEX_DONE, echo |-> s.echo + 1]
         \/ /\ u.value \in Nat \ {0} /\ u.value # INDEX_DONE
            /\ t = [place |-> "flags", of |-> u.value, echo |-> s.echo]
<1>1. \/ u = Index(INDEX_DONE) /\ t = [s EXCEPT !.of = INDEX_DONE, !.echo = s.echo + 1]
      \/ u.value \in Nat \ {0} /\ t = [s EXCEPT !.place = "flags", !.of = u.value]
  BY DEF RemoteTakes
<1>2. s.echo + 1 \in Nat /\ INDEX_DONE \in Int /\ (\A n \in Nat \ {0} : n # INDEX_DONE)
  BY DEF RemoteState, INDEX_DONE
<1>3. CASE u = Index(INDEX_DONE) /\ t = [s EXCEPT !.of = INDEX_DONE, !.echo = s.echo + 1]
  BY <1>2, <1>3, EchoRecord
<1>4. CASE u.value \in Nat \ {0} /\ t = [s EXCEPT !.place = "flags", !.of = u.value]
  <2>1. PICK k \in Int : k = u.value
    BY <1>4
  <2>2. t = [place |-> "flags", of |-> k, echo |-> s.echo]
    BY <1>4, <2>1, EchoRecord
  <2> QED  BY <1>2, <1>4, <2>1, <2>2
<1> QED  BY <1>1, <1>3, <1>4

(* The way to the remote side, in the steps of the remote side. *)
LEMMA RemoteOutward ==
  ASSUME Inv, Remote
  PROVE  OutwardInv'
<1>1. /\ TypeInv /\ PlaceInv /\ PromptInv /\ ProtocolInv /\ OutwardInv
      /\ UNCHANGED <<pc, buffer, op, connection, Gone>>
      /\ Downloading' = Downloading /\ SetUp' = SetUp /\ Agreed' = Agreed
  BY RemoteSame DEF Inv
<1>2. rpc' = "gone" => OutwardInv'
  BY DEF OutwardInv
<1>3. ASSUME rpc \notin {"response", "arguments"}, rpc' \notin {"response", "arguments"}
      PROVE  ClientWritesAt' = ClientWritesAt
  BY <1>1, <1>3 DEF ClientWritesAt
<1>4. PICK s : s = RemoteAt
  OBVIOUS
<1>5. s = [place |-> RemotePlace, of |-> receiving, echo |-> echoed]
      /\ RemoteAt' = [place |-> RemotePlace', of |-> receiving', echo |-> echoed']
  BY <1>4 DEF RemoteAt
<1>6. s.place = RemotePlace /\ s.echo = echoed
      /\ (\A place : MovesTo(s, place) = [place |-> place, of |-> receiving, echo |-> echoed])
  <2>1. s.place = RemotePlace /\ s.echo = echoed
    BY <1>5
  <2>2. ASSUME NEW place PROVE MovesTo(s, place) = [place |-> place, of |-> receiving, echo |-> echoed]
    BY <1>5 DEF MovesTo
  <2> QED  BY <2>1, <2>2
<1>7. CASE RemoteGreets \/ RemoteSetsUp \/ RemoteGenerates \/ RemoteAsksAgain \/ RemoteDone
  <2>1. /\ out' = out /\ receiving' = receiving /\ echoed' = echoed
        /\ \/ rpc = "start" /\ rpc' = "version"
           \/ rpc = "set up" /\ rpc' = SetUp
           \/ rpc \in {"receive", "flags", "file"} /\ rpc' = rpc
    BY <1>7 DEF RemoteGreets, RemoteSetsUp, RemoteGenerates, RemoteAsksAgain, RemoteDone, generator, Generating, SetUp
  <2>2. SetUp \in {"filters", "list"}
    BY SetUpPlace
  <2>3. RemotePlace' = RemotePlace /\ rpc # "gone"
    BY <1>1, <2>1, <2>2 DEF RemotePlace
  <2>4. ClientWritesAt' = ClientWritesAt
    BY <1>3, <2>1, <2>2
  <2> QED  BY <1>4, <1>5, <2>1, <2>3, <2>4, OutwardKeeps
<1>8. CASE RemoteLines
  <2>1. rpc = "lines" /\ out' = out /\ rpc' \in {"lines", "response", "arguments", "gone"}
    BY <1>8 DEF RemoteLines, RemoteSays
  <2>2. out' = <<>> /\ buffer' = <<>> /\ (Gone \/ pc \in {"login", "lines"})
    BY <1>1, <2>1, ExpectNothing
  <2> QED  BY <1>2, <2>1, <2>2, OutwardQuiet
<1>9. CASE RemoteResponse
  <2>1. rpc = "response" /\ out # <<>> /\ out' = Tail(out) /\ rpc' \in {"arguments", "gone"}
    BY <1>9 DEF RemoteResponse, RemoteReads
  <2>2. Tail(out) = <<>> /\ buffer = <<>> /\ (Gone \/ pc = "lines")
    BY <1>1, <2>1, ExpectResponse
  <2>3. out' = <<>> /\ buffer' = <<>> /\ (Gone \/ pc \in {"login", "lines"})
    BY <1>1, <2>1, <2>2
  <2> QED  BY <1>2, <2>1, <2>3, OutwardQuiet
<1>10. CASE RemoteArguments
  <2>1. /\ rpc = "arguments" /\ out # <<>> /\ out' = Tail(out) /\ rpc' = "set up"
        /\ UNCHANGED <<receiving, echoed>>
    BY <1>10 DEF RemoteArguments, RemoteReads, generator
  <2>2. pc \notin {"login", "lines"}
    BY <1>1, <2>1 DEF PromptInv
  <2>3. ClientWritesAt' = ClientWritesAt
    BY <1>1, <2>2 DEF ClientWritesAt
  <2>4. RemotePlace = "arguments" /\ RemotePlace' = SetUp
    BY <1>1, <2>1 DEF RemotePlace
  <2>5. ASSUME NEW q \in RemoteState, RemoteTakes(s, Head(out), q) PROVE q = RemoteAt'
    <3>1. q = MovesTo(s, SetUp)
      <4>1. PICK u : u = Head(out)
        OBVIOUS
      <4>2. RemoteTakes(s, u, q)
        BY <1>6, <2>5, <4>1
      <4>3. s.place = "arguments"
        BY <1>6, <2>4
      <4> QED  BY <4>1, <4>3, <4>2, RemoteTakenAt
    <3> QED  BY <1>5, <1>6, <2>1, <2>4, <3>1
  <2> QED  BY <1>4, <2>1, <2>3, <2>5, OutwardReads
<1>11. CASE RemoteNegotiates
  <2>1. /\ rpc = "version" /\ out # <<>> /\ out' = Tail(out)
        /\ rpc' = IF connection.daemon THEN "module" ELSE "set up"
        /\ UNCHANGED <<receiving, echoed>>
    BY <1>11 DEF RemoteNegotiates, RemoteReads, generator
  <2>2. ClientWritesAt' = ClientWritesAt
    BY <1>3, <2>1
  <2>3. RemotePlace = "version" /\ RemotePlace' = IF connection.daemon THEN "module" ELSE SetUp
    BY <1>1, <2>1 DEF RemotePlace
  <2>4. ASSUME NEW q \in RemoteState, RemoteTakes(s, Head(out), q) PROVE q = RemoteAt'
    <3>1. q = MovesTo(s, IF connection.daemon THEN "module" ELSE SetUp)
      <4>1. PICK u : u = Head(out)
        OBVIOUS
      <4>2. RemoteTakes(s, u, q)
        BY <1>6, <2>4, <4>1
      <4>3. s.place = "version"
        BY <1>6, <2>3
      <4> QED  BY <4>1, <4>3, <4>2, RemoteTakenAt
    <3> QED  BY <1>5, <1>6, <2>1, <2>3, <3>1
  <2> QED  BY <1>4, <2>1, <2>2, <2>4, OutwardReads
<1>12. CASE RemoteModule \/ RemoteIoError \/ RemoteFile
  <2>1. /\ out # <<>> /\ out' = Tail(out) /\ UNCHANGED <<receiving, echoed>>
        /\ \/ rpc = "module" /\ rpc' = "lines"
           \/ rpc \in {"io error", "file"} /\ rpc' = "receive"
    BY <1>12 DEF RemoteModule, RemoteIoError, RemoteFile, RemoteReads, generator
  <2>2. ClientWritesAt' = ClientWritesAt
    BY <1>3, <2>1
  <2>3. \/ RemotePlace = "module" /\ RemotePlace' = "lines"
        \/ RemotePlace \in {"io error", "file"} /\ RemotePlace' = "index"
    BY <2>1 DEF RemotePlace
  <2>4. ASSUME NEW q \in RemoteState, RemoteTakes(s, Head(out), q) PROVE q = RemoteAt'
    <3>1. q = MovesTo(s, RemotePlace')
      <4>1. PICK u : u = Head(out)
        OBVIOUS
      <4>2. RemoteTakes(s, u, q)
        BY <1>6, <2>4, <4>1
      <4>3. s.place \in {"module", "io error", "file"} /\ (s.place = "module" => RemotePlace' = "lines")
            /\ (s.place # "module" => RemotePlace' = "index")
        BY <1>6, <2>3
      <4> QED  BY <4>2, <4>3, RemoteTakenAt
    <3> QED  BY <1>5, <1>6, <2>1, <3>1
  <2> QED  BY <1>4, <2>1, <2>2, <2>4, OutwardReads
<1>13. CASE RemoteFilter
  <2>1. /\ rpc = "filters" /\ out # <<>> /\ out' = Tail(out) /\ UNCHANGED <<receiving, echoed>>
        /\ \/ Head(out).kind = "filter" /\ rpc' = "filters"
           \/ Head(out).kind = "no filter" /\ rpc' = IF Downloading THEN "serve" ELSE "list"
    BY <1>13 DEF RemoteFilter, RemoteReads, generator
  <2>2. ClientWritesAt' = ClientWritesAt
    BY <1>3, <2>1
  <2>3. /\ RemotePlace = "filters"
        /\ Head(out).kind = "filter" => RemotePlace' = "filters"
        /\ Head(out).kind = "no filter" => RemotePlace' = IF Downloading THEN "index" ELSE "list"
    BY <2>1 DEF RemotePlace
  <2>4. ASSUME NEW q \in RemoteState, RemoteTakes(s, Head(out), q) PROVE q = RemoteAt'
    <3>1. \/ Head(out).kind = "filter" /\ q = s
          \/ Head(out).kind = "no filter" /\ q = MovesTo(s, IF Downloading THEN "index" ELSE "list")
      <4>1. PICK u : u = Head(out)
        OBVIOUS
      <4>2. RemoteTakes(s, u, q)
        BY <1>6, <2>4, <4>1
      <4>3. s.place = "filters"
        BY <1>6, <2>3
      <4>4. \/ u.kind = "filter" /\ q = s
            \/ u.kind = "no filter" /\ q = MovesTo(s, IF Downloading THEN "index" ELSE "list")
        BY <4>2, <4>3, RemoteTakenAt, Zenon
      <4> QED  BY <4>1, <4>4
    <3> QED  BY <1>5, <1>6, <2>1, <2>3, <3>1
  <2> QED  BY <1>4, <2>1, <2>2, <2>4, OutwardReads
<1>14. CASE RemoteList
  <2>1. /\ rpc = "list" /\ out # <<>> /\ out' = Tail(out) /\ UNCHANGED <<receiving, echoed>>
        /\ \/ Head(out).kind = "entry" /\ rpc' = "list"
           \/ Head(out).kind = "end" /\ rpc' = IF rprotocol < 30 THEN "io error" ELSE "receive"
    BY <1>14 DEF RemoteList, RemoteReads, generator
  <2>2. rprotocol = Agreed
    BY <1>1, <2>1 DEF ProtocolInv
  <2>3. ClientWritesAt' = ClientWritesAt
    BY <1>3, <2>1
  <2>4. /\ RemotePlace = "list"
        /\ Head(out).kind = "entry" => RemotePlace' = "list"
        /\ Head(out).kind = "end" => RemotePlace' = IF Agreed < 30 THEN "io error" ELSE "index"
    BY <2>1, <2>2 DEF RemotePlace
  <2>5. ASSUME NEW q \in RemoteState, RemoteTakes(s, Head(out), q) PROVE q = RemoteAt'
    <3>1. \/ Head(out).kind = "entry" /\ q = s
          \/ Head(out).kind = "end" /\ q = MovesTo(s, IF Agreed < 30 THEN "io error" ELSE "index")
      <4>1. PICK u : u = Head(out)
        OBVIOUS
      <4>2. RemoteTakes(s, u, q)
        BY <1>6, <2>5, <4>1
      <4>3. s.place = "list"
        BY <1>6, <2>4
      <4>4. \/ u.kind = "entry" /\ q = s
            \/ u.kind = "end" /\ q = MovesTo(s, IF Agreed < 30 THEN "io error" ELSE "index")
        BY <4>2, <4>3, RemoteTakenAt, Zenon
      <4> QED  BY <4>1, <4>4
    <3> QED  BY <1>5, <1>6, <2>1, <2>4, <3>1
  <2> QED  BY <1>4, <2>1, <2>3, <2>5, OutwardReads
<1>15. CASE RemoteIndex
  <2>1. /\ rpc \in {"receive", "serve"} /\ out # <<>> /\ out' = Tail(out)
        /\ receiving' = Head(out).value
        /\ Head(out).value = INDEX_DONE => echoed' = echoed + 1 /\ rpc' = rpc
        /\ Head(out).value # INDEX_DONE => echoed' = echoed /\ rpc' = "flags"
    BY <1>15 DEF RemoteIndex, RemoteReads
  <2>2. ClientWritesAt' = ClientWritesAt
    BY <1>3, <2>1
  <2>3. /\ RemotePlace = "index"
        /\ Head(out).value = INDEX_DONE => RemotePlace' = "index"
        /\ Head(out).value # INDEX_DONE => RemotePlace' = "flags"
    BY <2>1 DEF RemotePlace
  <2>4. ASSUME NEW q \in RemoteState, RemoteTakes(s, Head(out), q) PROVE q = RemoteAt'
    <3>1. PICK u : u = Head(out)
      OBVIOUS
    <3>2. RemoteTakes(s, u, q) /\ s.place = "index"
      BY <1>6, <2>3, <2>4, <3>1
    <3>3. s \in RemoteState
      <4>1. RemotePlace \in RemotePlaces
        BY <2>3 DEF RemotePlaces
      <4> QED  BY <1>1, <1>5, <4>1 DEF RemoteState, TypeInv
    <3>4. \/ /\ u = Index(INDEX_DONE)
             /\ q = [place |-> s.place, of |-> INDEX_DONE, echo |-> s.echo + 1]
          \/ /\ u.value \in Nat \ {0} /\ u.value # INDEX_DONE
             /\ q = [place |-> "flags", of |-> u.value, echo |-> s.echo]
      BY <3>2, <3>3, IndexTaken
    <3>5. CASE u = Index(INDEX_DONE) /\ q = [place |-> s.place, of |-> INDEX_DONE, echo |-> s.echo + 1]
      <4>1. u.value = INDEX_DONE
        BY <3>5, UnitShapes
      <4>2. receiving' = INDEX_DONE /\ echoed' = s.echo + 1 /\ RemotePlace' = s.place
        BY <1>6, <2>1, <2>3, <3>1, <3>2, <4>1
      <4> QED  BY <1>5, <3>5, <4>2
    <3>6. CASE u.value # INDEX_DONE /\ q = [place |-> "flags", of |-> u.value, echo |-> s.echo]
      <4>1. receiving' = u.value /\ echoed' = s.echo /\ RemotePlace' = "flags"
        BY <1>6, <2>1, <2>3, <3>1, <3>6
      <4> QED  BY <1>5, <3>6, <4>1
    <3> QED  BY <3>4, <3>5, <3>6
  <2> QED  BY <1>4, <2>1, <2>2, <2>4, OutwardReads
<1>16. CASE RemoteFlags
  <2>1. /\ rpc = "flags" /\ out # <<>> /\ out' = Tail(out) /\ UNCHANGED <<receiving, echoed>>
        /\ rpc' = IF Head(out).value = "wanted" THEN "file" ELSE "receive"
    BY <1>16 DEF RemoteFlags, RemoteReads, generator
  <2>2. ClientWritesAt' = ClientWritesAt
    BY <1>3, <2>1
  <2>3. RemotePlace = "flags" /\ RemotePlace' = IF Head(out).value = "wanted" THEN "file" ELSE "index"
    BY <2>1 DEF RemotePlace
  <2>4. ASSUME NEW q \in RemoteState, RemoteTakes(s, Head(out), q) PROVE q = RemoteAt'
    <3>1. \/ Head(out).value = "wanted" /\ q = MovesTo(s, "file")
          \/ Head(out).value = "unwanted" /\ q = MovesTo(s, "index")
      <4>1. PICK u : u = Head(out)
        OBVIOUS
      <4>2. RemoteTakes(s, u, q)
        BY <1>6, <2>4, <4>1
      <4>3. s.place = "flags"
        BY <1>6, <2>3
      <4> QED  BY <4>1, <4>3, <4>2, RemoteTakenAt
    <3> QED  BY <1>5, <1>6, <2>1, <2>3, <3>1
  <2> QED  BY <1>4, <2>1, <2>2, <2>4, OutwardReads
<1> QED  BY <1>7, <1>8, <1>9, <1>10, <1>11, <1>12, <1>13, <1>14, <1>15, <1>16 DEF Remote

(* What the client can take, and where that takes it. *)
LEMMA ClientCan ==
  ASSUME TypeInv, NEW s \in ClientState
  PROVE  /\ s.place = "greeting" =>
              <<s, Unit("version", connection.version),
                MovesTo(s, IF connection.daemon THEN "lines" ELSE Outcome)>> \in ClientSteps
         /\ s.place = "lines" =>
              /\ <<s, Unit("line", "text"), s>> \in ClientSteps
              /\ op # "listModules" =>
                   /\ <<s, Unit("line", "authreqd"), MovesTo(s, "authorizing")>> \in ClientSteps
                   /\ <<s, Unit("line", "ok"), MovesTo(s, "arguments")>> \in ClientSteps
              /\ op = "listModules" => <<s, Unit("line", "exit"), MovesTo(s, "end")>> \in ClientSteps
              /\ <<s, Unit("line", "error"), MovesTo(s, "end")>> \in ClientSteps
         /\ s.place = "compatibility" =>
              \A k \in Int : <<s, Unit("compatibility", k), MovesTo(s, "seed")>> \in ClientSteps
         /\ s.place = "seed" =>
              <<s, Just("seed"), MovesTo(s, IF Downloading THEN "entries" ELSE "index")>> \in ClientSteps
         /\ s.place = "entries" =>
              /\ <<s, Just("entry"), s>> \in ClientSteps
              /\ <<s, Just("end"), MovesTo(s, IF Agreed < 30 THEN "io error" ELSE "end")>> \in ClientSteps
         /\ s.place = "io error" => <<s, Just("io error"), MovesTo(s, "end")>> \in ClientSteps
         /\ s.place = "flags" =>
              /\ op = "upload" /\ s.left >= 3 =>
                   <<s, Unit("flags", "wanted"), MovesTo(s, "checksums")>> \in ClientSteps
              /\ <<s, Unit("flags", "unwanted"), MovesTo(s, "index")>> \in ClientSteps
         /\ s.place = "checksums" => <<s, Just("checksums"), MovesTo(s, "index")>> \in ClientSteps
<1>1. connection.version \in Int
  BY Agreement DEF TypeInv
<1>2. ASSUME NEW place \in ClientPlaces PROVE MovesTo(s, place) \in ClientState
  BY DEF MovesTo, ClientState
<1>3. /\ Outcome \in ClientPlaces
      /\ \A place \in {"lines", "authorizing", "arguments", "end", "seed", "entries", "index", "io error", "checksums"} :
           place \in ClientPlaces
  BY DEF Outcome, AfterVersion, ClientPlaces
<1>4. ASSUME NEW u \in Units, NEW t \in ClientState, ClientTakes(s, u, t)
      PROVE  <<s, u, t>> \in ClientSteps
  BY <1>4 DEF ClientSteps
<1> DEFINE N(kind) == Just(kind) \in Units /\ Just(kind).kind = kind
           T(kind, text) == /\ Unit(kind, text) \in Units /\ Unit(kind, text).kind = kind
                            /\ Unit(kind, text).value = text
<1>5. N("seed") /\ N("entry") /\ N("end") /\ N("io error") /\ N("checksums")
  <2>1. \A kind \in {"seed", "entry", "end", "io error", "checksums"} : kind \in Kinds \ {"version", "index"}
    BY DEF Kinds
  <2>2. \A kind \in Kinds \ {"version", "index"} : N(kind)
    BY UnitShapes
  <2> HIDE DEF N
  <2>3. \A kind \in {"seed", "entry", "end", "io error", "checksums"} : N(kind)
    BY <2>1, <2>2, Zenon
  <2> QED  BY <2>3
<1>6. /\ T("line", "text") /\ T("line", "authreqd") /\ T("line", "ok") /\ T("line", "exit") /\ T("line", "error")
      /\ T("flags", "wanted") /\ T("flags", "unwanted")
  <2>1. \A text \in {"text", "authreqd", "ok", "exit", "error", "wanted", "unwanted"} : text \in Texts
    BY DEF Texts
  <2>2. \A text \in Texts : T("line", text) /\ T("flags", text)
    BY UnitShapes
  <2> HIDE DEF T
  <2> QED  BY <2>1, <2>2
<1> HIDE DEF N, T
<1>7. CASE s.place = "greeting"
  <2>1. Unit("version", connection.version) \in Units
    BY <1>1, UnitShapes
  <2>2. MovesTo(s, IF connection.daemon THEN "lines" ELSE Outcome) \in ClientState
    BY <1>2, <1>3
  <2>3. ClientTakes(s, Unit("version", connection.version), MovesTo(s, IF connection.daemon THEN "lines" ELSE Outcome))
    BY <1>7 DEF ClientTakes, TakesSetUp
  <2> QED  BY <1>4, <1>7, <2>1, <2>2, <2>3
<1>8. CASE s.place = "lines"
  <2>1. <<s, Unit("line", "text"), s>> \in ClientSteps
    <3>1. ClientTakes(s, Unit("line", "text"), s)
      BY <1>6, <1>8 DEF ClientTakes, TakesSetUp, T
    <3> QED  BY <1>4, <1>6, <3>1 DEF T
  <2>2. op # "listModules" => <<s, Unit("line", "authreqd"), MovesTo(s, "authorizing")>> \in ClientSteps
    <3>1. op # "listModules" => ClientTakes(s, Unit("line", "authreqd"), MovesTo(s, "authorizing"))
      BY <1>6, <1>8 DEF ClientTakes, TakesSetUp, T
    <3> QED  BY <1>2, <1>3, <1>4, <1>6, <3>1 DEF T
  <2>3. op # "listModules" => <<s, Unit("line", "ok"), MovesTo(s, "arguments")>> \in ClientSteps
    <3>1. op # "listModules" => ClientTakes(s, Unit("line", "ok"), MovesTo(s, "arguments"))
      BY <1>6, <1>8 DEF ClientTakes, TakesSetUp, T
    <3> QED  BY <1>2, <1>3, <1>4, <1>6, <3>1 DEF T
  <2>4. op = "listModules" => <<s, Unit("line", "exit"), MovesTo(s, "end")>> \in ClientSteps
    <3>1. op = "listModules" => ClientTakes(s, Unit("line", "exit"), MovesTo(s, "end"))
      BY <1>6, <1>8 DEF ClientTakes, TakesSetUp, T
    <3> QED  BY <1>2, <1>3, <1>4, <1>6, <3>1 DEF T
  <2>5. <<s, Unit("line", "error"), MovesTo(s, "end")>> \in ClientSteps
    <3>1. ClientTakes(s, Unit("line", "error"), MovesTo(s, "end"))
      BY <1>6, <1>8 DEF ClientTakes, TakesSetUp, T
    <3> QED  BY <1>2, <1>3, <1>4, <1>6, <3>1 DEF T
  <2> QED  BY <1>8, <2>1, <2>2, <2>3, <2>4, <2>5
<1>9. CASE s.place = "compatibility"
  <2>1. ASSUME NEW k \in Int PROVE <<s, Unit("compatibility", k), MovesTo(s, "seed")>> \in ClientSteps
    <3>1. Unit("compatibility", k) \in Units /\ Unit("compatibility", k).kind = "compatibility"
      BY UnitShapes
    <3>2. ClientTakes(s, Unit("compatibility", k), MovesTo(s, "seed"))
      BY <1>9, <3>1 DEF ClientTakes, TakesSetUp
    <3> QED  BY <1>2, <1>3, <1>4, <3>1, <3>2
  <2> QED  BY <1>9, <2>1
<1>10. CASE s.place = "seed"
  <2>1. ClientTakes(s, Just("seed"), MovesTo(s, IF Downloading THEN "entries" ELSE "index"))
    BY <1>5, <1>10 DEF ClientTakes, TakesSetUp, N
  <2>2. MovesTo(s, IF Downloading THEN "entries" ELSE "index") \in ClientState
    BY <1>2, <1>3
  <2>3. <<s, Just("seed"), MovesTo(s, IF Downloading THEN "entries" ELSE "index")>> \in ClientSteps
    BY <1>4, <1>5, <2>1, <2>2 DEF N
  <2> QED  BY <1>10, <2>3
<1>11. CASE s.place = "entries"
  <2>1. <<s, Just("entry"), s>> \in ClientSteps
    <3>1. ClientTakes(s, Just("entry"), s)
      BY <1>5, <1>11 DEF ClientTakes, TakesList, N
    <3> QED  BY <1>4, <1>5, <3>1 DEF N
  <2>2. <<s, Just("end"), MovesTo(s, IF Agreed < 30 THEN "io error" ELSE "end")>> \in ClientSteps
    <3>1. ClientTakes(s, Just("end"), MovesTo(s, IF Agreed < 30 THEN "io error" ELSE "end"))
      BY <1>5, <1>11 DEF ClientTakes, TakesList, N
    <3>2. MovesTo(s, IF Agreed < 30 THEN "io error" ELSE "end") \in ClientState
      BY <1>2, <1>3
    <3> QED  BY <1>4, <1>5, <3>1, <3>2 DEF N
  <2> QED  BY <1>11, <2>1, <2>2
<1>12. CASE s.place = "io error"
  <2>1. ClientTakes(s, Just("io error"), MovesTo(s, "end"))
    BY <1>5, <1>12 DEF ClientTakes, TakesList, N
  <2>2. <<s, Just("io error"), MovesTo(s, "end")>> \in ClientSteps
    BY <1>2, <1>3, <1>4, <1>5, <2>1 DEF N
  <2> QED  BY <1>12, <2>2
<1>13. CASE s.place = "flags"
  <2>1. op = "upload" /\ s.left >= 3 => <<s, Unit("flags", "wanted"), MovesTo(s, "checksums")>> \in ClientSteps
    <3>1. op = "upload" /\ s.left >= 3 => ClientTakes(s, Unit("flags", "wanted"), MovesTo(s, "checksums"))
      BY <1>6, <1>13 DEF ClientTakes, TakesFlags, T
    <3> QED  BY <1>2, <1>3, <1>4, <1>6, <3>1 DEF T
  <2>2. <<s, Unit("flags", "unwanted"), MovesTo(s, "index")>> \in ClientSteps
    <3>1. ClientTakes(s, Unit("flags", "unwanted"), MovesTo(s, "index"))
      BY <1>6, <1>13 DEF ClientTakes, TakesFlags, T
    <3> QED  BY <1>2, <1>3, <1>4, <1>6, <3>1 DEF T
  <2> QED  BY <1>13, <2>1, <2>2
<1>14. CASE s.place = "checksums"
  <2>1. ClientTakes(s, Just("checksums"), MovesTo(s, "index"))
    BY <1>5, <1>14 DEF ClientTakes, TakesFlags, N
  <2>2. <<s, Just("checksums"), MovesTo(s, "index")>> \in ClientSteps
    BY <1>2, <1>3, <1>4, <1>5, <2>1 DEF N
  <2> QED  BY <1>14, <2>2
<1>15. CASE s.place \notin {"greeting", "lines", "compatibility", "seed", "entries", "io error", "flags", "checksums"}
  BY <1>15
<1> QED  BY <1>7, <1>8, <1>9, <1>10, <1>11, <1>12, <1>13, <1>14, <1>15

(* Steps of the remote side only add to what the client may take. *)
LEMMA ClientTakesMore ==
  ASSUME Inv, Remote
  PROVE  ClientSteps \subseteq ClientSteps'
<1>1. UNCHANGED constant /\ TypeInv
  BY RemoteKeeps DEF Inv
<1>2. /\ dones' \in {dones, dones + 1} /\ echoed' \in {echoed, echoed + 1} /\ wanted' \in {wanted, wanted + 1}
      /\ retried = TRUE => retried' = TRUE
      /\ asked' = asked \/ (dones = 0 /\ asked' = asked \cup {wanted})
  BY DEF Remote, RemoteGreets, RemoteNegotiates, RemoteModule, RemoteLines, RemoteResponse,
         RemoteArguments, RemoteSetsUp, RemoteFilter, RemoteList, RemoteIoError, RemoteGenerates,
         RemoteAsksAgain, RemoteDone, RemoteIndex, RemoteFlags, RemoteFile, RemoteSays, generator
<1>3. dones \in Nat /\ echoed \in Nat /\ wanted \in Nat
  BY <1>1 DEF TypeInv
<1>4. /\ dones' >= dones /\ echoed' >= echoed /\ wanted' >= wanted
      /\ dones' \in Nat /\ echoed' \in Nat /\ wanted' \in Nat
  BY <1>2, <1>3
<1> QED  BY <1>1, <1>2, <1>4, ClientMore

-----------------------------------------------------------------------------
(* Where the client will be is a state of it. *)
LEMMA WillBeState ==
  ASSUME TypeInv, NEW m \in Int
  PROVE  ClientWillBe(m) \in ClientState
<1>1. RemoteWritesAt \in ClientPlaces
  BY DEF RemoteWritesAt, ClientPlaces, Outcome, AfterVersion
<1>2. (IF op = "upload" THEN 4 - dones ELSE 4) \in Int
  BY DEF TypeInv
<1>3. redo \in SUBSET Int
  BY DEF TypeInv
<1> QED  BY <1>1, <1>2, <1>3 DEF ClientWillBe, ClientState

(* What the remote side writes leads on from where the client will be. *)
LEMMA InwardWrote ==
  ASSUME Inv, Remote, NEW units \in Seq(Units), in' = in \o units,
         ~Gone => ClientPlace' = ClientPlace,
         \A m \in Int :
           (op = "upload" /\ dones = 0 => m < wanted /\ \A j \in asked : j <= m) =>
             \E n \in Int :
               /\ Run(ClientSteps', units, ClientWillBe(m), ClientWillBe(n)')
               /\ op = "upload" /\ dones' = 0 => n < wanted' /\ \A j \in asked' : j <= n
  PROVE  InwardInv'
<1>1. /\ UNCHANGED <<pc, op, sent, phase, lastIndex, rounds, Gone>>
      /\ ClientSteps \subseteq ClientSteps' /\ InwardInv /\ in \in Seq(Units)
  BY RemoteSame, ClientTakesMore DEF Inv, TypeInv
<1>2. ASSUME ~Gone
      PROVE  \E l, m \in Int, g \in SUBSET Int :
               /\ Run(ClientSteps', in', ClientAt(l, g)', ClientWillBe(m)')
               /\ g \subseteq sent'
               /\ op' = "upload" /\ phase' = 0 => l = lastIndex'
               /\ op' = "upload" /\ dones' = 0 => m < wanted' /\ \A j \in asked' : j <= m
  <2>1. PICK l \in Int : \E m \in Int, g \in SUBSET Int :
          /\ Run(ClientSteps, in, ClientAt(l, g), ClientWillBe(m))
          /\ g \subseteq sent
          /\ op = "upload" /\ phase = 0 => l = lastIndex
          /\ op = "upload" /\ dones = 0 => m < wanted /\ \A j \in asked : j <= m
    BY <1>1, <1>2 DEF InwardInv
  <2>2. PICK m \in Int : \E g \in SUBSET Int :
          /\ Run(ClientSteps, in, ClientAt(l, g), ClientWillBe(m))
          /\ g \subseteq sent
          /\ op = "upload" /\ phase = 0 => l = lastIndex
          /\ op = "upload" /\ dones = 0 => m < wanted /\ \A j \in asked : j <= m
    BY <2>1
  <2>3. PICK g \in SUBSET Int :
          /\ Run(ClientSteps, in, ClientAt(l, g), ClientWillBe(m))
          /\ g \subseteq sent
          /\ op = "upload" /\ phase = 0 => l = lastIndex
          /\ op = "upload" /\ dones = 0 => m < wanted /\ \A j \in asked : j <= m
    BY <2>2
  <2>4. PICK n \in Int :
          /\ Run(ClientSteps', units, ClientWillBe(m), ClientWillBe(n)')
          /\ op = "upload" /\ dones' = 0 => n < wanted' /\ \A j \in asked' : j <= n
    BY <2>3
  <2>5. PICK S : S = ClientSteps'
    OBVIOUS
  <2>6. PICK s : s = ClientAt(l, g)
    OBVIOUS
  <2>7. PICK t : t = ClientWillBe(m)
    OBVIOUS
  <2>8. PICK u : u = ClientWillBe(n)'
    OBVIOUS
  <2>9. PICK v \in Seq(Units) : v = in
    BY <1>1
  <2>10. PICK R : R = ClientSteps
    OBVIOUS
  <2>11. Run(S, v, s, t)
    <3>1. R \subseteq S
      BY <1>1, <2>5, <2>10
    <3>2. Run(R, v, s, t)
      BY <2>3, <2>6, <2>7, <2>9, <2>10
    <3> QED  BY <3>1, <3>2, RunMore
  <2>12. Run(S, units, t, u)
    BY <2>4, <2>5, <2>7, <2>8
  <2>13. Run(S, v \o units, s, u)
    BY <2>11, <2>12, RunConcat
  <2>14. ClientAt(l, g)' = s
    <3>1. ClientPlace' = ClientPlace /\ ClientLeft' = ClientLeft
      BY <1>1, <1>2 DEF ClientLeft
    <3> HIDE DEF ClientPlace, ClientLeft
    <3> QED  BY <2>6, <3>1 DEF ClientAt
  <2>15. Run(ClientSteps', in', ClientAt(l, g)', ClientWillBe(n)')
    BY <2>5, <2>8, <2>9, <2>13, <2>14
  <2> QED  BY <1>1, <2>3, <2>4, <2>15
<1> QED  BY <1>1, <1>2 DEF InwardInv

(* A step of the remote side that writes nothing. *)
LEMMA InwardKeeps ==
  ASSUME Inv, Remote, in' = in, ~Gone => ClientPlace' = ClientPlace,
         RemoteWritesAt' = RemoteWritesAt, UNCHANGED <<dones, redo, asked>>, wanted' \in {wanted, wanted + 1}
  PROVE  InwardInv'
<1>1. UNCHANGED op /\ in \in Seq(Units) /\ wanted \in Int /\ wanted' >= wanted
  <2>1. wanted \in Int
    BY DEF Inv, TypeInv
  <2>2. UNCHANGED op /\ in \in Seq(Units)
    BY RemoteSame DEF Inv, TypeInv
  <2>3. wanted' >= wanted
    BY <2>1
  <2> QED  BY <2>1, <2>2, <2>3
<1>2. PICK units \in Seq(Units) : units = <<>>
  BY EmptySeq
<1>3. in' = in \o units
  BY <1>1, <1>2, ConcatEmptySeq
<1>4. ASSUME NEW m \in Int, op = "upload" /\ dones = 0 => m < wanted /\ \A j \in asked : j <= m
      PROVE  /\ Run(ClientSteps', units, ClientWillBe(m), ClientWillBe(m)')
             /\ op = "upload" /\ dones' = 0 => m < wanted' /\ \A j \in asked' : j <= m
  <2>1. ClientWillBe(m)' = ClientWillBe(m)
    BY <1>1 DEF ClientWillBe
  <2>2. PICK t : t = ClientWillBe(m)
    OBVIOUS
  <2>3. Run(ClientSteps', <<>>, t, t)
    BY RunNothing
  <2>4. op = "upload" /\ dones' = 0 => m < wanted' /\ \A j \in asked' : j <= m
    <3>1. ASSUME op = "upload", dones = 0 PROVE m < wanted' /\ \A j \in asked : j <= m
      BY <1>1, <1>4, <3>1
    <3> QED  BY <3>1
  <2> QED  BY <1>2, <2>1, <2>2, <2>3, <2>4
<1> QED  BY <1>3, <1>4, InwardWrote

(* The client, seen by a remote side that leaves its two questions alone. *)
LEMMA SamePlace ==
  ASSUME Inv, Remote, rpc \notin {"response", "arguments"}, rpc' \notin {"response", "arguments"}
  PROVE  ClientPlace' = ClientPlace
BY RemoteSame DEF ClientPlace

(* One unit more. *)
LEMMA InwardOne ==
  ASSUME Inv, Remote, NEW u \in Units, in' = in \o <<u>>,
         ~Gone => ClientPlace' = ClientPlace,
         \A m \in Int :
           (op = "upload" /\ dones = 0 => m < wanted /\ \A j \in asked : j <= m) =>
             \E n \in Int :
               /\ <<ClientWillBe(m), u, ClientWillBe(n)'>> \in ClientSteps'
               /\ op = "upload" /\ dones' = 0 => n < wanted' /\ \A j \in asked' : j <= n
  PROVE  InwardInv'
<1>1. PICK units \in Seq(Units) : units = <<u>>
  BY Few
<1>2. ASSUME NEW m \in Int, op = "upload" /\ dones = 0 => m < wanted /\ \A j \in asked : j <= m
      PROVE  \E n \in Int :
               /\ Run(ClientSteps', units, ClientWillBe(m), ClientWillBe(n)')
               /\ op = "upload" /\ dones' = 0 => n < wanted' /\ \A j \in asked' : j <= n
  <2>1. PICK n \in Int :
               /\ <<ClientWillBe(m), u, ClientWillBe(n)'>> \in ClientSteps'
               /\ op = "upload" /\ dones' = 0 => n < wanted' /\ \A j \in asked' : j <= n
    BY <1>2
  <2>2. Run(ClientSteps', <<u>>, ClientWillBe(m), ClientWillBe(n)')
    <3>1. PICK s : s = ClientWillBe(m)
      OBVIOUS
    <3>2. PICK t : t = ClientWillBe(n)'
      OBVIOUS
    <3>3. PICK S : S = ClientSteps'
      OBVIOUS
    <3>4. Run(S, <<u>>, s, t)
      BY <2>1, <3>1, <3>2, <3>3, RunOne
    <3> QED  BY <3>1, <3>2, <3>3, <3>4
  <2> QED  BY <1>1, <2>1, <2>2
<1> QED  BY <1>1, <1>2, InwardWrote

(* The set-up. *)
LEMMA SetUpInward ==
  ASSUME Inv, Remote, RemoteGreets \/ RemoteNegotiates \/ RemoteModule \/ RemoteLines \/ RemoteSetsUp
  PROVE  InwardInv'
<1>1. /\ TypeInv /\ PlaceInv /\ PromptInv /\ ProtocolInv /\ OutwardInv
      /\ UNCHANGED <<pc, op, connection, Gone, dones, redo, wanted, asked>>
      /\ Downloading' = Downloading /\ Agreed' = Agreed /\ Outcome' = Outcome
      /\ ClientSteps \subseteq ClientSteps'
  BY RemoteSame, ClientTakesMore
     DEF Inv, RemoteGreets, RemoteNegotiates, RemoteModule, RemoteLines, RemoteSays, RemoteSetsUp, generator
<1>2. CASE RemoteNegotiates \/ RemoteModule
  <2>1. /\ in' = in
        /\ \/ rpc = "version" /\ rpc' = IF connection.daemon THEN "module" ELSE "set up"
           \/ rpc = "module" /\ rpc' = "lines"
    BY <1>2 DEF RemoteNegotiates, RemoteModule
  <2>2. RemoteWritesAt' = RemoteWritesAt
    BY <1>1, <2>1 DEF RemoteWritesAt
  <2>3. ClientPlace' = ClientPlace
    BY <2>1, SamePlace
  <2> QED  BY <1>1, <2>1, <2>2, <2>3, InwardKeeps
<1>3. CASE RemoteGreets
  <2>1. /\ rpc = "start" /\ rpc' = "version" /\ in' = in \o <<Unit("version", rprotocol)>>
        /\ rprotocol = connection.version
    BY <1>1, <1>3 DEF RemoteGreets, RemoteWrites, ProtocolInv
  <2>2. ClientPlace' = ClientPlace
    BY <2>1, SamePlace
  <2>3. PICK u \in Units : u = Unit("version", connection.version)
    BY <1>1, UnitShapes, Agreement DEF TypeInv
  <2>4. ASSUME NEW m \in Int PROVE <<ClientWillBe(m), u, ClientWillBe(m)'>> \in ClientSteps'
    <3>1. PICK s \in ClientState : s = ClientWillBe(m)
      BY <1>1, WillBeState
    <3>2. s.place = "greeting" /\ RemoteWritesAt' = IF connection.daemon THEN "lines" ELSE Outcome
      BY <1>1, <2>1, <3>1 DEF ClientWillBe, RemoteWritesAt
    <3>3. ClientWillBe(m)' = MovesTo(s, RemoteWritesAt')
      BY <1>1, <3>1 DEF ClientWillBe, MovesTo
    <3>4. <<s, u, MovesTo(s, IF connection.daemon THEN "lines" ELSE Outcome)>> \in ClientSteps
      BY <1>1, <2>3, <3>2, ClientCan
    <3> QED  BY <1>1, <3>1, <3>2, <3>3, <3>4
  <2> QED  BY <1>1, <2>1, <2>2, <2>3, <2>4, InwardOne
<1>4. CASE RemoteLines
  <2> DEFINE P(text, next) ==
               /\ rpc = "lines" /\ rpc' = next /\ out' = out /\ in' = in \o <<Unit("line", text)>>
               /\ \/ text = "text" /\ next = "lines"
                  \/ text = "exit" /\ op = "listModules" /\ next = "gone"
                  \/ text = "authreqd" /\ op # "listModules" /\ next = "response"
                  \/ text = "ok" /\ op # "listModules" /\ next = "arguments"
                  \/ text = "error" /\ next = "gone"
  <2>0. PICK text, next : P(text, next)
    <3>1. \/ P("text", "lines") \/ P("exit", "gone") \/ P("authreqd", "response") \/ P("ok", "arguments")
          \/ P("error", "gone")
      BY <1>4 DEF RemoteLines, RemoteSays, RemoteWrites
    <3> HIDE DEF P
    <3> QED  BY <3>1
  <2>1. /\ rpc = "lines" /\ rpc' = next /\ out' = out /\ in' = in \o <<Unit("line", text)>>
        /\ \/ text = "text" /\ next = "lines"
           \/ text = "exit" /\ op = "listModules" /\ next = "gone"
           \/ text = "authreqd" /\ op # "listModules" /\ next = "response"
           \/ text = "ok" /\ op # "listModules" /\ next = "arguments"
           \/ text = "error" /\ next = "gone"
    BY <2>0
  <2> HIDE DEF P
  <2>2. ~Gone => ClientPlace' = ClientPlace
    <3>1. out = <<>> /\ (Gone \/ pc \in {"login", "lines"})
      BY <1>1, <2>1, ExpectNothing
    <3> QED  BY <1>1, <2>1, <3>1 DEF ClientPlace
  <2>3. PICK u \in Units : u = Unit("line", text)
    <3>1. text \in Texts
      BY <2>1 DEF Texts
    <3> QED  BY <3>1, UnitShapes
  <2>4. ASSUME NEW m \in Int PROVE <<ClientWillBe(m), u, ClientWillBe(m)'>> \in ClientSteps'
    <3>1. PICK s \in ClientState : s = ClientWillBe(m)
      BY <1>1, WillBeState
    <3>2. s.place = "lines"
      BY <2>1, <3>1 DEF ClientWillBe, RemoteWritesAt
    <3>3. ClientWillBe(m)' = MovesTo(s, RemoteWritesAt')
      BY <1>1, <3>1 DEF ClientWillBe, MovesTo
    <3>4. CASE text = "text"
      <4>1. rpc' = "lines"
        BY <2>1, <3>4
      <4>2. ClientWillBe(m)' = ClientWillBe(m)
        BY <1>1, <2>1, <4>1 DEF ClientWillBe, RemoteWritesAt
      <4>3. <<s, u, s>> \in ClientSteps
        BY <1>1, <2>3, <3>2, <3>4, ClientCan
      <4> QED  BY <1>1, <3>1, <4>2, <4>3
    <3>5. CASE text \in {"exit", "error"}
      <4>1. rpc' = "gone" /\ (text = "exit" => op = "listModules")
        BY <2>1, <3>5
      <4>2. RemoteWritesAt' = "end"
        BY <4>1 DEF RemoteWritesAt
      <4>3. <<s, u, MovesTo(s, "end")>> \in ClientSteps
        BY <1>1, <2>3, <3>2, <3>5, <4>1, ClientCan
      <4> QED  BY <1>1, <3>1, <3>3, <4>2, <4>3
    <3>6. CASE text = "authreqd"
      <4>1. rpc' = "response" /\ op # "listModules"
        BY <2>1, <3>6
      <4>2. RemoteWritesAt' = "authorizing"
        BY <4>1 DEF RemoteWritesAt
      <4>3. <<s, u, MovesTo(s, "authorizing")>> \in ClientSteps
        BY <1>1, <2>3, <3>2, <3>6, <4>1, ClientCan
      <4> QED  BY <1>1, <3>1, <3>3, <4>2, <4>3
    <3>7. CASE text = "ok"
      <4>1. rpc' = "arguments" /\ op # "listModules"
        BY <2>1, <3>7
      <4>2. RemoteWritesAt' = "arguments"
        BY <4>1 DEF RemoteWritesAt
      <4>3. <<s, u, MovesTo(s, "arguments")>> \in ClientSteps
        BY <1>1, <2>3, <3>2, <3>7, <4>1, ClientCan
      <4> QED  BY <1>1, <3>1, <3>3, <4>2, <4>3
    <3> QED  BY <2>1, <3>4, <3>5, <3>6, <3>7
  <2> QED  BY <1>1, <2>1, <2>2, <2>3, <2>4, InwardOne
<1>5. CASE RemoteSetsUp
  <2>1. PICK k \in {0, 1} :
          /\ in' = in \o ((IF rprotocol >= 30 THEN <<Unit("compatibility", k)>> ELSE <<>>) \o <<Just("seed")>>)
          /\ rpc = "set up" /\ rpc' = SetUp
    BY <1>5 DEF RemoteSetsUp, RemoteWrites, SetUp
  <2>2. rprotocol = Agreed /\ ClientPlace' = ClientPlace
    <3>1. SetUp \in {"filters", "list"}
      BY SetUpPlace
    <3> QED  BY <1>1, <2>1, <3>1, SamePlace DEF ProtocolInv
  <2>3. PICK c \in Units, v \in Units : c = Unit("compatibility", k) /\ v = Just("seed")
    <3>1. k \in Int /\ "seed" \in Kinds \ {"version", "index"}
      <4>1. k \in Int
        OBVIOUS
      <4>2. "seed" \in Kinds \ {"version", "index"}
        BY DEF Kinds
      <4> QED  BY <4>1, <4>2
    <3> QED  BY <3>1, UnitShapes
  <2>4. PICK x \in Seq(Units), y \in Seq(Units) : x = (IF Agreed >= 30 THEN <<c>> ELSE <<>>) /\ y = <<v>>
    <3>1. <<c>> \in Seq(Units) /\ <<v>> \in Seq(Units) /\ <<>> \in Seq(Units)
      BY Few
    <3> QED  BY <3>1
  <2>5. PICK units \in Seq(Units) : units = x \o y
    BY ConcatProperties
  <2>6. in' = in \o units
    BY <2>1, <2>2, <2>3, <2>4, <2>5
  <2>7. ASSUME NEW m \in Int PROVE Run(ClientSteps', units, ClientWillBe(m), ClientWillBe(m)')
    <3>1. PICK s \in ClientState : s = ClientWillBe(m)
      BY <1>1, WillBeState
    <3>2. s.place = Outcome /\ RemoteWritesAt' = IF Downloading THEN "entries" ELSE "index"
      <4>1. s.place = Outcome
        BY <2>1, <3>1 DEF ClientWillBe, RemoteWritesAt
      <4>2. CASE Downloading
        <5>1. rpc' = "filters"
          BY <2>1, <4>2 DEF SetUp
        <5> QED  BY <1>1, <4>1, <4>2, <5>1 DEF RemoteWritesAt
      <4>3. CASE ~Downloading
        <5>1. rpc' \in {"filters", "list"}
          BY <2>1, SetUpPlace
        <5> QED  BY <1>1, <4>1, <4>3, <5>1 DEF RemoteWritesAt
      <4> QED  BY <4>2, <4>3
    <3>3. PICK e : e = ClientWillBe(m)'
      OBVIOUS
    <3>4. e = MovesTo(s, RemoteWritesAt')
      BY <1>1, <3>1, <3>3 DEF ClientWillBe, MovesTo
    <3>5. PICK d \in ClientState : d.place = "seed" /\ Run(ClientSteps', x, s, d) /\ e = MovesTo(d, RemoteWritesAt')
      <4>1. CASE Agreed >= 30
        <5>1. s.place = "compatibility"
          BY <3>2, <4>1 DEF Outcome, AfterVersion
        <5>2. PICK d : d = MovesTo(s, "seed")
          OBVIOUS
        <5>3. <<s, c, d>> \in ClientSteps
          <6>1. k \in Int
            OBVIOUS
          <6>2. <<s, Unit("compatibility", k), MovesTo(s, "seed")>> \in ClientSteps
            BY <1>1, <5>1, <6>1, ClientCan
          <6> QED  BY <2>3, <5>2, <6>2
        <5>4. d \in ClientState /\ <<s, c, d>> \in ClientSteps'
          BY <1>1, <5>3 DEF ClientSteps
        <5>5. d.place = "seed" /\ MovesTo(d, RemoteWritesAt') = MovesTo(s, RemoteWritesAt')
          BY <5>2 DEF MovesTo, ClientState
        <5>6. Run(ClientSteps', <<c>>, s, d)
          BY <5>4, RunOne
        <5> QED  BY <2>4, <3>4, <4>1, <5>4, <5>5, <5>6
      <4>2. CASE ~(Agreed >= 30)
        <5>1. s.place = "seed"
          BY <3>2, <4>2 DEF Outcome, AfterVersion
        <5>2. Run(ClientSteps', <<>>, s, s)
          BY RunNothing
        <5> QED  BY <2>4, <3>4, <4>2, <5>1, <5>2
      <4> QED  BY <4>1, <4>2
    <3>6. <<d, v, e>> \in ClientSteps'
      <4>1. <<d, v, MovesTo(d, IF Downloading THEN "entries" ELSE "index")>> \in ClientSteps
        BY <1>1, <2>3, <3>5, ClientCan
      <4> QED  BY <1>1, <3>2, <3>5, <4>1
    <3>7. Run(ClientSteps', y, d, e)
      BY <2>4, <3>6, RunOne
    <3>8. Run(ClientSteps', x \o y, s, e)
      BY <3>5, <3>7, RunConcat
    <3> QED  BY <2>5, <3>1, <3>3, <3>8
  <2> QED  BY <1>1, <2>2, <2>6, <2>7, InwardWrote
<1> QED  BY <1>2, <1>3, <1>4, <1>5

(* The list that a sender sends. *)
LEMMA FilterInward ==
  ASSUME Inv, Remote, RemoteFilter
  PROVE  InwardInv'
<1>1. /\ TypeInv /\ ProtocolInv /\ rpc = "filters"
      /\ UNCHANGED <<op, dones, redo, wanted, asked>>
      /\ Downloading' = Downloading /\ ClientSteps \subseteq ClientSteps'
  BY RemoteSame, ClientTakesMore DEF Inv, RemoteFilter, generator
<1>2. rprotocol = Agreed
  BY <1>1 DEF ProtocolInv
<1>3. CASE in' = in /\ (rpc' = "filters" \/ (~Downloading /\ rpc' = "list"))
  <2>1. ClientPlace' = ClientPlace
    BY <1>1, <1>3, SamePlace
  <2>2. RemoteWritesAt' = RemoteWritesAt
    BY <1>1, <1>3 DEF RemoteWritesAt
  <2> QED  BY <1>1, <1>3, <2>1, <2>2, InwardKeeps
<1>4. CASE /\ Downloading /\ rpc' = "serve"
           /\ in' = in \o (Entries(2) \o <<Just("end")>>
                             \o (IF rprotocol < 30 THEN <<Just("io error")>> ELSE <<>>))
  <2>1. ClientPlace' = ClientPlace
    BY <1>1, <1>4, SamePlace
  <2>2. RemoteWritesAt = "entries" /\ RemoteWritesAt' = "end"
    BY <1>1, <1>4 DEF RemoteWritesAt
  <2>3. PICK u \in Units, v \in Units, w \in Units :
          u = Just("entry") /\ v = Just("end") /\ w = Just("io error")
    BY UnitShapes DEF Kinds
  <2>4. PICK n \in Nat : n = 2
    OBVIOUS
  <2>5. PICK x \in Seq(Units) : x = Entries(n) /\ Len(x) = n /\ \A k \in 1 .. n : x[k] = u
    BY <2>3, ListUnits
  <2>6. PICK y \in Seq(Units), z \in Seq(Units) : y = <<v>> /\ z = IF Agreed < 30 THEN <<w>> ELSE <<>>
    <3>1. <<v>> \in Seq(Units) /\ <<w>> \in Seq(Units) /\ <<>> \in Seq(Units)
      BY Few
    <3> QED  BY <3>1
  <2>7. PICK units \in Seq(Units) : units = (x \o y) \o z
    BY ConcatProperties
  <2>8. in' = in \o units
    BY <1>2, <1>4, <2>3, <2>4, <2>5, <2>6, <2>7
  <2>9. ASSUME NEW m \in Int PROVE Run(ClientSteps', units, ClientWillBe(m), ClientWillBe(m)')
    <3>1. PICK s \in ClientState : s = ClientWillBe(m)
      BY <1>1, WillBeState
    <3>2. s.place = "entries"
      BY <2>2, <3>1 DEF ClientWillBe
    <3>3. PICK e : e = ClientWillBe(m)'
      OBVIOUS
    <3>4. e = MovesTo(s, "end")
      BY <1>1, <2>2, <3>1, <3>3 DEF ClientWillBe, MovesTo
    <3>5. <<s, u, s>> \in ClientSteps'
      <4>1. <<s, u, s>> \in ClientSteps
        BY <1>1, <2>3, <3>2, ClientCan
      <4> QED  BY <1>1, <4>1
    <3>6. PICK place \in {"io error", "end"} : place = IF Agreed < 30 THEN "io error" ELSE "end"
      OBVIOUS
    <3>7. PICK d : d = MovesTo(s, place)
      OBVIOUS
    <3>8. <<s, v, d>> \in ClientSteps
      <4>1. <<s, v, MovesTo(s, IF Agreed < 30 THEN "io error" ELSE "end")>> \in ClientSteps
        BY <1>1, <2>3, <3>2, ClientCan
      <4> QED  BY <3>6, <3>7, <4>1
    <3>9. d \in ClientState /\ <<s, v, d>> \in ClientSteps'
      BY <1>1, <3>8 DEF ClientSteps
    <3>10. d.place = place /\ MovesTo(d, "end") = e
      BY <3>4, <3>7 DEF MovesTo, ClientState
    <3>11. Run(ClientSteps', z, d, e)
      <4>1. CASE Agreed < 30
        <5>1. d.place = "io error"
          BY <3>6, <3>10, <4>1
        <5>2. <<d, w, MovesTo(d, "end")>> \in ClientSteps
          BY <1>1, <2>3, <3>9, <5>1, ClientCan
        <5>3. <<d, w, e>> \in ClientSteps'
          BY <1>1, <3>10, <5>2
        <5>4. Run(ClientSteps', <<w>>, d, e)
          BY <5>3, RunOne
        <5> QED  BY <2>6, <4>1, <5>4
      <4>2. CASE ~(Agreed < 30)
        <5>1. d = e
          BY <3>4, <3>6, <3>7, <4>2
        <5>2. Run(ClientSteps', <<>>, d, e)
          BY <5>1, RunNothing
        <5> QED  BY <2>6, <4>2, <5>2
      <4> QED  BY <4>1, <4>2
    <3>12. Run(ClientSteps', x, s, s)
      BY <2>5, <3>5, RunSame
    <3>13. Run(ClientSteps', y, s, d)
      BY <2>6, <3>9, RunOne
    <3>14. Run(ClientSteps', x \o y, s, d) /\ x \o y \in Seq(Units)
      BY <3>12, <3>13, RunConcat, ConcatProperties
    <3>15. Run(ClientSteps', (x \o y) \o z, s, e)
      BY <3>11, <3>14, RunConcat
    <3> QED  BY <2>7, <3>1, <3>3, <3>15
  <2> QED  BY <1>1, <2>1, <2>8, <2>9, InwardWrote
<1> QED  BY <1>3, <1>4 DEF RemoteFilter, RemoteWrites

(* Its receiver, as long as it asks for nothing. *)
LEMMA ReceiverInward ==
  ASSUME Inv, Remote,
         RemoteList \/ RemoteIoError \/ RemoteIndex \/ RemoteFlags \/ (RemoteFile /\ UNCHANGED redo)
  PROVE  InwardInv'
<1>1. UNCHANGED <<in, dones, redo, wanted, asked>>
  BY DEF RemoteList, RemoteIoError, RemoteIndex, RemoteFlags, RemoteFile, generator
<1>2. \/ /\ rpc \in {"list", "io error", "receive", "flags", "file"}
         /\ rpc' \in {"list", "io error", "receive", "flags", "file"}
      \/ rpc = "serve" /\ rpc' = "serve"
  <2>1. CASE RemoteList \/ RemoteIoError \/ RemoteFlags \/ RemoteFile
    BY <2>1 DEF RemoteList, RemoteIoError, RemoteFlags, RemoteFile
  <2>2. CASE RemoteIndex
    <3>1. /\ rpc \in {"receive", "serve"} /\ out # <<>>
          /\ rpc' = IF Head(out).value = INDEX_DONE THEN rpc ELSE "flags"
      BY <2>2 DEF RemoteIndex, RemoteReads
    <3>2. TypeInv /\ PlaceInv /\ OutwardInv
      BY DEF Inv
    <3>3. Head(out).value # INDEX_DONE => ~Downloading
      BY <3>1, <3>2, ExpectRemoteIndex
    <3>4. rpc = "serve" => Downloading
      BY <3>2 DEF PlaceInv
    <3> QED  BY <3>1, <3>3, <3>4
  <2> QED  BY <2>1, <2>2
<1>3. ClientPlace' = ClientPlace
  BY <1>2, SamePlace
<1>4. RemoteWritesAt' = RemoteWritesAt
  BY <1>2 DEF RemoteWritesAt
<1> QED  BY <1>1, <1>3, <1>4, InwardKeeps

(* The two questions that are answered before anything else is said. *)
LEMMA AnswerInward ==
  ASSUME Inv, Remote, RemoteResponse \/ RemoteArguments
  PROVE  InwardInv'
<1>1. /\ TypeInv /\ PlaceInv /\ PromptInv /\ OutwardInv /\ InwardInv /\ in \in Seq(Units)
      /\ UNCHANGED <<pc, op, connection, Gone, sent, phase, lastIndex, rounds, dones, redo, wanted, asked>>
      /\ Outcome' = Outcome /\ ClientSteps \subseteq ClientSteps'
      /\ out # <<>> /\ out' = Tail(out)
  BY RemoteSame, ClientTakesMore DEF Inv, TypeInv, RemoteResponse, RemoteArguments, RemoteReads, generator
<1>2. ASSUME Gone PROVE InwardInv'
  BY <1>1, <1>2 DEF InwardInv
<1>3. ASSUME ~Gone, NEW place \in {"authorizing", "arguments"}, ClientPlace = place
      PROVE  \E m \in Int, g \in SUBSET Int :
               /\ in = <<>> /\ ClientAt(m, g) = ClientWillBe(m)
               /\ g \subseteq sent
               /\ op = "upload" /\ phase = 0 => m = lastIndex
               /\ op = "upload" /\ dones = 0 => m < wanted /\ \A j \in asked : j <= m
  <2>1. PICK l \in Int : \E m \in Int, g \in SUBSET Int :
          /\ Run(ClientSteps, in, ClientAt(l, g), ClientWillBe(m))
          /\ g \subseteq sent
          /\ op = "upload" /\ phase = 0 => l = lastIndex
          /\ op = "upload" /\ dones = 0 => m < wanted /\ \A j \in asked : j <= m
    BY <1>1, <1>3 DEF InwardInv
  <2>2. PICK m \in Int : \E g \in SUBSET Int :
          /\ Run(ClientSteps, in, ClientAt(l, g), ClientWillBe(m))
          /\ g \subseteq sent
          /\ op = "upload" /\ phase = 0 => l = lastIndex
          /\ op = "upload" /\ dones = 0 => m < wanted /\ \A j \in asked : j <= m
    BY <2>1
  <2>3. PICK g \in SUBSET Int :
          /\ Run(ClientSteps, in, ClientAt(l, g), ClientWillBe(m))
          /\ g \subseteq sent
          /\ op = "upload" /\ phase = 0 => l = lastIndex
          /\ op = "upload" /\ dones = 0 => m < wanted /\ \A j \in asked : j <= m
    BY <2>2
  <2>4. PICK s : s = ClientAt(l, g)
    OBVIOUS
  <2>5. PICK t : t = ClientWillBe(m)
    OBVIOUS
  <2>6. s.place = place /\ s.last = l
    BY <1>3, <2>4, PlaceOf
  <2>7. PICK w \in Seq(Units) : w = in
    BY <1>1
  <2>8. Run(ClientSteps, w, s, t)
    BY <2>3, <2>4, <2>5, <2>7
  <2>9. w = <<>> /\ s = t
    BY <2>6, <2>8, ClientWaits
  <2>10. l = m
    BY <2>5, <2>6, <2>9, PlaceOf
  <2>11. in = <<>> /\ ClientAt(m, g) = ClientWillBe(m)
    BY <2>4, <2>5, <2>7, <2>9, <2>10
  <2> QED  BY <2>3, <2>10, <2>11
<1>4. ASSUME ~Gone, ClientPlace \in {"authorizing", "arguments"},
             NEW units \in Seq(Units), in' = in \o units,
             \A s \in ClientState :
               Run(ClientSteps', units, MovesTo(s, ClientPlace'), MovesTo(s, RemoteWritesAt'))
      PROVE  InwardInv'
  <2>1. PICK m \in Int : \E g \in SUBSET Int :
               /\ in = <<>> /\ ClientAt(m, g) = ClientWillBe(m)
               /\ g \subseteq sent
               /\ op = "upload" /\ phase = 0 => m = lastIndex
               /\ op = "upload" /\ dones = 0 => m < wanted /\ \A j \in asked : j <= m
    BY <1>3, <1>4
  <2>2. PICK g \in SUBSET Int :
               /\ in = <<>> /\ ClientAt(m, g) = ClientWillBe(m)
               /\ g \subseteq sent
               /\ op = "upload" /\ phase = 0 => m = lastIndex
               /\ op = "upload" /\ dones = 0 => m < wanted /\ \A j \in asked : j <= m
    BY <2>1
  <2>3. PICK s \in ClientState : s = ClientWillBe(m)
    BY <1>1, WillBeState
  <2>4. ClientWillBe(m)' = MovesTo(s, RemoteWritesAt')
    BY <1>1, <2>3 DEF ClientWillBe, MovesTo
  <2>5. ClientAt(m, g)' = MovesTo(s, ClientPlace')
    <3>1. s = ClientAt(m, g) /\ ClientLeft' = ClientLeft
      BY <1>1, <2>2, <2>3 DEF ClientLeft
    <3> HIDE DEF ClientPlace, ClientLeft
    <3> QED  BY <3>1 DEF ClientAt, MovesTo
  <2>6. in' = units
    BY <1>4, <2>2
  <2>7. Run(ClientSteps', units, MovesTo(s, ClientPlace'), MovesTo(s, RemoteWritesAt'))
    BY <1>4
  <2>8. Run(ClientSteps', in', ClientAt(m, g)', ClientWillBe(m)')
    BY <2>4, <2>5, <2>6, <2>7
  <2> QED  BY <1>1, <2>2, <2>8 DEF InwardInv
<1>5. CASE RemoteResponse /\ ~Gone
  <2>1. PICK text, next : /\ rpc = "response" /\ rpc' = next /\ in' = in \o <<Unit("line", text)>>
                          /\ (text = "ok" /\ next = "arguments") \/ (text = "error" /\ next = "gone")
    <3> DEFINE P(text, next) ==
                 /\ rpc = "response" /\ rpc' = next /\ in' = in \o <<Unit("line", text)>>
                 /\ (text = "ok" /\ next = "arguments") \/ (text = "error" /\ next = "gone")
    <3>1. P("ok", "arguments") \/ P("error", "gone")
      BY <1>5 DEF RemoteResponse, RemoteWrites
    <3>2. \E text, next : P(text, next)
      <4> HIDE DEF P
      <4> QED  BY <3>1
    <3> QED  BY <3>2
  <2>2. pc = "lines" /\ op # "listModules"
    <3>1. pc = "lines"
      BY <1>1, <1>5, <2>1, ExpectResponse
    <3> QED  BY <1>1, <2>1, <3>1 DEF PlaceInv
  <2>3. ClientPlace = "authorizing" /\ ClientPlace' = "lines"
    BY <1>1, <2>1, <2>2 DEF ClientPlace
  <2>4. PICK u \in Units : u = Unit("line", text)
    <3>1. text \in Texts
      BY <2>1 DEF Texts
    <3> QED  BY <3>1, UnitShapes
  <2>5. PICK units \in Seq(Units) : units = <<u>>
    BY Few
  <2>6. ASSUME NEW s \in ClientState
        PROVE  Run(ClientSteps', units, MovesTo(s, ClientPlace'), MovesTo(s, RemoteWritesAt'))
    <3>1. PICK q \in ClientState : q = MovesTo(s, "lines")
      BY DEF MovesTo, ClientState, ClientPlaces
    <3>2. q.place = "lines" /\ \A place : MovesTo(q, place) = MovesTo(s, place)
      BY <3>1 DEF MovesTo, ClientState
    <3>3. <<q, u, MovesTo(q, RemoteWritesAt')>> \in ClientSteps
      <4>1. CASE text = "ok" /\ next = "arguments"
        <5>1. RemoteWritesAt' = "arguments"
          BY <2>1, <4>1 DEF RemoteWritesAt
        <5> QED  BY <1>1, <2>2, <2>4, <3>2, <4>1, <5>1, ClientCan
      <4>2. CASE text = "error" /\ next = "gone"
        <5>1. RemoteWritesAt' = "end"
          BY <2>1, <4>2 DEF RemoteWritesAt
        <5> QED  BY <1>1, <2>2, <2>4, <3>2, <4>2, <5>1, ClientCan
      <4> QED  BY <2>1, <4>1, <4>2
    <3>4. PICK e : e = MovesTo(s, RemoteWritesAt')
      OBVIOUS
    <3>5. <<q, u, e>> \in ClientSteps'
      BY <1>1, <3>2, <3>3, <3>4
    <3>6. Run(ClientSteps', <<u>>, q, e)
      BY <3>5, RunOne
    <3> QED  BY <2>3, <2>5, <3>1, <3>4, <3>6
  <2>7. in' = in \o units
    BY <2>1, <2>4, <2>5
  <2> QED  BY <1>4, <1>5, <2>3, <2>6, <2>7
<1>6. CASE RemoteArguments /\ ~Gone
  <2>1. rpc = "arguments" /\ rpc' = "set up" /\ in' = in
    BY <1>6 DEF RemoteArguments
  <2>2. pc = Outcome
    BY <1>1, <1>6, <2>1 DEF PromptInv, Gone
  <2>3. Outcome \in {"compatibility", "seed"}
    BY DEF Outcome, AfterVersion
  <2>4. ClientPlace = "arguments" /\ ClientPlace' = Outcome
    BY <1>1, <2>1, <2>2, <2>3 DEF ClientPlace
  <2>5. RemoteWritesAt' = Outcome
    BY <1>1, <2>1 DEF RemoteWritesAt
  <2>6. PICK units \in Seq(Units) : units = <<>>
    BY EmptySeq
  <2>7. in' = in \o units
    BY <1>1, <2>1, <2>6, ConcatEmptySeq
  <2>8. ASSUME NEW s \in ClientState
        PROVE  Run(ClientSteps', units, MovesTo(s, ClientPlace'), MovesTo(s, RemoteWritesAt'))
    <3>1. PICK e : e = MovesTo(s, ClientPlace')
      OBVIOUS
    <3>2. e = MovesTo(s, RemoteWritesAt')
      BY <2>4, <2>5, <3>1
    <3>3. Run(ClientSteps', <<>>, e, e)
      BY RunNothing
    <3> QED  BY <2>6, <3>1, <3>2, <3>3
  <2> QED  BY <1>4, <1>6, <2>4, <2>7, <2>8
<1> QED  BY <1>2, <1>5, <1>6

-----------------------------------------------------------------------------
(* What the generator asks for, and says that it does not want. *)
LEMMA GeneratorKeeps ==
  ASSUME Inv, Remote, RemoteGenerates \/ RemoteAsksAgain \/ RemoteDone
  PROVE  /\ TypeInv /\ PlaceInv /\ TypeInv' /\ UNCHANGED <<op, rpc, echoed>> /\ ClientPlace' = ClientPlace
         /\ rpc \in {"receive", "flags", "file"} /\ RemoteWritesAt = "index" /\ RemoteWritesAt' = "index"
         /\ ClientSteps \subseteq ClientSteps'
         /\ dones \in Nat /\ wanted \in Nat \ {0} /\ asked \subseteq Nat /\ redo \subseteq Nat \ {0}
<1>1. TypeInv /\ PlaceInv /\ TypeInv' /\ UNCHANGED op /\ ClientSteps \subseteq ClientSteps'
  BY RemoteSame, RemoteTypes, ClientTakesMore DEF Inv
<1>2. UNCHANGED <<rpc, echoed>> /\ rpc \in {"receive", "flags", "file"}
  BY DEF RemoteGenerates, RemoteAsksAgain, RemoteDone, Generating
<1>3. RemoteWritesAt = "index" /\ RemoteWritesAt' = "index"
  BY <1>2 DEF RemoteWritesAt
<1>4. ClientPlace' = ClientPlace
  BY <1>2, SamePlace
<1> QED  BY <1>1, <1>2, <1>3, <1>4 DEF TypeInv

(* Indices, and what comes with them. *)
LEMMA RequestParts ==
  ASSUME NEW k \in Nat \ {0}
  PROVE  \E u, v, w, x \in Units :
           /\ u = Index(k) /\ u.kind = "index" /\ u.value = k
           /\ v = Unit("flags", "unwanted") /\ w = Unit("flags", "wanted") /\ x = Just("checksums")
           /\ Item(k) = <<u, v>> /\ Request(k) = <<u, w, x>>
<1>1. Index(k) \in Units /\ Index(k).kind = "index" /\ Index(k).value = k
  BY UnitShapes
<1>2. Unit("flags", "unwanted") \in Units /\ Unit("flags", "wanted") \in Units
  BY UnitShapes DEF Texts
<1>3. Just("checksums") \in Units
  <2>1. "checksums" \in Kinds \ {"version", "index"}
    BY DEF Kinds
  <2> QED  BY <2>1, UnitShapes
<1> QED  BY <1>1, <1>2, <1>3 DEF Item, Request

(* A client that has taken an index takes what comes with it. *)
LEMMA TakesTheRest ==
  ASSUME TypeInv, ClientSteps \subseteq ClientSteps', NEW k \in Nat \ {0},
         NEW s, NEW q \in ClientState, <<s, Index(k), q>> \in ClientSteps', q.place = "flags",
         NEW e, e = MovesTo(q, "index")
  PROVE  /\ Run(ClientSteps', Item(k), s, e)
         /\ op = "upload" /\ q.left >= 3 => Run(ClientSteps', Request(k), s, e)
<1>1. PICK u, v, w, x \in Units :
           /\ u = Index(k) /\ u.kind = "index" /\ u.value = k
           /\ v = Unit("flags", "unwanted") /\ w = Unit("flags", "wanted") /\ x = Just("checksums")
           /\ Item(k) = <<u, v>> /\ Request(k) = <<u, w, x>>
  BY RequestParts
<1>2. Run(ClientSteps', <<u, v>>, s, e)
  <2>1. <<q, v, e>> \in ClientSteps
    BY <1>1, ClientCan
  <2>2. <<q, v, e>> \in ClientSteps' /\ <<s, u, q>> \in ClientSteps'
    BY <1>1, <2>1
  <2> QED  BY <2>2, RunTwo
<1>3. ASSUME op = "upload", q.left >= 3 PROVE Run(ClientSteps', <<u, w, x>>, s, e)
  <2>1. PICK c : c = MovesTo(q, "checksums")
    OBVIOUS
  <2>2. <<q, w, c>> \in ClientSteps
    BY <1>1, <1>3, <2>1, ClientCan
  <2>3. c \in ClientState
    BY <2>2 DEF ClientSteps
  <2>4. c.place = "checksums" /\ MovesTo(c, "index") = e
    BY <2>1 DEF MovesTo, ClientState
  <2>5. <<c, x, e>> \in ClientSteps
    BY <1>1, <2>3, <2>4, ClientCan
  <2>6. <<s, u, q>> \in ClientSteps' /\ <<q, w, c>> \in ClientSteps' /\ <<c, x, e>> \in ClientSteps'
    BY <1>1, <2>2, <2>5
  <2> QED  BY <2>6, RunThree
<1> QED  BY <1>1, <1>2, <1>3

(* The generator decides about the next file of the first phase. *)
LEMMA GeneratesInward ==
  ASSUME Inv, Remote, RemoteGenerates, LinkIsSilent
  PROVE  InwardInv'
<1>1. /\ TypeInv /\ PlaceInv /\ TypeInv' /\ UNCHANGED <<op, rpc, echoed>> /\ ClientPlace' = ClientPlace
      /\ rpc \in {"receive", "flags", "file"} /\ RemoteWritesAt = "index" /\ RemoteWritesAt' = "index"
      /\ ClientSteps \subseteq ClientSteps'
      /\ dones \in Nat /\ wanted \in Nat \ {0} /\ asked \subseteq Nat /\ redo \subseteq Nat \ {0}
  BY GeneratorKeeps
<1>2. UNCHANGED <<dones, redo>> /\ dones = 0 /\ wanted' = wanted + 1
  BY DEF RemoteGenerates
<1>3. CASE UNCHANGED <<in, asked>>
  <2>1. wanted' \in {wanted, wanted + 1} /\ RemoteWritesAt' = RemoteWritesAt
    BY <1>1, <1>2
  <2> QED  BY <1>1, <1>2, <1>3, <2>1, InwardKeeps
<1>4. CASE /\ asked' = asked \cup {wanted}
           /\ \/ (op = "upload" \/ op \in Itemized) /\ in' = in \o Item(wanted)
              \/ op = "upload" /\ in' = in \o Request(wanted)
  <2>1. PICK k \in Nat \ {0} : k = wanted
    BY <1>1
  <2>2. PICK u \in Units : u = Index(k) /\ u.kind = "index" /\ u.value = k
    BY RequestParts
  <2>3. op \notin {"link"}
    <3>1. op # "upload" => op \in Itemized
      BY <1>4
    <3> QED  BY <3>1 DEF LinkIsSilent
  <2>4. PICK units \in Seq(Units) :
          /\ in' = in \o units
          /\ units = Item(k) \/ (op = "upload" /\ units = Request(k))
    <3>1. Item(k) \in Seq(Units) /\ Request(k) \in Seq(Units)
      BY RequestUnits
    <3> QED  BY <1>4, <2>1, <3>1
  <2>5. ASSUME NEW m \in Int, op = "upload" /\ dones = 0 => m < wanted /\ \A j \in asked : j <= m
        PROVE  \E n \in Int :
               /\ Run(ClientSteps', units, ClientWillBe(m), ClientWillBe(n)')
               /\ op = "upload" /\ dones' = 0 => n < wanted' /\ \A j \in asked' : j <= n
    <3>1. PICK s \in ClientState : s = ClientWillBe(m)
      BY <1>1, WillBeState
    <3>2. s.place = "index" /\ s.left = 4 /\ s.last = m
      BY <1>1, <1>2, <3>1, PlaceOf
    <3>3. PICK n \in Int : n = IF op = "upload" THEN k ELSE m
      OBVIOUS
    <3>4. PICK q : q = [s EXCEPT !.place = "flags", !.last = n]
      OBVIOUS
    <3>5. q \in ClientState /\ q.place = "flags" /\ q.left = 4
      <4>1. "flags" \in ClientPlaces
        BY DEF ClientPlaces
      <4> QED  BY <3>2, <3>4, <4>1 DEF ClientState
    <3>6. PICK e : e = ClientWillBe(n)'
      OBVIOUS
    <3>7. e = MovesTo(q, "index")
      <4>1. s = [place |-> RemoteWritesAt, left |-> s.left, last |-> m, again |-> redo]
        BY <1>2, <3>1 DEF ClientWillBe
      <4>2. e = [place |-> "index", left |-> s.left, last |-> n, again |-> redo]
        BY <1>1, <1>2, <3>1, <3>6 DEF ClientWillBe
      <4>3. MovesTo(q, "index") \in ClientState
        <5>1. "index" \in ClientPlaces
          BY DEF ClientPlaces
        <5> QED  BY <3>5, <5>1 DEF ClientState, MovesTo
      <4>4. /\ MovesTo(q, "index").place = "index" /\ MovesTo(q, "index").left = s.left
            /\ MovesTo(q, "index").last = n /\ MovesTo(q, "index").again = redo
        <5>1. q.left = s.left /\ q.last = n /\ q.again = s.again
          BY <3>4 DEF ClientState
        <5>2. s.again = redo
          BY <3>1, PlaceOf
        <5> QED  BY <3>5, <5>1, <5>2, Moved
      <4>5. \A r \in ClientState : r = [place |-> r.place, left |-> r.left, last |-> r.last, again |-> r.again]
        BY DEF ClientState
      <4> QED  BY <4>2, <4>3, <4>4, <4>5
    <3>8. <<s, u, q>> \in ClientSteps'
      <4>1. CASE op = "upload"
        <5>1. m < k /\ k < wanted' /\ k \in asked' /\ n = k
          BY <1>2, <1>4, <2>1, <2>5, <3>3, <4>1
        <5>2. \A j \in asked' : j <= m \/ k <= j
          BY <1>2, <1>4, <2>1, <2>5, <4>1
        <5>3. TakesFirst(s, k, q)'
          BY <3>2, <3>4, <5>1, <5>2 DEF TakesFirst
        <5>4. ClientTakes(s, u, q)'
          BY <1>1, <2>2, <3>2, <4>1, <5>3 DEF ClientTakes, TakesIndex
        <5> QED  BY <3>5, <5>4 DEF ClientSteps
      <4>2. CASE op # "upload"
        <5>1. q = MovesTo(s, "flags")
          <6>1. MovesTo(s, "flags") \in ClientState
            <7>1. "flags" \in ClientPlaces
              BY DEF ClientPlaces
            <7> QED  BY <7>1 DEF ClientState, MovesTo
          <6>2. q.again = s.again /\ q.last = s.last /\ q.left = s.left
            BY <3>2, <3>3, <3>4, <4>2 DEF ClientState
          <6>3. \A r \in ClientState : r = [place |-> r.place, left |-> r.left, last |-> r.last, again |-> r.again]
            BY DEF ClientState
          <6> QED  BY <3>5, <6>1, <6>2, <6>3, Moved
        <5>2. ClientTakes(s, u, q)'
          BY <1>1, <2>2, <2>3, <3>2, <4>2, <5>1 DEF ClientTakes, TakesIndex
        <5> QED  BY <3>5, <5>2 DEF ClientSteps
      <4> QED  BY <4>1, <4>2
    <3>9. <<s, Index(k), q>> \in ClientSteps'
      BY <2>2, <3>8
    <3>10. Run(ClientSteps', units, s, e)
      <4>1. CASE units = Item(k)
        BY <1>1, <3>5, <3>7, <3>9, <4>1, TakesTheRest
      <4>2. CASE op = "upload" /\ units = Request(k)
        BY <1>1, <3>5, <3>7, <3>9, <4>2, TakesTheRest
      <4> QED  BY <2>4, <4>1, <4>2
    <3>11. op = "upload" => n < wanted' /\ \A j \in asked' : j <= n
      <4>1. ASSUME op = "upload" PROVE n < wanted' /\ \A j \in asked' : j <= n
        <5>1. n = k /\ k < wanted' /\ m < k
          BY <1>2, <2>1, <2>5, <3>3, <4>1
        <5>2. ASSUME NEW j \in asked' PROVE j <= k
          <6>1. j \in asked \/ j = k
            BY <1>4, <2>1
          <6>2. j \in asked => j <= m /\ j \in Nat
            BY <1>1, <1>2, <2>5, <4>1
          <6> QED  BY <5>1, <6>1, <6>2
        <5> QED  BY <5>1, <5>2
      <4> QED  BY <4>1
    <3> QED  BY <3>1, <3>6, <3>10, <3>11
  <2> QED  BY <1>1, <2>4, <2>5, InwardWrote
<1> QED  BY <1>3, <1>4 DEF RemoteGenerates, RemoteWrites

(* The generator asks for a file once more. *)
LEMMA AsksAgainInward ==
  ASSUME Inv, Remote, RemoteAsksAgain
  PROVE  InwardInv'
<1>1. /\ TypeInv /\ PlaceInv /\ TypeInv' /\ UNCHANGED <<op, rpc, echoed>> /\ ClientPlace' = ClientPlace
      /\ rpc \in {"receive", "flags", "file"} /\ RemoteWritesAt = "index" /\ RemoteWritesAt' = "index"
      /\ ClientSteps \subseteq ClientSteps'
      /\ dones \in Nat /\ wanted \in Nat \ {0} /\ asked \subseteq Nat /\ redo \subseteq Nat \ {0}
  BY GeneratorKeeps
<1>2. PICK k : /\ k = CHOOSE i \in redo : \A j \in redo : i <= j
               /\ in' = in \o Request(k) /\ redo' = redo \ {k}
  BY DEF RemoteAsksAgain, RemoteWrites
<1>3. dones = 1 /\ dones' = 1 /\ echoed >= 1 /\ redo # {} /\ retried' = TRUE
  BY DEF RemoteAsksAgain
<1>4. k \in redo /\ k \in Nat \ {0}
  <2>1. redo \subseteq Nat
    BY <1>1
  <2> QED  BY <1>1, <1>2, <1>3, <2>1, Least
<1>5. op = "upload"
  BY <1>1, <1>3 DEF PlaceInv
<1>6. PICK units \in Seq(Units) : units = Request(k)
  BY <1>4, RequestUnits
<1>7. PICK u \in Units : u = Index(k) /\ u.kind = "index" /\ u.value = k
  BY <1>4, RequestParts
<1>8. ASSUME NEW m \in Int PROVE Run(ClientSteps', units, ClientWillBe(m), ClientWillBe(m)')
  <2>1. PICK s \in ClientState : s = ClientWillBe(m)
    BY <1>1, WillBeState
  <2>2. s.place = "index" /\ s.left = 3 /\ s.last = m /\ s.again = redo
    <3>1. 4 - 1 = 3
      OBVIOUS
    <3> QED  BY <1>1, <1>3, <1>5, <2>1, <3>1, PlaceOf
  <2>3. PICK q : q = [place |-> "flags", left |-> 3, last |-> m, again |-> redo']
    OBVIOUS
  <2>4. q \in ClientState /\ q.place = "flags" /\ q.left = 3 /\ q.last = m /\ q.again = redo'
    <3>1. "flags" \in ClientPlaces
      BY DEF ClientPlaces
    <3>2. redo' \in SUBSET Int
      <4>1. redo' \subseteq redo /\ redo \subseteq Int
        BY <1>1, <1>2
      <4> QED  BY <4>1
    <3> QED  BY <2>3, <3>1, <3>2 DEF ClientState
  <2>5. PICK e : e = ClientWillBe(m)'
    OBVIOUS
  <2>6. e = MovesTo(q, "index")
    <3>1. e = [place |-> "index", left |-> 3, last |-> m, again |-> redo']
      <4>1. 4 - 1 = 3
        OBVIOUS
      <4> QED  BY <1>1, <1>3, <1>5, <2>5, <4>1 DEF ClientWillBe
    <3> QED  BY <2>3, <3>1 DEF MovesTo
  <2>7. <<s, u, q>> \in ClientSteps'
    <3>1. k \notin q.again /\ s.again = q.again \cup {k}
      BY <1>2, <1>4, <2>2, <2>4
    <3>2. TakesAgain(s, k, q)'
      BY <1>1, <1>3, <2>2, <2>4, <3>1 DEF TakesAgain
    <3>3. ClientTakes(s, u, q)'
      BY <1>1, <1>4, <1>5, <1>7, <2>2, <3>2 DEF ClientTakes, TakesIndex
    <3> QED  BY <2>4, <3>3 DEF ClientSteps
  <2>8. <<s, Index(k), q>> \in ClientSteps'
    BY <1>7, <2>7
  <2>9. Run(ClientSteps', units, s, e)
    <3>1. q.left >= 3
      BY <2>4
    <3> QED  BY <1>1, <1>4, <1>5, <1>6, <2>4, <2>6, <2>8, <3>1, TakesTheRest
  <2> QED  BY <2>1, <2>5, <2>9
<1>9. in' = in \o units /\ ~(dones' = 0)
  BY <1>2, <1>3, <1>6
<1> QED  BY <1>1, <1>8, <1>9, InwardWrote

(* The generator ends a phase. *)
LEMMA DoneInward ==
  ASSUME Inv, Remote, RemoteDone
  PROVE  InwardInv'
<1>1. /\ TypeInv /\ PlaceInv /\ TypeInv' /\ UNCHANGED <<op, rpc, echoed>> /\ ClientPlace' = ClientPlace
      /\ rpc \in {"receive", "flags", "file"} /\ RemoteWritesAt = "index" /\ RemoteWritesAt' = "index"
      /\ ClientSteps \subseteq ClientSteps'
      /\ dones \in Nat /\ wanted \in Nat \ {0} /\ asked \subseteq Nat /\ redo \subseteq Nat \ {0}
  BY GeneratorKeeps
<1>2. /\ in' = in \o <<Index(INDEX_DONE)>> /\ dones' = dones + 1 /\ UNCHANGED <<asked, redo, wanted>>
  BY DEF RemoteDone, RemoteWrites
<1>3. PICK u \in Units : u = Index(INDEX_DONE)
  BY UnitShapes
<1>4. ASSUME NEW m \in Int, op = "upload" /\ dones = 0 => m < wanted /\ \A j \in asked : j <= m
      PROVE  <<ClientWillBe(m), u, ClientWillBe(m)'>> \in ClientSteps'
  <2>1. PICK s \in ClientState : s = ClientWillBe(m)
    BY <1>1, WillBeState
  <2>2. s.place = "index" /\ s.last = m /\ s.again = redo /\ s.left = (IF op = "upload" THEN 4 - dones ELSE 4)
    BY <1>1, <2>1, PlaceOf
  <2>3. PICK e : e = ClientWillBe(m)'
    OBVIOUS
  <2>4. e = [s EXCEPT !.left = IF op = "upload" THEN s.left - 1 ELSE s.left]
    <3>1. s = [place |-> "index", left |-> s.left, last |-> m, again |-> redo]
      BY <1>1, <2>1, <2>2 DEF ClientWillBe
    <3>2. e = [place |-> "index", left |-> IF op = "upload" THEN 4 - (dones + 1) ELSE 4, last |-> m, again |-> redo]
      BY <1>1, <1>2, <2>3 DEF ClientWillBe
    <3>3. (IF op = "upload" THEN 4 - (dones + 1) ELSE 4) = IF op = "upload" THEN s.left - 1 ELSE s.left
      BY <1>1, <2>2
    <3> QED  BY <3>1, <3>2, <3>3
  <2>5. e \in ClientState
    <3>1. (IF op = "upload" THEN s.left - 1 ELSE s.left) \in Int
      BY <1>1, <2>2
    <3> QED  BY <2>4, <3>1 DEF ClientState
  <2>6. TakesDone(s, u, e)'
    <3>1. CASE op = "upload"
      <4>1. s.left > 4 - dones'
        BY <1>1, <1>2, <2>2, <3>1
      <4>2. s.left = 4 => \A j \in asked' : j <= s.last
        <5>1. s.left = 4 => dones = 0
          BY <1>1, <2>2, <3>1
        <5> QED  BY <1>2, <1>4, <2>2, <3>1, <5>1
      <4>3. e = [s EXCEPT !.left = s.left - 1]
        BY <2>4, <3>1
      <4> QED  BY <1>1, <1>3, <2>2, <3>1, <4>1, <4>2, <4>3 DEF TakesDone
    <3>2. CASE op # "upload"
      <4>1. e = s
        BY <2>4, <3>2 DEF ClientState
      <4> QED  BY <1>1, <1>3, <2>2, <3>2, <4>1 DEF TakesDone
    <3> QED  BY <3>1, <3>2
  <2>7. ClientTakes(s, u, e)'
    BY <2>6 DEF ClientTakes
  <2>8. <<s, u, e>> \in ClientSteps'
    BY <2>5, <2>7 DEF ClientSteps
  <2> QED  BY <2>1, <2>3, <2>8
<1>5. in' = in \o <<u>> /\ ~(dones' = 0)
  BY <1>1, <1>2, <1>3
<1> QED  BY <1>1, <1>4, <1>5, InwardOne

(* A file that arrives damaged will be asked for again, before anything that
   is on its way has been. *)
LEMMA FileInward ==
  ASSUME Inv, Remote, RemoteFile, redo' = redo \cup {receiving}, echoed = 0
  PROVE  InwardInv'
<1>1. /\ TypeInv /\ OutwardInv /\ InwardInv /\ in \in Seq(Units)
      /\ UNCHANGED <<pc, op, Gone, sent, phase, lastIndex, rounds>>
      /\ ClientSteps \subseteq ClientSteps'
  BY RemoteSame, ClientTakesMore DEF Inv, TypeInv
<1>2. /\ rpc = "file" /\ rpc' = "receive" /\ out # <<>>
      /\ UNCHANGED <<in, dones, wanted, asked>>
  BY DEF RemoteFile, RemoteReads
<1>3. receiving \in sent
  BY <1>1, <1>2, ExpectFile
<1>4. receiving \in Int /\ sent \subseteq Int
  <2>1. Files \subseteq Int
    BY FilesFinite
  <2> QED  BY <1>1, <1>3, <2>1 DEF TypeInv
<1>5. ClientPlace' = ClientPlace /\ RemoteWritesAt' = RemoteWritesAt
  <2>1. RemoteWritesAt' = RemoteWritesAt
    BY <1>2 DEF RemoteWritesAt
  <2> QED  BY <1>2, <2>1, SamePlace
<1> DEFINE More(s) == [place |-> s.place, left |-> s.left, last |-> s.last, again |-> s.again \cup {receiving}]
           f == [s \in ClientState |-> More(s)]
<1>6. ASSUME NEW s \in ClientState
      PROVE  /\ f[s] \in ClientState /\ f[s].place = s.place /\ f[s].left = s.left /\ f[s].last = s.last
             /\ f[s].again = s.again \cup {receiving}
  <2>1. s.again \cup {receiving} \in SUBSET Int
    BY <1>4 DEF ClientState
  <2> QED  BY <2>1 DEF ClientState
<1>7. \A r \in ClientState : r = [place |-> r.place, left |-> r.left, last |-> r.last, again |-> r.again]
  BY DEF ClientState
<1> HIDE DEF f, More
<1>8. ASSUME NEW s \in ClientState, NEW u \in Units, NEW t \in ClientState, ClientTakes(s, u, t)
      PROVE  ClientTakes(f[s], u, f[t])
  <2>1. PICK a \in ClientState : a = f[s]
    BY <1>6
  <2>2. PICK b \in ClientState : b = f[t]
    BY <1>6
  <2>3. /\ a.place = s.place /\ a.left = s.left /\ a.last = s.last /\ a.again = s.again \cup {receiving}
        /\ b.place = t.place /\ b.left = t.left /\ b.last = t.last /\ b.again = t.again \cup {receiving}
    BY <1>6, <2>1, <2>2
  <2>4. ASSUME NEW place, t = MovesTo(s, place) PROVE b = MovesTo(a, place)
    <3>1. t.place = place /\ t.left = s.left /\ t.last = s.last /\ t.again = s.again
      BY <2>4, Moved
    <3>2. MovesTo(a, place) = [place |-> place, left |-> a.left, last |-> a.last, again |-> a.again]
      BY <1>7 DEF MovesTo
    <3>3. b = [place |-> b.place, left |-> b.left, last |-> b.last, again |-> b.again]
      BY <1>7
    <3> QED  BY <2>3, <3>1, <3>2, <3>3
  <2>5. t = s => b = a
    BY <2>1, <2>2
  <2>6. CASE TakesSetUp(s, u, t)
    <3>1. TakesSetUp(a, u, b)
      <4>1. CASE s.place = "greeting"
        <5>1. u = Unit("version", connection.version) /\ t = MovesTo(s, IF connection.daemon THEN "lines" ELSE Outcome)
          BY <2>6, <4>1 DEF TakesSetUp
        <5>2. b = MovesTo(a, IF connection.daemon THEN "lines" ELSE Outcome)
          <6>1. PICK place : place = IF connection.daemon THEN "lines" ELSE Outcome
            OBVIOUS
          <6>2. t = MovesTo(s, place)
            BY <5>1, <6>1
          <6>3. b = MovesTo(a, place)
            BY <2>4, <6>2
          <6> QED  BY <6>1, <6>3
        <5> QED  BY <2>3, <4>1, <5>1, <5>2 DEF TakesSetUp
      <4>2. CASE s.place = "lines"
        <5>1. /\ u.kind = "line"
              /\ \/ u.value = "text" /\ t = s
                 \/ u.value = "authreqd" /\ op # "listModules" /\ t = MovesTo(s, "authorizing")
                 \/ u.value = "ok" /\ op # "listModules" /\ t = MovesTo(s, "arguments")
                 \/ u.value = "exit" /\ op = "listModules" /\ t = MovesTo(s, "end")
                 \/ u.value = "error" /\ t = MovesTo(s, "end")
          BY <2>6, <4>2 DEF TakesSetUp
        <5>2. /\ t = MovesTo(s, "authorizing") => b = MovesTo(a, "authorizing")
              /\ t = MovesTo(s, "arguments") => b = MovesTo(a, "arguments")
              /\ t = MovesTo(s, "end") => b = MovesTo(a, "end")
          BY <2>4, Zenon
        <5> QED  BY <2>3, <2>5, <4>2, <5>1, <5>2 DEF TakesSetUp
      <4>3. CASE s.place = "compatibility"
        <5>1. u.kind = "compatibility" /\ t = MovesTo(s, "seed")
          BY <2>6, <4>3 DEF TakesSetUp
        <5>2. b = MovesTo(a, "seed")
          BY <2>4, <5>1, Zenon
        <5> QED  BY <2>3, <4>3, <5>1, <5>2 DEF TakesSetUp
      <4>4. CASE s.place = "seed"
        <5>1. u.kind = "seed" /\ t = MovesTo(s, IF Downloading THEN "entries" ELSE "index")
          BY <2>6, <4>4 DEF TakesSetUp
        <5>2. b = MovesTo(a, IF Downloading THEN "entries" ELSE "index")
          <6>1. PICK place : place = IF Downloading THEN "entries" ELSE "index"
            OBVIOUS
          <6>2. t = MovesTo(s, place)
            BY <5>1, <6>1
          <6>3. b = MovesTo(a, place)
            BY <2>4, <6>2
          <6> QED  BY <6>1, <6>3
        <5> QED  BY <2>3, <4>4, <5>1, <5>2 DEF TakesSetUp
      <4>5. s.place \in {"greeting", "lines", "compatibility", "seed"}
        BY <2>6 DEF TakesSetUp
      <4> QED  BY <4>1, <4>2, <4>3, <4>4, <4>5
    <3> QED  BY <2>1, <2>2, <3>1 DEF ClientTakes
  <2>7. CASE TakesList(s, u, t)
    <3>1. /\ s.place \in {"entries", "io error"}
          /\ s.place = "entries" =>
               \/ u.kind = "entry" /\ t = s
               \/ u.kind = "end" /\ t = MovesTo(s, IF Agreed < 30 THEN "io error" ELSE "end")
          /\ s.place = "io error" => u.kind = "io error" /\ t = MovesTo(s, "end")
      BY <2>7 DEF TakesList
    <3>2. /\ t = MovesTo(s, "end") => b = MovesTo(a, "end")
          /\ t = MovesTo(s, IF Agreed < 30 THEN "io error" ELSE "end") =>
               b = MovesTo(a, IF Agreed < 30 THEN "io error" ELSE "end")
      BY <2>4, Zenon
    <3>3. TakesList(a, u, b)
      BY <2>3, <2>5, <3>1, <3>2 DEF TakesList
    <3> QED  BY <2>1, <2>2, <3>3 DEF ClientTakes
  <2>8. CASE TakesFlags(s, u, t)
    <3>1. /\ s.place \in {"flags", "checksums"}
          /\ s.place = "flags" =>
               /\ u.kind = "flags"
               /\ \/ u.value = "wanted" /\ op = "upload" /\ s.left >= 3 /\ t = MovesTo(s, "checksums")
                  \/ u.value = "unwanted" /\ t = MovesTo(s, "index")
          /\ s.place = "checksums" => u.kind = "checksums" /\ t = MovesTo(s, "index")
      BY <2>8 DEF TakesFlags
    <3>2. /\ t = MovesTo(s, "checksums") => b = MovesTo(a, "checksums")
          /\ t = MovesTo(s, "index") => b = MovesTo(a, "index")
      BY <2>4, Zenon
    <3>3. TakesFlags(a, u, b)
      BY <2>3, <3>1, <3>2 DEF TakesFlags
    <3> QED  BY <2>1, <2>2, <3>3 DEF ClientTakes
  <2>9. CASE TakesDone(s, u, t)
    <3>1. CASE op = "upload"
      <4>1. /\ s.place = "index" /\ u = Index(INDEX_DONE) /\ s.left > 4 - dones
            /\ s.left = 4 => \A j \in asked : j <= s.last
            /\ t = [s EXCEPT !.left = s.left - 1]
        BY <2>9, <3>1 DEF TakesDone
      <4>2. t.place = s.place /\ t.left = s.left - 1 /\ t.last = s.last /\ t.again = s.again
        BY <4>1 DEF ClientState
      <4>3. PICK c : c = [a EXCEPT !.left = a.left - 1]
        OBVIOUS
      <4>4. c \in ClientState /\ c.place = a.place /\ c.left = a.left - 1 /\ c.last = a.last /\ c.again = a.again
        BY <4>3 DEF ClientState
      <4>5. c = b
        <5>1. c.place = b.place /\ c.left = b.left /\ c.last = b.last /\ c.again = b.again
          BY <2>3, <4>2, <4>4
        <5>2. /\ c = [place |-> c.place, left |-> c.left, last |-> c.last, again |-> c.again]
              /\ b = [place |-> b.place, left |-> b.left, last |-> b.last, again |-> b.again]
          BY <1>7, <4>4
        <5> QED  BY <5>1, <5>2
      <4> QED  BY <2>1, <2>2, <2>3, <3>1, <4>1, <4>3, <4>5 DEF TakesDone, ClientTakes
    <3>2. CASE op # "upload"
      <4>1. s.place = "index" /\ u = Index(INDEX_DONE) /\ t = s
        BY <2>9, <3>2 DEF TakesDone
      <4> QED  BY <2>1, <2>2, <2>3, <2>5, <3>2, <4>1 DEF TakesDone, ClientTakes
    <3> QED  BY <3>1, <3>2
  <2>10. CASE TakesIndex(s, u, t)
    <3>1. s.place = "index" /\ u.kind = "index" /\ u.value \in Nat \ {0}
      BY <2>10 DEF TakesIndex
    <3>2. PICK k : k = u.value
      OBVIOUS
    <3>3. ~TakesAgain(s, k, t)
      BY DEF TakesAgain
    <3>4. CASE op = "upload" /\ TakesFirst(s, k, t)
      <4>1. /\ s.left = 4 /\ s.last < k /\ k < wanted /\ k \in asked
            /\ \A j \in asked : j <= s.last \/ k <= j
            /\ t = [s EXCEPT !.place = "flags", !.last = k]
        BY <3>4 DEF TakesFirst
      <4>2. t.place = "flags" /\ t.left = s.left /\ t.last = k /\ t.again = s.again
        BY <4>1 DEF ClientState
      <4>3. PICK c : c = [a EXCEPT !.place = "flags", !.last = k]
        OBVIOUS
      <4>4. c \in ClientState /\ c.place = "flags" /\ c.left = a.left /\ c.last = k /\ c.again = a.again
        <5>1. "flags" \in ClientPlaces /\ k \in Int
          BY <3>1, <3>2 DEF ClientPlaces
        <5> QED  BY <4>3, <5>1 DEF ClientState
      <4>5. c = b
        BY <1>7, <2>3, <4>2, <4>4
      <4>6. TakesFirst(a, k, b)
        BY <2>3, <4>1, <4>3, <4>5 DEF TakesFirst
      <4> QED  BY <2>1, <2>2, <2>3, <3>1, <3>2, <3>4, <4>6 DEF TakesIndex, ClientTakes
    <3>5. CASE op \notin {"upload", "link"} /\ t = MovesTo(s, "flags")
      <4>1. b = MovesTo(a, "flags")
        BY <2>4, <3>5
      <4> QED  BY <2>1, <2>2, <2>3, <3>1, <3>5, <4>1 DEF TakesIndex, ClientTakes
    <3> QED  BY <2>10, <3>2, <3>3, <3>4, <3>5 DEF TakesIndex
  <2> QED  BY <1>8, <2>6, <2>7, <2>8, <2>9, <2>10 DEF ClientTakes
<1>9. \A a, b, c : <<a, b, c>> \in ClientSteps => <<f[a], b, f[c]>> \in ClientSteps'
  <2>1. ASSUME NEW a, NEW b, NEW c, <<a, b, c>> \in ClientSteps PROVE <<f[a], b, f[c]>> \in ClientSteps'
    <3>1. a \in ClientState /\ b \in Units /\ c \in ClientState /\ ClientTakes(a, b, c)
      BY <2>1 DEF ClientSteps
    <3>2. f[a] \in ClientState /\ f[c] \in ClientState /\ ClientTakes(f[a], b, f[c])
      BY <1>6, <1>8, <3>1
    <3>3. <<f[a], b, f[c]>> \in ClientSteps
      BY <3>1, <3>2 DEF ClientSteps
    <3> QED  BY <1>1, <3>3
  <2> QED  BY <2>1
<1>10. ASSUME ~Gone
       PROVE  \E l, m \in Int, g \in SUBSET Int :
                /\ Run(ClientSteps', in', ClientAt(l, g)', ClientWillBe(m)')
                /\ g \subseteq sent'
                /\ op' = "upload" /\ phase' = 0 => l = lastIndex'
                /\ op' = "upload" /\ dones' = 0 => m < wanted' /\ \A j \in asked' : j <= m
  <2>1. PICK l \in Int : \E m \in Int, g \in SUBSET Int :
          /\ Run(ClientSteps, in, ClientAt(l, g), ClientWillBe(m))
          /\ g \subseteq sent
          /\ op = "upload" /\ phase = 0 => l = lastIndex
          /\ op = "upload" /\ dones = 0 => m < wanted /\ \A j \in asked : j <= m
    BY <1>1, <1>10 DEF InwardInv
  <2>2. PICK m \in Int : \E g \in SUBSET Int :
          /\ Run(ClientSteps, in, ClientAt(l, g), ClientWillBe(m))
          /\ g \subseteq sent
          /\ op = "upload" /\ phase = 0 => l = lastIndex
          /\ op = "upload" /\ dones = 0 => m < wanted /\ \A j \in asked : j <= m
    BY <2>1
  <2>3. PICK g \in SUBSET Int :
          /\ Run(ClientSteps, in, ClientAt(l, g), ClientWillBe(m))
          /\ g \subseteq sent
          /\ op = "upload" /\ phase = 0 => l = lastIndex
          /\ op = "upload" /\ dones = 0 => m < wanted /\ \A j \in asked : j <= m
    BY <2>2
  <2>4. PICK h \in SUBSET Int : h = g \cup {receiving}
    BY <1>4
  <2>5. PICK s \in ClientState : s = ClientAt(l, g)
    <3>1. ClientPlace \in ClientPlaces
      BY <1>1 DEF ClientPlace, ClientPlaces, TypeInv, ClientPcs, SettingUp
    <3>2. ClientLeft \in Int
      BY <1>1 DEF ClientLeft, TypeInv
    <3> HIDE DEF ClientPlace, ClientLeft
    <3> QED  BY <3>1, <3>2 DEF ClientAt, ClientState
  <2>6. PICK t \in ClientState : t = ClientWillBe(m)
    BY <1>1, WillBeState
  <2>7. PICK R : R = ClientSteps
    OBVIOUS
  <2>8. PICK S : S = ClientSteps'
    OBVIOUS
  <2>9. PICK v \in Seq(Units) : v = in
    BY <1>1
  <2>10. Run(S, v, f[s], f[t])
    <3>1. \A a, b, c : <<a, b, c>> \in R => <<f[a], b, f[c]>> \in S
      BY <1>9, <2>7, <2>8
    <3>2. Run(R, v, s, t)
      BY <2>3, <2>5, <2>6, <2>7, <2>9
    <3> QED  BY <3>1, <3>2, RunMapped
  <2>11. ClientAt(l, h)' = f[s]
    <3>1. ClientPlace' = ClientPlace /\ ClientLeft' = ClientLeft
      BY <1>1, <1>5 DEF ClientLeft
    <3>2. ClientAt(l, h)' = [place |-> ClientPlace, left |-> ClientLeft, last |-> l, again |-> h]
      <4> HIDE DEF ClientPlace, ClientLeft
      <4> QED  BY <3>1 DEF ClientAt
    <3>3. f[s].place = ClientPlace /\ f[s].left = ClientLeft /\ f[s].last = l /\ f[s].again = h /\ f[s] \in ClientState
      BY <1>6, <2>4, <2>5, PlaceOf
    <3> QED  BY <1>7, <3>2, <3>3
  <2>12. ClientWillBe(m)' = f[t]
    <3>1. ClientWillBe(m)' = [place |-> RemoteWritesAt, left |-> IF op = "upload" THEN 4 - dones ELSE 4,
                              last |-> m, again |-> redo \cup {receiving}]
      BY <1>1, <1>2, <1>5 DEF ClientWillBe
    <3>2. /\ f[t].place = RemoteWritesAt /\ f[t].left = (IF op = "upload" THEN 4 - dones ELSE 4)
          /\ f[t].last = m /\ f[t].again = redo \cup {receiving} /\ f[t] \in ClientState
      BY <1>6, <2>6, PlaceOf
    <3> QED  BY <1>7, <3>1, <3>2
  <2>13. Run(ClientSteps', in', ClientAt(l, h)', ClientWillBe(m)')
    BY <1>2, <2>8, <2>9, <2>10, <2>11, <2>12
  <2>14. h \subseteq sent'
    BY <1>1, <1>3, <2>3, <2>4
  <2> QED  BY <1>1, <1>2, <2>3, <2>13, <2>14
<1> QED  BY <1>1, <1>10 DEF InwardInv

(* The way to the client, in the steps of the remote side. *)
LEMMA RemoteInward ==
  ASSUME Inv, Remote, LinkIsSilent
  PROVE  InwardInv'
<1>1. CASE RemoteFile
  <2>1. UNCHANGED redo \/ (echoed = 0 /\ redo' = redo \cup {receiving})
    BY <1>1 DEF RemoteFile
  <2> QED  BY <1>1, <2>1, ReceiverInward, FileInward
<1> QED  BY <1>1, SetUpInward, FilterInward, ReceiverInward, AnswerInward, GeneratesInward,
            AsksAgainInward, DoneInward DEF Remote

-----------------------------------------------------------------------------
(* Init. *)
LEMMA InitInv == DeletionOnlyForSyncs /\ Init => Inv
<1> SUFFICES ASSUME DeletionOnlyForSyncs, Init PROVE Inv
  OBVIOUS
<1>1. PICK o \in Operations : op = o.op /\ deletionEnabled = o.deletion
  BY DEF Init
<1>2. /\ connection \in Connections /\ (op = "listModules" => connection.daemon)
      /\ pc = "connect" /\ protocol = connection.preferred
      /\ buffer = <<>> /\ out = <<>> /\ in = <<>>
      /\ index = 0 /\ phase = 0 /\ lastIndex = 0 /\ rounds = 0
      /\ skipped = 0 /\ logical = 0
      /\ sent = {} /\ read = [k \in Files |-> 0] /\ changed = FALSE
      /\ rpc = "start" /\ rprotocol = connection.version
      /\ lines = 0 /\ receiving = 0 /\ wanted = 1 /\ asked = {} /\ redo = {}
      /\ dones = 0 /\ echoed = 0 /\ retried = FALSE
  BY DEF Init
<1>3. TypeInv
  <2>1. /\ op = "listModules" => connection.daemon
        /\ deletionEnabled = TRUE => op \in {"upload", "list", "download"}
        /\ deletionEnabled \in BOOLEAN /\ connection \in Connections
    BY <1>1, <1>2, SessionAssumption DEF DeletionOnlyForSyncs
  <2>2. in \in Seq(Units) /\ out \in Seq(Units) /\ buffer \in Seq(Units)
    BY <1>2, EmptySeq
  <2>3. protocol \in Int /\ rprotocol \in Int
    BY <1>2, Agreement
  <2>4. pc \in ClientPcs /\ rpc \in RemotePcs
    BY <1>2 DEF ClientPcs, SettingUp, RemotePcs
  <2>5. /\ index \in Int /\ phase \in Nat /\ lastIndex \in Nat /\ rounds \in Int
        /\ skipped \in Int /\ logical \in Int /\ receiving \in Int /\ wanted \in Nat \ {0}
        /\ dones \in Nat /\ echoed \in Nat
    BY <1>2
  <2>8. retried \in BOOLEAN /\ read \in [Files -> Nat] /\ changed \in BOOLEAN
    BY <1>2
  <2>6. sent \subseteq Files /\ asked \subseteq Nat /\ redo \subseteq Nat \ {0}
    BY <1>2
  <2>7. rpc \notin {"flags", "file"}
    BY <1>2
  <2> QED  BY <2>1, <2>2, <2>3, <2>4, <2>5, <2>6, <2>7, <2>8 DEF TypeInv
<1>4. PlaceInv
  BY <1>2 DEF PlaceInv
<1>5. PromptInv
  BY <1>2 DEF PromptInv
<1>6. ProtocolInv
  BY <1>2 DEF ProtocolInv
<1>7. InwardInv
  <2>1. PICK l \in Int : l = 0
    OBVIOUS
  <2>0. PICK g \in SUBSET Int : g = {}
    OBVIOUS
  <2>2. ClientAt(l, g) = ClientWillBe(l)
    BY <1>2, <2>0, <2>1 DEF ClientAt, ClientWillBe, ClientPlace, ClientLeft, RemoteWritesAt
  <2>3. Run(ClientSteps, in, ClientAt(l, g), ClientWillBe(l))
    <3>1. PICK s : s = ClientAt(l, g)
      OBVIOUS
    <3>2. Run(ClientSteps, <<>>, s, s)
      BY RunNothing
    <3> QED  BY <1>2, <2>2, <3>1, <3>2
  <2> QED  BY <1>2, <2>0, <2>1, <2>3 DEF InwardInv
<1>8. OutwardInv
  <2>1. PICK t : t = RemoteAt
    OBVIOUS
  <2>2. t = [place |-> "version", of |-> 0, echo |-> 0]
    BY <1>2, <2>1 DEF RemoteAt, RemotePlace
  <2>3. t \in RemoteState /\ t.place = "version"
    BY <2>2 DEF RemoteState, RemotePlaces
  <2>4. ClientWritesAt = "version"
    BY <1>2 DEF ClientWritesAt
  <2>5. <<>> \o <<>> = <<>>
    OBVIOUS
  <2>6. Run(RemoteSteps, out \o buffer, RemoteAt, t)
    <3>1. Run(RemoteSteps, <<>>, t, t)
      BY RunNothing
    <3> QED  BY <1>2, <2>1, <2>5, <3>1
  <2> QED  BY <2>3, <2>4, <2>6 DEF OutwardInv
<1>9. CountInv
  <2>1. {k \in Files : k <= lastIndex} \ asked = {}
    BY <1>2, FilesFinite
  <2>2. skipped = SizeOf({k \in Files : k <= lastIndex} \ asked) /\ logical = Total(sent, read)
    BY <1>2, <2>1, SizeOfNone, TotalOfNone
  <2>3. lastIndex \in 0 .. Len(Sizes) /\ lastIndex < wanted
    BY <1>2, FilesFinite
  <2> QED  BY <1>2, <2>2, <2>3 DEF CountInv
<1> QED  BY <1>3, <1>4, <1>5, <1>6, <1>7, <1>8, <1>9 DEF Inv

(* Nothing happens. *)
LEMMA StutterInv == Inv /\ UNCHANGED vars => Inv'
<1> SUFFICES ASSUME Inv, UNCHANGED vars PROVE Inv'
  OBVIOUS
<1>1. UNCHANGED <<client, remote, constant, out, in>>
  BY DEF vars
<1>2. /\ UNCHANGED <<pc, protocol, buffer, index, phase, lastIndex, rounds, skipped, logical, sent, read, changed>>
      /\ UNCHANGED <<rpc, rprotocol, lines, receiving, wanted, asked, redo, dones, echoed, retried>>
      /\ UNCHANGED <<op, deletionEnabled, connection, out, in>>
  BY <1>1 DEF client, remote, constant
<1>3. Downloading' = Downloading /\ SetUp' = SetUp /\ Agreed' = Agreed /\ Outcome' = Outcome /\ Gone' = Gone
  BY <1>2 DEF Downloading, SetUp, Deleting, Agreed, Outcome, AfterVersion, Gone
<1>4. TypeInv' /\ PlaceInv' /\ PromptInv' /\ ProtocolInv' /\ CountInv'
  <2>1. TypeInv'
    BY <1>2 DEF Inv, TypeInv
  <2>2. PlaceInv'
    BY <1>2, <1>3 DEF Inv, PlaceInv
  <2>3. PromptInv'
    BY <1>2, <1>3 DEF Inv, PromptInv
  <2>4. ProtocolInv'
    BY <1>2, <1>3 DEF Inv, ProtocolInv
  <2>5. CountInv'
    BY <1>2 DEF Inv, CountInv
  <2> QED  BY <2>1, <2>2, <2>3, <2>4, <2>5
<1>5. InwardInv'
  <2>1. ClientSteps' = ClientSteps
    BY <1>2, <1>3 DEF ClientSteps, ClientTakes, TakesSetUp, TakesList, TakesDone, TakesIndex, TakesFlags,
                      TakesFirst, TakesAgain
  <2>2. /\ \A l, g : ClientAt(l, g)' = ClientAt(l, g)
        /\ \A m : ClientWillBe(m)' = ClientWillBe(m)
    BY <1>2, <1>3 DEF ClientAt, ClientPlace, ClientLeft, ClientWillBe, RemoteWritesAt
  <2> QED  BY <1>2, <1>3, <2>1, <2>2 DEF Inv, InwardInv
<1>6. OutwardInv'
  <2>1. RemoteSteps' = RemoteSteps
    BY <1>2, <1>3 DEF RemoteSteps, RemoteTakes
  <2>2. RemoteAt' = RemoteAt /\ ClientWritesAt' = ClientWritesAt
    BY <1>2, <1>3 DEF RemoteAt, RemotePlace, ClientWritesAt
  <2> QED  BY <1>2, <1>3, <2>1, <2>2 DEF Inv, OutwardInv
<1> QED  BY <1>4, <1>5, <1>6 DEF Inv

(* At every moment of a session, in every operation, what is on its way to a
   side leads that side, unit by unit, from where it is to where the other one
   writes next (Client::start, Stream::login and the loops of upload, remove,
   mkdir, link and the lists). *)
THEOREM SessionIsInvariant ==
  ASSUME DaemonsPrefer30, DeletionOnlyForSyncs, LinkIsSilent
  PROVE  Spec => []Inv
<1>1. Init => Inv
  BY InitInv
<1>2. Inv /\ [Next]_vars => Inv'
  <2>1. ASSUME Inv, Client PROVE Inv'
    <3>1. ProtocolInv'
      BY <2>1, ClientProtocol
    <3>2. OutwardInv'
      BY <2>1, <3>1, ClientOutward
    <3> QED  BY <2>1, <3>1, <3>2, ClientTypes, ClientMoves, ClientPrompt, ClientInward, ClientCounts DEF Inv
  <2>2. ASSUME Inv, Remote PROVE Inv'
    BY <2>2, RemoteTypes, RemoteMoves, RemotePrompt, RemoteProtocol, RemoteInward, RemoteOutward, RemoteCounts DEF Inv
  <2>3. ASSUME Inv, UNCHANGED vars PROVE Inv'
    BY <2>3, StutterInv
  <2> QED  BY <2>1, <2>2, <2>3 DEF Next
<1> QED  BY <1>1, <1>2, PTL DEF Spec

(* Client::start and Stream::login settle on the version on which the remote
   side settles. *)
THEOREM SidesAgree ==
  ASSUME DaemonsPrefer30, DeletionOnlyForSyncs, LinkIsSilent
  PROVE  Spec => []ProtocolsAgree
<1>1. Inv => ProtocolsAgree
  BY DEF Inv, ProtocolInv, ProtocolsAgree
<1> QED  BY <1>1, SessionIsInvariant, PTL

(* In every operation, the client and the remote side read an index where the
   other wrote an index, flags where it wrote flags, and the end of a list where
   the list ends, for any number of files and any daemon's talk. *)
THEOREM SidesInStep ==
  ASSUME DaemonsPrefer30, DeletionOnlyForSyncs, LinkIsSilent
  PROVE  Spec => []InStep
<1>1. Inv => InStep
  BY BothFind DEF Inv
<1> QED  BY <1>1, SessionIsInvariant, PTL

(* After the first phase of an upload that repeats no file, *d_skippedBytes is
   the size of the files that the remote side did not ask about. *)
THEOREM SkippedBytesExact ==
  ASSUME DaemonsPrefer30, DeletionOnlyForSyncs, LinkIsSilent
  PROVE  Spec => []SkippedIsExact
<1>1. Inv => SkippedIsExact
  BY DEF Inv, CountInv, SkippedIsExact
<1> QED  BY <1>1, SessionIsInvariant, PTL

(* *d_logicalBytes is what was read in the last transfers, of files of any
   lengths when they are read, through the second phase and files that can no
   longer be opened, unless a file asked for again had changed when it was
   sent. *)
THEOREM LogicalBytesExact ==
  ASSUME DaemonsPrefer30, DeletionOnlyForSyncs, LinkIsSilent
  PROVE  Spec => []LogicalIsExact
<1>1. Inv => LogicalIsExact
  BY DEF Inv, CountInv, LogicalIsExact
<1> QED  BY <1>1, SessionIsInvariant, PTL
=============================================================================
