----------------------------- MODULE ManifestProofs -----------------------------
(***************************************************************************)
(* The fenced manifest is safe for every set of writers and requests, and  *)
(* for every length of its history.                                        *)
(***************************************************************************)
EXTENDS FencedManifest, SequenceTheorems, TLAPS

\* h is what the bounded history retains of the log s.
window(h, s) ==
  /\ Len(h) = IF Len(s) < MaxHistory THEN Len(s) ELSE MaxHistory
  /\ \A i \in 1 .. Len(h) : h[i] = s[Len(s) - Len(h) + i]

\* The object is the result of the log.
ObjectOfLog ==
  /\ object.version = Len(log)
  /\ object.version = 0 => object.body = NoManifest
  /\ object.version # 0 =>
       /\ object.body \in Manifest /\ object.body.revision = object.version
       /\ window(object.body.history, log)
       /\ log[Len(log)].epoch = object.body.epoch

\* Epochs advance by activation only, and within the reach of the history no
\* mutation ID occurs twice.
LogOrdered ==
  /\ log # <<>> => log[1].op = "activate"
  /\ \A i \in 2 .. Len(log) :
       /\ log[i].epoch >= log[i - 1].epoch
       /\ log[i].op = "activate" <=> log[i].epoch > log[i - 1].epoch
  /\ \A i, j \in 1 .. Len(log) : i < j /\ j - i <= MaxHistory => log[i].id # log[j].id

inLog(r) == \E i \in 1 .. Len(log) : log[i] = r

\* A proposal whose version is the current one was made from the current manifest,
\* and repeats nothing but what is risked.
sound(p) ==
  /\ p.expected <= object.version
  /\ p.expected = object.version =>
       /\ IF object.version = 0
          THEN p.request.op = "activate" /\ \E w \in Writer : p.body = initialRecord(w, p.request)
          ELSE admissible(object.body, p.request) /\ p.body = resultRecord(object.body, p.request)
       /\ inLog(p.request) => p.request \in risked

ProposalsSound ==
  /\ \A w \in Writer : pending[w] # NoPending => sound(pending[w])
  /\ \A p \in late : sound(p) /\ p.request \in Request

\* A call and its proposal are about one request of its writer.
CallsTracked ==
  \A w \in Writer :
    /\ pending[w] # NoPending => pending[w].request \in Asked[w]
    /\ call[w].at # "idle" => call[w].request \in Asked[w]
    /\ call[w].at # "idle" /\ pending[w] # NoPending => pending[w].request = call[w].request
    /\ call[w].put # "none" <=> call[w].at \in {"mutate", "resolve"}
    /\ call[w].put # "none" => pending[w] # NoPending
    /\ call[w].at = "mutate" => ~pending[w].ambiguous /\ call[w].tries < MaxAttempts

\* m is the manifest, or an earlier state of it.
past(m) ==
  /\ object.version # 0
  /\ m.revision # 0 /\ m.uid = object.body.uid
  /\ m.epoch <= object.body.epoch /\ m.revision <= object.body.revision
  /\ m.revision = object.body.revision => m = object.body

PastsKnown ==
  \A w \in Writer :
    /\ known[w].revision # 0 => past(known[w])
    /\ call[w].put = "committed" => past(pending[w].body) /\ inLog(pending[w].request)

\* A request that was applied, or still may be, is risked or reported, or its writer
\* keeps it as a proposal whose outcome it does not know.
settled(r) ==
  \/ r \in risked \/ r \in acked
  \/ \E w \in Writer : /\ r \in Asked[w] /\ pending[w].request = r
                       /\ pending[w].ambiguous \/ call[w].put = "committed"

AllSettled ==
  /\ \A i \in 1 .. Len(log) : settled(log[i])
  /\ \A p \in late : settled(p.request)

\* A running call is the only one of its request, unless that is risked.
CallsApart ==
  \A w \in Writer : call[w].at # "idle" =>
    \/ call[w].request \in risked
    \/ /\ call[w].request \notin acked
       /\ \A v \in Writer \ {w} : call[w].request \notin Asked[v]

AckedApplied == \A r \in acked : r.op = "publish" => inLog(r)

AppliedOnceOrRisked ==
  \A i, j \in 1 .. Len(log) : i < j /\ log[i] = log[j] => log[i] \in risked

ManifestInv ==
  /\ TypeOK /\ ObjectOfLog /\ LogOrdered /\ ProposalsSound /\ CallsTracked /\ PastsKnown
  /\ AllSettled /\ CallsApart /\ AckedApplied /\ AppliedOnceOrRisked

--------------------------------------------------------------------------------
(***************************************************************************)
(* Types.                                                                  *)
(***************************************************************************)

Body == Manifest \cup {NoManifest}
Pending == [request : Request \cup {NoRequest}, expected : Nat, body : Body, ambiguous : BOOLEAN]
Call == [at : {"idle", "loop", "rebase", "mutate", "resolve"},
         request : Request \cup {NoRequest}, tries : 0 .. MaxAttempts,
         put : {"none", "sent", "committed"}]

LEMMA Typed ==
  TypeOK <=>
    /\ object \in [version : Nat, body : Body]
    /\ late \subseteq Pending /\ lost \in Nat
    /\ known \in [Writer -> Body]
    /\ pending \in [Writer -> Pending]
    /\ call \in [Writer -> Call]
    /\ log \in Seq(Request) /\ acked \subseteq Request /\ risked \subseteq Request
BY DEF TypeOK, Body, Pending, Call

LEMMA TypedPrime ==
  TypeOK' <=>
    /\ object' \in [version : Nat, body : Body]
    /\ late' \subseteq Pending /\ lost' \in Nat
    /\ known' \in [Writer -> Body]
    /\ pending' \in [Writer -> Pending]
    /\ call' \in [Writer -> Call]
    /\ log' \in Seq(Request) /\ acked' \subseteq Request /\ risked' \subseteq Request
BY DEF TypeOK, Body, Pending, Call

LEMMA Constants ==
  /\ NoRequest \notin Request
  /\ NoManifest \in Body /\ NoManifest.revision = 0 /\ NoManifest \notin Manifest
  /\ NoPending \in Pending /\ NoPending.request = NoRequest /\ ~NoPending.ambiguous
  /\ NoCall \in Call /\ NoCall.at = "idle" /\ NoCall.put = "none"
<1>1. NoRequest \notin Request BY RequestAssumption DEF NoRequest
<1>2. NoManifest \in Body /\ NoManifest.revision = 0 BY DEF NoManifest, Body
<1>3. NoManifest \notin Manifest BY <1>2 DEF Manifest
<1>4. NoPending \in Pending /\ NoPending.request = NoRequest /\ ~NoPending.ambiguous
  BY <1>2 DEF NoPending, Pending
<1>5. NoCall \in Call /\ NoCall.at = "idle" /\ NoCall.put = "none"
  BY LimitAssumption DEF NoCall, Call
<1> QED BY <1>1, <1>2, <1>3, <1>4, <1>5

LEMMA ManifestFields ==
  ASSUME NEW m \in Manifest
  PROVE  /\ m.uid \in Writer /\ m.epoch \in Nat \ {0} /\ m.revision \in 1 .. MaxRevision
         /\ m.payload \in {r.payload : r \in Request} \cup {Null} /\ m.history \in Seq(Request)
BY DEF Manifest, Uid

--------------------------------------------------------------------------------
(***************************************************************************)
(* Manifests and their histories.                                          *)
(***************************************************************************)

LEMMA LastEntries ==
  ASSUME NEW s \in Seq(Request)
  PROVE  /\ lastEntries(s) \in Seq(Request)
         /\ Len(lastEntries(s)) = IF Len(s) < MaxHistory THEN Len(s) ELSE MaxHistory
         /\ \A i \in 1 .. Len(lastEntries(s)) :
              lastEntries(s)[i] = s[Len(s) - Len(lastEntries(s)) + i]
<1> USE LimitAssumption
<1>0. Len(s) \in Nat BY LenProperties
<1>1. CASE Len(s) > MaxHistory
  <2> DEFINE m == Len(s) - MaxHistory + 1
  <2>1. lastEntries(s) = SubSeq(s, m, Len(s)) BY <1>1 DEF lastEntries
  <2>2. m \in 1 .. Len(s) + 1 /\ Len(s) \in m - 1 .. Len(s) BY <1>0, <1>1
  <2>3. /\ SubSeq(s, m, Len(s)) \in Seq(Request)
        /\ Len(SubSeq(s, m, Len(s))) = Len(s) - m + 1
        /\ \A i \in 1 .. Len(s) - m + 1 : SubSeq(s, m, Len(s))[i] = s[m + i - 1]
    BY <2>2, SubSeqProperties
  <2> QED BY <1>0, <1>1, <2>1, <2>3
<1>2. CASE ~(Len(s) > MaxHistory)
  BY <1>0, <1>2 DEF lastEntries
<1> QED BY <1>1, <1>2

LEMMA WindowAppend ==
  ASSUME NEW s \in Seq(Request), NEW h \in Seq(Request), NEW r \in Request, window(h, s)
  PROVE  window(lastEntries(Append(h, r)), Append(s, r))
<1> USE LimitAssumption
<1> DEFINE a == Append(h, r)  g == lastEntries(a)  t == Append(s, r)
<1>0. Len(h) \in Nat /\ Len(s) \in Nat BY LenProperties
<1>1. a \in Seq(Request) /\ Len(a) = Len(h) + 1 /\ a[Len(h) + 1] = r
      /\ \A i \in 1 .. Len(h) : a[i] = h[i]
  BY AppendProperties
<1>2. /\ Len(t) = Len(s) + 1 /\ \A i \in 1 .. Len(s) : t[i] = s[i]
      /\ t[Len(s) + 1] = r
  BY AppendProperties
<1>3. /\ Len(g) = IF Len(a) < MaxHistory THEN Len(a) ELSE MaxHistory
      /\ \A i \in 1 .. Len(g) : g[i] = a[Len(a) - Len(g) + i]
  <2> HIDE DEF a
  <2> QED BY <1>1, LastEntries
<1> HIDE DEF a, g
<1>4. Len(h) = IF Len(s) < MaxHistory THEN Len(s) ELSE MaxHistory BY DEF window
<1>5. Len(g) = IF Len(t) < MaxHistory THEN Len(t) ELSE MaxHistory
  BY <1>0, <1>1, <1>2, <1>3, <1>4
<1>6. ASSUME NEW i \in 1 .. Len(g) PROVE g[i] = t[Len(t) - Len(g) + i]
  <2> DEFINE k == Len(a) - Len(g) + i
  <2>0. Len(g) \in Nat /\ Len(g) <= Len(a) /\ Len(a) = Len(h) + 1 BY <1>0, <1>1, <1>3, <1>4
  <2>1. g[i] = a[k] /\ k \in 1 .. Len(h) + 1
    <3>1. g[i] = a[k] BY <1>3
    <3> QED BY <1>0, <2>0, <3>1
  <2>2. CASE k = Len(h) + 1
    <3>1. i = Len(g) BY <1>0, <2>0, <2>2
    <3> QED BY <1>0, <1>1, <1>2, <2>1, <2>2, <3>1
  <2>3. CASE k # Len(h) + 1
    <3>1. k \in 1 .. Len(h) BY <1>0, <2>0, <2>1, <2>3
    <3>2. g[i] = h[k] /\ h[k] = s[Len(s) - Len(h) + k] BY <1>1, <2>1, <3>1 DEF window
    <3>3. Len(s) - Len(h) + k = Len(t) - Len(g) + i BY <1>0, <1>2, <2>0
    <3> HIDE DEF k
    <3>4. Len(s) - Len(h) + k \in 1 .. Len(s)
      <4>1. k \in Nat /\ k >= 1 /\ k <= Len(h) BY <1>0, <3>1
      <4>2. Len(h) <= Len(s) BY <1>0, <1>4
      <4> QED BY <1>0, <4>1, <4>2
    <3> QED BY <1>2, <3>2, <3>3, <3>4
  <2> QED BY <2>2, <2>3
<1> QED BY <1>5, <1>6 DEF window, a, g

LEMMA InitialRecordType ==
  ASSUME NEW w \in Writer, NEW r \in Request
  PROVE  initialRecord(w, r) \in Manifest
<1>1. <<r>> \in Seq(Request) OBVIOUS
<1>2. r.epoch \in Nat \ {0} BY RequestAssumption
<1>3. 1 \in 1 .. MaxRevision BY LimitAssumption
<1> QED BY <1>1, <1>2, <1>3 DEF initialRecord, Manifest, Uid

LEMMA ResultRecordType ==
  ASSUME NEW m \in Manifest, NEW r \in Request, admissible(m, r)
  PROVE  /\ resultRecord(m, r) \in Manifest
         /\ resultRecord(m, r).uid = m.uid
         /\ resultRecord(m, r).revision = m.revision + 1
         /\ resultRecord(m, r).epoch = r.epoch
         /\ resultRecord(m, r).history = lastEntries(Append(m.history, r))
         /\ r.op = "publish" => r.epoch = m.epoch
         /\ r.op = "activate" => r.epoch > m.epoch /\ resultRecord(m, r).payload = m.payload
<1>0. r.epoch \in Nat \ {0} /\ r.op \in {"activate", "publish"} BY RequestAssumption
<1>1. /\ m.uid \in Writer /\ m.epoch \in Nat \ {0} /\ m.revision \in 1 .. MaxRevision
      /\ m.payload \in {q.payload : q \in Request} \cup {Null} /\ m.history \in Seq(Request)
  BY ManifestFields
<1>2. m.revision + 1 \in 1 .. MaxRevision BY <1>1, LimitAssumption DEF admissible
<1>3. lastEntries(Append(m.history, r)) \in Seq(Request)
  <2>1. Append(m.history, r) \in Seq(Request) BY <1>1, AppendProperties
  <2> QED BY <2>1, LastEntries
<1>4. /\ r.epoch >= m.epoch
      /\ r.op = "publish" => r.epoch = m.epoch
      /\ r.op = "activate" => r.epoch > m.epoch
  BY <1>0, <1>1 DEF admissible, done
<1>5. (IF r.epoch > m.epoch THEN r.epoch ELSE m.epoch) = r.epoch BY <1>0, <1>1, <1>4
<1>6. (IF r.op = "publish" THEN r.payload ELSE m.payload) \in {q.payload : q \in Request} \cup {Null}
  BY <1>1
<1>7. resultRecord(m, r) \in Manifest
  BY <1>0, <1>1, <1>2, <1>3, <1>5, <1>6 DEF resultRecord, Manifest, Uid
<1> QED BY <1>4, <1>5, <1>7 DEF resultRecord

\* What decode demands follows from what the log is.
LEMMA WindowValid ==
  ASSUME NEW m \in Manifest, NEW s \in Seq(Request), s # <<>>, window(m.history, s),
         m.revision = Len(s), s[Len(s)].epoch = m.epoch, s[1].op = "activate",
         \A i \in 2 .. Len(s) : /\ s[i].epoch >= s[i - 1].epoch
                                /\ s[i].op = "activate" <=> s[i].epoch > s[i - 1].epoch,
         \A i, j \in 1 .. Len(s) : i < j /\ j - i <= MaxHistory => s[i].id # s[j].id
  PROVE  validHistory(m)
<1> DEFINE h == m.history  d == Len(s) - Len(h)
<1>0. /\ h \in Seq(Request) /\ Len(h) \in Nat /\ DOMAIN h = 1 .. Len(h)
      /\ Len(s) \in Nat \ {0} /\ MaxHistory \in Nat \ {0}
  <2>1. h \in Seq(Request) BY ManifestFields
  <2>2. Len(s) # 0 BY EmptySeq
  <2> QED BY <2>1, <2>2, LenProperties, LimitAssumption
<1>1. /\ Len(h) = IF Len(s) < MaxHistory THEN Len(s) ELSE MaxHistory
      /\ \A i \in 1 .. Len(h) : h[i] = s[d + i]
  BY DEF window
<1>2. d \in Nat /\ Len(h) >= 1 /\ Len(h) <= MaxHistory BY <1>0, <1>1
<1>3. \A i \in 1 .. Len(h) : d + i \in 1 .. Len(s) /\ d + i \in Nat BY <1>0, <1>2
<1>4. \A i, j \in 1 .. Len(h) : h[i].id = h[j].id => i = j
  <2> SUFFICES ASSUME NEW i \in 1 .. Len(h), NEW j \in 1 .. Len(h), i # j
               PROVE  h[i].id # h[j].id
    OBVIOUS
  <2>1. h[i] = s[d + i] /\ h[j] = s[d + j] BY <1>1
  <2>2. CASE i < j
    <3> HIDE DEF d, h
    <3>1. d + i < d + j /\ (d + j) - (d + i) <= MaxHistory BY <1>0, <1>2, <2>2
    <3> QED BY <1>3, <2>1, <3>1
  <2>3. CASE j < i
    <3> HIDE DEF d, h
    <3>1. d + j < d + i /\ (d + i) - (d + j) <= MaxHistory BY <1>0, <1>2, <2>3
    <3> QED BY <1>3, <2>1, <3>1
  <2> QED BY <1>0, <2>2, <2>3
<1>5. Len(s) <= MaxHistory => h[1].op = "activate"
  <2> SUFFICES ASSUME Len(s) <= MaxHistory PROVE h[1] = s[1] OBVIOUS
  <2>1. d = 0 BY <1>0, <1>1
  <2>2. 1 \in 1 .. Len(h) BY <1>0, <1>2
  <2>3. h[1] = s[d + 1] BY <1>1, <2>2
  <2> HIDE DEF d, h
  <2> QED BY <2>1, <2>3
<1>6. ASSUME NEW i \in 1 .. Len(h), i # 1
      PROVE  /\ h[i].epoch >= h[i - 1].epoch
             /\ h[i].op = "activate" <=> h[i].epoch > h[i - 1].epoch
  <2>1. i - 1 \in 1 .. Len(h) /\ d + i \in 2 .. Len(s) /\ (d + i) - 1 = d + (i - 1)
    BY <1>0, <1>2, <1>6
  <2>2. h[i] = s[d + i] /\ h[i - 1] = s[(d + i) - 1] BY <1>1, <2>1
  <2> HIDE DEF d, h
  <2> QED BY <2>1, <2>2
<1>7. h[Len(h)].epoch = m.epoch
  <2>1. Len(h) \in 1 .. Len(h) /\ d + Len(h) = Len(s) BY <1>0, <1>2
  <2>2. h[Len(h)] = s[d + Len(h)] BY <1>1, <2>1
  <2> QED BY <2>1, <2>2
<1> HIDE DEF d
<1> QED BY <1>0, <1>1, <1>4, <1>5, <1>6, <1>7 DEF validHistory

LEMMA InvariantImplies ==
  ASSUME ManifestInv
  PROVE  TypeOK /\ HistoryValid /\ NoFalseAlarm /\ SuccessApplied /\ AppliedOnce
<1>1. TypeOK BY DEF ManifestInv
<1>0. /\ log \in Seq(Request) /\ Len(log) \in Nat /\ DOMAIN log = 1 .. Len(log)
      /\ known \in [Writer -> Body]
  BY <1>1, Typed, LenProperties
<1>2. HistoryValid
  <2> SUFFICES ASSUME object.version # 0 PROVE validHistory(object.body) BY DEF HistoryValid
  <2>1. /\ object.body \in Manifest /\ object.body.revision = Len(log)
        /\ window(object.body.history, log) /\ log[Len(log)].epoch = object.body.epoch
        /\ Len(log) # 0
    BY DEF ManifestInv, ObjectOfLog
  <2>2. log # <<>> BY <2>1, EmptySeq
  <2> QED BY <1>0, <2>1, <2>2, WindowValid DEF ManifestInv, LogOrdered
<1>3. NoFalseAlarm
  <2> SUFFICES ASSUME NEW w \in Writer, known[w].revision # 0
               PROVE  object.version # 0 /\ ~refused(w, object.body)
    BY DEF NoFalseAlarm
  <2>1. past(known[w]) BY DEF ManifestInv, PastsKnown
  <2>2. object.body \in Manifest BY <2>1 DEF ManifestInv, ObjectOfLog, past
  <2>3. known[w] \in Manifest BY <1>0, Constants DEF Body
  <2>4. /\ object.body.epoch \in Nat /\ object.body.revision \in 1 .. MaxRevision
        /\ known[w].epoch \in Nat /\ known[w].revision \in 1 .. MaxRevision
    BY <2>2, <2>3, ManifestFields
  <2>5. /\ ~(object.body.epoch < known[w].epoch)
        /\ ~(object.body.revision < known[w].revision)
    BY <2>1, <2>4, LimitAssumption DEF past
  <2> QED BY <2>1, <2>5 DEF past, refused
<1>4. SuccessApplied BY <1>0 DEF ManifestInv, AckedApplied, inLog, SuccessApplied
<1>5. AppliedOnce
  <2> SUFFICES ASSUME NEW i \in 1 .. Len(log), NEW j \in 1 .. Len(log), i < j, log[i] = log[j]
               PROVE  log[i] \in risked /\ j - i > MaxHistory
    BY <1>0 DEF AppliedOnce
  <2>1. ~(j - i <= MaxHistory) BY DEF ManifestInv, LogOrdered
  <2>2. j - i > MaxHistory BY <1>0, <2>1, LimitAssumption
  <2> QED BY <2>2 DEF ManifestInv, AppliedOnceOrRisked
<1> QED BY <1>1, <1>2, <1>3, <1>4, <1>5

LEMMA InitManifest == Init => ManifestInv
<1> SUFFICES ASSUME Init PROVE ManifestInv OBVIOUS
<1>0. /\ log = <<>> /\ Len(log) = 0 /\ log \in Seq(Request) /\ late = {} /\ acked = {}
      /\ object.version = 0 /\ object.body = NoManifest
  BY DEF Init, NoObject
<1>1. TypeOK
  <2>1. object \in [version : Nat, body : Body] BY Constants DEF Init, NoObject
  <2>2. /\ known \in [Writer -> Body] /\ pending \in [Writer -> Pending]
        /\ call \in [Writer -> Call]
    BY Constants DEF Init
  <2> QED BY <1>0, <2>1, <2>2, Typed DEF Init
<1>2. \A w \in Writer : /\ known[w].revision = 0 /\ pending[w] = NoPending
                        /\ call[w].at = "idle" /\ call[w].put = "none"
  BY Constants DEF Init
<1>3. ObjectOfLog /\ LogOrdered BY <1>0 DEF ObjectOfLog, LogOrdered
<1>4. ProposalsSound /\ CallsTracked /\ PastsKnown
  BY <1>0, <1>2 DEF ProposalsSound, CallsTracked, PastsKnown
<1>5. AllSettled /\ CallsApart /\ AckedApplied /\ AppliedOnceOrRisked
  BY <1>0, <1>2 DEF AllSettled, CallsApart, AckedApplied, AppliedOnceOrRisked
<1> QED BY <1>1, <1>3, <1>4, <1>5 DEF ManifestInv

--------------------------------------------------------------------------------
(***************************************************************************)
(* A commit.                                                               *)
(***************************************************************************)

LEMMA Unmatched ==
  ASSUME NEW m \in Manifest, NEW r \in Request, admissible(m, r)
  PROVE  \A i \in 1 .. Len(m.history) : m.history[i].id # r.id
<1>1. DOMAIN m.history = 1 .. Len(m.history) BY ManifestFields, LenProperties
<1>2. ~matched(m, r) BY DEF admissible, done
<1>3. \A e \in entries(m) : e.id # r.id BY <1>2 DEF admissible, conflict
<1> QED BY <1>1, <1>3 DEF entries

\* The log grows by the request of the proposal.
LEMMA LogGrows ==
  ASSUME log \in Seq(Request), NEW p, p.request \in Request, log' = Append(log, p.request)
  PROVE  /\ Len(log) \in Nat /\ log' \in Seq(Request) /\ Len(log') = Len(log) + 1
         /\ \A i \in 1 .. Len(log) : log'[i] = log[i] /\ log[i] \in Request
         /\ log'[Len(log) + 1] = p.request
         /\ \A r : inLog(r) => inLog(r)'
         /\ inLog(p.request)'
<1>1. /\ Len(log) \in Nat /\ log' \in Seq(Request) /\ Len(log') = Len(log) + 1
      /\ \A i \in 1 .. Len(log) : log'[i] = log[i] /\ log[i] \in Request
      /\ log'[Len(log) + 1] = p.request
  BY AppendProperties, LenProperties, ElementOfSeq
<1>2. \A i \in 1 .. Len(log) : i \in 1 .. Len(log') BY <1>1
<1>3. Len(log) + 1 \in 1 .. Len(log') BY <1>1
<1> QED BY <1>1, <1>2, <1>3 DEF inLog

LEMMA CommitObject ==
  ASSUME ManifestInv, NEW p \in Pending, sound(p), p.request \in Request, commit(p)
  PROVE  /\ object' \in [version : Nat, body : Body] /\ log' \in Seq(Request)
         /\ ObjectOfLog'
         /\ object.version # 0 =>
              /\ object'.body.uid = object.body.uid
              /\ object'.body.revision = object.body.revision + 1
              /\ object'.body.epoch = p.request.epoch
              /\ p.request.op = "publish" => p.request.epoch = object.body.epoch
              /\ p.request.op = "activate" =>
                   p.request.epoch > object.body.epoch /\ object'.body.payload = object.body.payload
<1> DEFINE r == p.request  m == object.body
<1>0. /\ object' = [version |-> object.version + 1, body |-> p.body] /\ log' = Append(log, r)
      /\ p.expected = object.version
  BY DEF commit
<1>1. object \in [version : Nat, body : Body] /\ log \in Seq(Request) BY Typed DEF ManifestInv
<1>2. /\ Len(log) \in Nat /\ log' \in Seq(Request) /\ Len(log') = Len(log) + 1
      /\ log'[Len(log) + 1] = r
  BY <1>0, <1>1, LogGrows
<1>3. object.version = Len(log) BY DEF ManifestInv, ObjectOfLog
<1>4. object'.version = Len(log) + 1 /\ object'.body = p.body BY <1>0, <1>3
<1>5. object' \in [version : Nat, body : Body]
  BY <1>0, <1>1 DEF Pending
<1>6. CASE object.version = 0
  <2>1. PICK w \in Writer : p.body = initialRecord(w, r) BY <1>0, <1>6 DEF sound
  <2>2. initialRecord(w, r) \in Manifest BY InitialRecordType
  <2>3. /\ p.body.revision = 1 /\ p.body.epoch = r.epoch /\ p.body.history = <<r>>
    BY <2>1 DEF initialRecord
  <2>4. window(p.body.history, log')
    <3>1. Len(<<r>>) = 1 /\ <<r>>[1] = r OBVIOUS
    <3>2. Len(log') = 1 /\ log'[1] = r BY <1>2, <1>3, <1>6
    <3> QED BY <2>3, <3>1, <3>2, LimitAssumption DEF window
  <2>5. log'[Len(log')].epoch = r.epoch BY <1>2
  <2>6. object'.version = Len(log') /\ object'.version # 0 /\ object'.version = 1
    BY <1>2, <1>3, <1>4, <1>6
  <2> HIDE DEF r, m
  <2>7. ObjectOfLog' BY <1>4, <2>1, <2>2, <2>3, <2>4, <2>5, <2>6 DEF ObjectOfLog
  <2> QED BY <1>2, <1>5, <1>6, <2>7
<1>7. CASE object.version # 0
  <2>1. admissible(m, r) /\ p.body = resultRecord(m, r) BY <1>0, <1>7 DEF sound
  <2>2. m \in Manifest /\ m.revision = Len(log) /\ window(m.history, log)
    BY <1>3, <1>7 DEF ManifestInv, ObjectOfLog
  <2>3. /\ p.body \in Manifest /\ p.body.uid = m.uid /\ p.body.revision = m.revision + 1
        /\ p.body.epoch = r.epoch /\ p.body.history = lastEntries(Append(m.history, r))
        /\ r.op = "publish" => r.epoch = m.epoch
        /\ r.op = "activate" => r.epoch > m.epoch /\ p.body.payload = m.payload
    BY <2>1, <2>2, ResultRecordType
  <2>4. window(p.body.history, log')
    BY <1>0, <1>1, <2>2, <2>3, WindowAppend, ManifestFields
  <2>5. log'[Len(log')].epoch = r.epoch BY <1>2
  <2>6. object'.version = Len(log') /\ object'.version # 0
    BY <1>2, <1>4
  <2> HIDE DEF r, m
  <2>7. ObjectOfLog' BY <1>2, <1>4, <2>2, <2>3, <2>4, <2>5, <2>6 DEF ObjectOfLog
  <2> QED BY <1>2, <1>4, <1>5, <2>3, <2>7 DEF r, m
<1> QED BY <1>6, <1>7

LEMMA CommitLog ==
  ASSUME ManifestInv, NEW p \in Pending, sound(p), p.request \in Request, commit(p),
         risked' = risked
  PROVE  LogOrdered' /\ AppliedOnceOrRisked'
<1> DEFINE r == p.request  m == object.body  n == Len(log)
<1>0. log' = Append(log, r) /\ p.expected = object.version BY DEF commit
<1>1. log \in Seq(Request) BY Typed DEF ManifestInv
<1>2. /\ n \in Nat /\ log' \in Seq(Request) /\ Len(log') = n + 1
      /\ \A i \in 1 .. n : log'[i] = log[i] /\ log[i] \in Request
      /\ log'[n + 1] = r
  BY <1>0, <1>1, LogGrows
<1>3. object.version = n BY DEF ManifestInv, ObjectOfLog
<1>4. r.epoch \in Nat /\ r.op \in {"activate", "publish"} BY RequestAssumption
<1> HIDE DEF n
<1>5. CASE n = 0
  <2>1. r.op = "activate" BY <1>0, <1>3, <1>5 DEF sound
  <2>2. Len(log') = 1 /\ log'[1] = r BY <1>2, <1>5
  <2> QED BY <2>1, <2>2 DEF LogOrdered, AppliedOnceOrRisked
<1>6. CASE n # 0
  <2>0. admissible(m, r) BY <1>0, <1>3, <1>6 DEF sound
  <2>1. /\ m \in Manifest /\ window(m.history, log) /\ log[n].epoch = m.epoch
    BY <1>3, <1>6 DEF ManifestInv, ObjectOfLog, n
  <2>2. /\ r.op = "publish" => r.epoch = m.epoch
        /\ r.op = "activate" => r.epoch > m.epoch
    BY <2>0, <2>1, ResultRecordType
  <2>3. m.epoch \in Nat /\ m.history \in Seq(Request) /\ Len(m.history) \in Nat
    BY <2>1, ManifestFields, LenProperties
  <2>4. log'[1].op = "activate"
    <3>1. log # <<>> BY <1>1, <1>6, EmptySeq DEF n
    <3>2. log[1].op = "activate" BY <3>1 DEF ManifestInv, LogOrdered
    <3> QED BY <1>2, <1>6, <3>2
  <2>5. ASSUME NEW i \in 2 .. n + 1
        PROVE  /\ log'[i].epoch >= log'[i - 1].epoch
               /\ log'[i].op = "activate" <=> log'[i].epoch > log'[i - 1].epoch
    <3>1. CASE i = n + 1
      <4>1. log'[i] = r /\ log'[i - 1] = log[n] BY <1>2, <1>6, <3>1
      <4> QED BY <1>4, <2>1, <2>2, <2>3, <4>1
    <3>2. CASE i # n + 1
      <4>1. i \in 2 .. n /\ i - 1 \in 1 .. n /\ i \in 1 .. n BY <1>2, <3>2
      <4>2. log'[i] = log[i] /\ log'[i - 1] = log[i - 1] BY <1>2, <4>1
      <4> QED BY <4>1, <4>2 DEF ManifestInv, LogOrdered, n
    <3> QED BY <3>1, <3>2
  <2>6. ASSUME NEW i \in 1 .. n + 1, NEW j \in 1 .. n + 1, i < j, j - i <= MaxHistory
        PROVE  log'[i].id # log'[j].id
    <3>1. i \in 1 .. n /\ log'[i] = log[i] BY <1>2, <2>6
    <3>2. CASE j = n + 1
      <4> DEFINE k == i - (n - Len(m.history))
      <4>1. Len(m.history) = IF n < MaxHistory THEN n ELSE MaxHistory
        BY <2>1 DEF window, n
      <4>2. k \in 1 .. Len(m.history) BY <1>2, <2>3, <2>6, <3>1, <3>2, <4>1, LimitAssumption
      <4>3. n - Len(m.history) + k = i
        <5>1. i \in Int /\ n \in Int /\ Len(m.history) \in Int BY <1>2, <2>3
        <5>2. \A a, b, e \in Int : a - b + (e - (a - b)) = e OBVIOUS
        <5> HIDE DEF m
        <5> QED BY <5>1, <5>2
      <4>4. m.history[k] = log[n - Len(m.history) + k] BY <2>1, <4>2 DEF window, n
      <4>5. m.history[k].id # r.id BY <2>0, <2>1, <4>2, Unmatched
      <4> HIDE DEF k, m
      <4> QED BY <1>2, <3>1, <3>2, <4>3, <4>4, <4>5
    <3>3. CASE j # n + 1
      <4>1. j \in 1 .. n /\ log'[j] = log[j] BY <1>2, <3>3
      <4> QED BY <2>6, <3>1, <4>1 DEF ManifestInv, LogOrdered, n
    <3> QED BY <3>2, <3>3
  <2>7. ASSUME NEW i \in 1 .. n + 1, NEW j \in 1 .. n + 1, i < j, log'[i] = log'[j]
        PROVE  log'[i] \in risked'
    <3>1. i \in 1 .. n /\ log'[i] = log[i] BY <1>2, <2>7
    <3>2. CASE j = n + 1
      <4>1. inLog(r) BY <1>2, <2>7, <3>1, <3>2 DEF inLog, n
      <4> QED BY <1>0, <1>2, <2>7, <3>2, <4>1 DEF sound
    <3>3. CASE j # n + 1
      <4>1. j \in 1 .. n /\ log'[j] = log[j] BY <1>2, <3>3
      <4> QED BY <2>7, <3>1, <4>1 DEF ManifestInv, AppliedOnceOrRisked, n
    <3> QED BY <3>2, <3>3
  <2> QED BY <1>2, <2>4, <2>5, <2>6, <2>7 DEF LogOrdered, AppliedOnceOrRisked
<1> QED BY <1>5, <1>6

\* A commit leaves what was past in the past, and makes its proposal the present.
LEMMA CommitPast ==
  ASSUME ManifestInv, NEW p \in Pending, sound(p), p.request \in Request, commit(p)
  PROVE  /\ \A m \in Body : past(m) => past(m)'
         /\ past(p.body)'
<1>0. object \in [version : Nat, body : Body] /\ object'.version = object.version + 1
      /\ object'.body = p.body
  BY Typed DEF ManifestInv, commit
<1>1. object'.version # 0 BY <1>0
<1>2. /\ object'.body \in Manifest
      /\ object.version # 0 =>
           /\ object'.body.uid = object.body.uid
           /\ object'.body.revision = object.body.revision + 1
           /\ object'.body.epoch = p.request.epoch
           /\ p.request.op = "publish" => p.request.epoch = object.body.epoch
           /\ p.request.op = "activate" => p.request.epoch > object.body.epoch
  BY <1>1, CommitObject DEF ObjectOfLog
<1>3. p.request.epoch \in Nat /\ p.request.op \in {"activate", "publish"} BY RequestAssumption
<1>4. object'.body.epoch \in Nat /\ object'.body.revision \in 1 .. MaxRevision
  BY <1>2, ManifestFields
<1>5. past(p.body)' BY <1>0, <1>1, <1>4 DEF past
<1>6. ASSUME NEW m \in Body, past(m) PROVE past(m)'
  <2>1. object.version # 0 /\ m \in Manifest BY <1>6, Constants DEF past, Body
  <2>2. object.body \in Manifest BY <2>1 DEF ManifestInv, ObjectOfLog
  <2>3. /\ object.body.epoch \in Nat /\ object.body.revision \in Nat
        /\ m.epoch \in Nat /\ m.revision \in Nat
    BY <2>1, <2>2, ManifestFields, LimitAssumption
  <2>4. object.body.epoch <= object'.body.epoch BY <1>2, <1>3, <2>1, <2>3
  <2>5. /\ m.uid = object'.body.uid /\ m.epoch <= object'.body.epoch
        /\ m.revision <= object'.body.revision /\ m.revision # object'.body.revision
        /\ m.revision # 0
    BY <1>2, <1>4, <1>6, <2>1, <2>3, <2>4 DEF past
  <2> QED BY <1>1, <2>5 DEF past
<1> QED BY <1>5, <1>6

\* Nothing but the versions, the log and late writes changes with a commit; put of
\* at most one writer, whose proposal it is.
LEMMA CommitStep ==
  ASSUME ManifestInv, NEW p \in Pending, sound(p), p.request \in Request, commit(p),
         settled(p.request)',
         UNCHANGED <<lost, known, pending, acked, risked>>, call' \in [Writer -> Call],
         \A w \in Writer :
           \/ call'[w] = call[w]
           \/ /\ call[w].put = "sent" /\ call'[w].put = "committed" /\ pending[w] = p
              /\ call'[w].at = call[w].at /\ call'[w].request = call[w].request
              /\ call'[w].tries = call[w].tries
  PROVE  ManifestInv'
<1>0. /\ object \in [version : Nat, body : Body] /\ late' = {} /\ log' = Append(log, p.request)
      /\ object'.version = object.version + 1
      /\ known \in [Writer -> Body] /\ pending \in [Writer -> Pending] /\ log \in Seq(Request)
  BY Typed DEF ManifestInv, commit
<1>1. object' \in [version : Nat, body : Body] /\ log' \in Seq(Request) /\ ObjectOfLog'
  BY CommitObject
<1>2. LogOrdered' /\ AppliedOnceOrRisked' BY CommitLog
<1>3. TypeOK'
  <2>1. /\ lost' \in Nat /\ known' \in [Writer -> Body] /\ pending' \in [Writer -> Pending]
        /\ acked' \subseteq Request /\ risked' \subseteq Request /\ late' \subseteq Pending
    BY <1>0, Typed DEF ManifestInv
  <2> QED BY <1>1, <2>1, TypedPrime
<1>4. /\ \A r : inLog(r) => inLog(r)'
      /\ inLog(p.request)'
      /\ Len(log) \in Nat /\ Len(log') = Len(log) + 1 /\ log'[Len(log) + 1] = p.request
      /\ \A i \in 1 .. Len(log) : log'[i] = log[i]
  BY <1>0, LogGrows
<1>5. \A m \in Body : past(m) => past(m)' BY CommitPast
<1>6. past(p.body)' BY CommitPast
<1>7. ProposalsSound'
  <2>1. ASSUME NEW w \in Writer, pending[w] # NoPending PROVE sound(pending[w])'
    <3>1. pending[w].expected \in Nat /\ pending[w].expected <= object.version
      BY <1>0, <2>1 DEF ManifestInv, ProposalsSound, sound, Pending
    <3>2. pending[w].expected <= object'.version /\ pending[w].expected # object'.version
      BY <1>0, <3>1
    <3>3. pending'[w] = pending[w] OBVIOUS
    <3> QED BY <3>2, <3>3 DEF sound
  <2> QED BY <1>0, <2>1 DEF ProposalsSound
<1>8. CallsTracked' BY DEF ManifestInv, CallsTracked
<1>9. PastsKnown'
  <2>1. ASSUME NEW w \in Writer, known'[w].revision # 0 PROVE past(known[w])'
    BY <1>0, <1>5, <2>1 DEF ManifestInv, PastsKnown
  <2>2. ASSUME NEW w \in Writer, call'[w].put = "committed"
        PROVE  past(pending[w].body)' /\ inLog(pending[w].request)'
    <3>1. CASE pending[w] = p BY <1>4, <1>6, <3>1
    <3>2. CASE call'[w] = call[w]
      <4>1. past(pending[w].body) /\ inLog(pending[w].request)
        BY <2>2, <3>2 DEF ManifestInv, PastsKnown
      <4>2. pending[w].body \in Body BY <1>0 DEF Pending
      <4>3. past(pending[w].body)' BY <1>5, <4>1, <4>2
      <4>4. inLog(pending[w].request)' BY <1>4, <4>1
      <4> QED BY <4>3, <4>4
    <3> QED BY <3>1, <3>2
  <2> QED BY <2>1, <2>2 DEF PastsKnown
<1>10. AllSettled'
  <2>1. ASSUME NEW r, settled(r) PROVE settled(r)'
    BY <2>1 DEF settled
  <2>2. ASSUME NEW i \in 1 .. Len(log') PROVE settled(log[i])'
    <3>1. CASE i \in 1 .. Len(log)
      <4>1. settled(log[i]) BY <3>1 DEF ManifestInv, AllSettled
      <4>2. settled(log[i])' <=> \A r : r = log'[i] => settled(r)' BY DEF settled
      <4> QED BY <1>4, <2>1, <3>1, <4>1, <4>2
    <3>2. CASE i = Len(log) + 1 BY <1>4, <3>2 DEF settled
    <3> QED BY <1>4, <3>1, <3>2
  <2> QED BY <1>0, <2>2 DEF AllSettled
<1>11. CallsApart' BY DEF ManifestInv, CallsApart
<1>12. AckedApplied' BY <1>4 DEF ManifestInv, AckedApplied
<1> QED BY <1>1, <1>2, <1>3, <1>7, <1>8, <1>9, <1>10, <1>11, <1>12 DEF ManifestInv

--------------------------------------------------------------------------------
(***************************************************************************)
(* Steps that leave the object alone.                                      *)
(***************************************************************************)

\* A step of writer w: what it may change.
Local(w) ==
  /\ UNCHANGED <<object, log>>
  /\ call' \in [Writer -> Call] /\ pending' \in [Writer -> Pending] /\ known' \in [Writer -> Body]
  /\ late' \subseteq Pending /\ lost' \in Nat
  /\ acked' \subseteq Request /\ risked \subseteq risked' /\ risked' \subseteq Request
  /\ \A v \in Writer \ {w} :
       call'[v] = call[v] /\ pending'[v] = pending[v] /\ known'[v] = known[v]

\* Its call and its proposal still fit together.
Tracked(w) ==
  /\ pending'[w] # NoPending => pending'[w].request \in Asked[w]
  /\ call'[w].at # "idle" => call'[w].request \in Asked[w]
  /\ call'[w].at # "idle" /\ pending'[w] # NoPending => pending'[w].request = call'[w].request
  /\ call'[w].put # "none" <=> call'[w].at \in {"mutate", "resolve"}
  /\ call'[w].put # "none" => pending'[w] # NoPending
  /\ call'[w].at = "mutate" => ~pending'[w].ambiguous /\ call'[w].tries < MaxAttempts

\* It forgets no proposal that may have been applied.
Kept(w) ==
  pending[w].ambiguous \/ call[w].put = "committed" =>
    \/ pending[w].request \in risked' \cup acked'
    \/ /\ pending'[w].request = pending[w].request
       /\ pending'[w].ambiguous \/ call'[w].put = "committed"

\* It leaves late writes of its own proposal only.
LateOwn(w) ==
  \A p \in late' :
    \/ p \in late
    \/ /\ pending[w] # NoPending
       /\ p.request = pending[w].request /\ p.expected = pending[w].expected
       /\ p.body = pending[w].body
       /\ \/ p.request \in risked'
          \/ pending'[w].request = p.request /\ pending'[w].ambiguous

\* It reports what was applied, and at the end of its call.
Reported(w) ==
  \/ acked' = acked
  \/ /\ acked' = acked \cup {call[w].request}
     /\ call[w].at # "idle" /\ call'[w].at = "idle"
     /\ call[w].request.op = "publish" => inLog(call[w].request)

\* Its call goes on, or is one that CallsApart allows.
Apart(w) ==
  call'[w].at # "idle" =>
    \/ call[w].at # "idle" /\ call'[w].request = call[w].request
    \/ call'[w].request \in risked'
    \/ /\ call'[w].request \notin acked
       /\ \A v \in Writer \ {w} : call'[w].request \notin Asked[v]

LEMMA LocalStep ==
  ASSUME ManifestInv, NEW w \in Writer, Local(w), Tracked(w), Kept(w), LateOwn(w), Reported(w),
         Apart(w),
         known'[w].revision # 0 => past(known'[w]),
         call'[w].put = "committed" => call[w].put = "committed" /\ pending'[w] = pending[w],
         pending'[w] # NoPending =>
           \/ /\ pending[w] # NoPending /\ pending'[w].request = pending[w].request
              /\ pending'[w].expected = pending[w].expected /\ pending'[w].body = pending[w].body
           \/ sound(pending'[w])
  PROVE  ManifestInv'
<1>0. /\ late \subseteq Pending /\ pending \in [Writer -> Pending] /\ call \in [Writer -> Call]
      /\ object \in [version : Nat, body : Body] /\ log \in Seq(Request) /\ acked \subseteq Request
  BY Typed DEF ManifestInv
<1>1. TypeOK' BY <1>0, TypedPrime DEF Local
<1>2. ObjectOfLog' /\ LogOrdered' BY DEF Local, ManifestInv, ObjectOfLog, LogOrdered
<1>3. /\ \A r : inLog(r)' <=> inLog(r)
      /\ \A m : past(m)' <=> past(m)
  BY DEF Local, inLog, past
<1>4. acked \subseteq acked' /\ risked \subseteq risked' BY DEF Reported, Local
<1>5. \A p : sound(p) => sound(p)' BY <1>3, <1>4 DEF Local, sound
<1>6. \A p, q : sound(p) /\ q.request = p.request /\ q.expected = p.expected /\ q.body = p.body => sound(q)
  BY DEF sound
<1>7. ProposalsSound'
  <2>1. ASSUME NEW v \in Writer, pending'[v] # NoPending
        PROVE  sound(pending'[v])
    <3>1. CASE v = w BY <1>6, <2>1, <3>1 DEF ManifestInv, ProposalsSound
    <3>2. CASE v # w BY <2>1, <3>2 DEF Local, ManifestInv, ProposalsSound
    <3> QED BY <3>1, <3>2
  <2>2. ASSUME NEW p \in late' PROVE sound(p) /\ p.request \in Request
    <3>1. CASE p \in late BY <3>1 DEF ManifestInv, ProposalsSound
    <3>2. CASE p \notin late
      <4>1. /\ pending[w] # NoPending /\ p.request = pending[w].request
            /\ p.expected = pending[w].expected /\ p.body = pending[w].body
        BY <3>2 DEF LateOwn
      <4>2. sound(pending[w]) BY <4>1 DEF ManifestInv, ProposalsSound
      <4>3. pending[w].request \in Request
        BY <4>1, RequestAssumption DEF ManifestInv, CallsTracked
      <4> QED BY <1>6, <4>1, <4>2, <4>3
    <3> QED BY <3>1, <3>2
  <2>3. ASSUME NEW v \in Writer, pending'[v] # NoPending PROVE sound(pending[v])'
    <3>1. sound(pending'[v]) BY <2>1, <2>3
    <3> QED BY <1>3, <1>4, <3>1 DEF sound, Local
  <2>4. ASSUME NEW p \in late' PROVE sound(p)' /\ p.request \in Request
    BY <1>5, <2>2, <2>4
  <2> QED BY <2>3, <2>4 DEF ProposalsSound
<1>8. CallsTracked'
  <2>1. ASSUME NEW v \in Writer \ {w}
        PROVE call'[v] = call[v] /\ pending'[v] = pending[v] BY DEF Local
  <2> QED BY <2>1 DEF ManifestInv, CallsTracked, Tracked
<1>9. PastsKnown'
  <2>1. ASSUME NEW v \in Writer, known'[v].revision # 0 PROVE past(known'[v])
    BY <2>1 DEF Local, ManifestInv, PastsKnown
  <2>2. ASSUME NEW v \in Writer, call'[v].put = "committed"
        PROVE  past(pending'[v].body) /\ inLog(pending'[v].request)
    BY <2>2 DEF Local, ManifestInv, PastsKnown
  <2>3. ASSUME NEW v \in Writer, known'[v].revision # 0 PROVE past(known[v])'
    BY <1>3, <2>1, <2>3 DEF past, Local
  <2>4. ASSUME NEW v \in Writer, call'[v].put = "committed"
        PROVE  past(pending[v].body)' /\ inLog(pending[v].request)'
    BY <2>2, <2>4 DEF past, inLog, Local
  <2> QED BY <2>3, <2>4 DEF PastsKnown
<1>10. AllSettled'
  <2>1. ASSUME NEW r, settled(r) PROVE settled(r)'
    <3>1. CASE r \in risked \/ r \in acked BY <1>4, <3>1 DEF settled
    <3>2. ASSUME NEW v \in Writer, r \in Asked[v], pending[v].request = r,
                 pending[v].ambiguous \/ call[v].put = "committed"
          PROVE  settled(r)'
      <4>1. CASE v = w BY <3>2, <4>1 DEF Kept, settled
      <4>2. CASE v # w BY <3>2, <4>2 DEF Local, settled
      <4> QED BY <4>1, <4>2
    <3> QED BY <2>1, <3>1, <3>2 DEF settled
  <2>2. ASSUME NEW i \in 1 .. Len(log') PROVE settled(log[i])'
    <3>1. settled(log[i]) /\ log' = log BY DEF Local, ManifestInv, AllSettled
    <3>2. settled(log[i])' <=> \A r : r = log'[i] => settled(r)' BY DEF settled
    <3> QED BY <2>1, <3>1, <3>2
  <2>3. ASSUME NEW p \in late' PROVE settled(p.request)'
    <3>1. CASE p \in late BY <2>1, <3>1 DEF ManifestInv, AllSettled
    <3>2. CASE p \notin late
      <4>1. /\ pending[w] # NoPending /\ p.request = pending[w].request
            /\ p.request \in risked' \/ (pending'[w].request = p.request /\ pending'[w].ambiguous)
        BY <3>2 DEF LateOwn
      <4>2. pending[w].request \in Asked[w] BY <4>1 DEF ManifestInv, CallsTracked
      <4> QED BY <4>1, <4>2 DEF settled
    <3> QED BY <3>1, <3>2
  <2> QED BY <2>2, <2>3 DEF AllSettled
<1>11. CallsApart'
  <2> SUFFICES ASSUME NEW v \in Writer, call'[v].at # "idle", call'[v].request \notin risked'
               PROVE  /\ call'[v].request \notin acked'
                      /\ \A u \in Writer \ {v} : call'[v].request \notin Asked[u]
    BY DEF CallsApart
  <2>1. /\ call'[v].request \notin acked
        /\ \A u \in Writer \ {v} : call'[v].request \notin Asked[u]
    <3>1. CASE v = w BY <1>4, <3>1 DEF Apart, ManifestInv, CallsApart
    <3>2. CASE v # w BY <1>4, <3>2 DEF Local, ManifestInv, CallsApart
    <3> QED BY <3>1, <3>2
  <2>2. call'[v].request \notin acked'
    <3>1. CASE acked' = acked BY <2>1, <3>1
    <3>2. CASE acked' = acked \cup {call[w].request} /\ call[w].at # "idle" /\ call'[w].at = "idle"
      <4>1. call[w].request \in Asked[w] BY <3>2 DEF ManifestInv, CallsTracked
      <4>2. v # w BY <3>2
      <4> QED BY <2>1, <3>2, <4>1, <4>2
    <3> QED BY <3>1, <3>2 DEF Reported
  <2> QED BY <2>1, <2>2
<1>12. AckedApplied' BY <1>3 DEF ManifestInv, AckedApplied, Reported
<1>13. AppliedOnceOrRisked' BY <1>4 DEF Local, ManifestInv, AppliedOnceOrRisked
<1> QED BY <1>1, <1>2, <1>7, <1>8, <1>9, <1>10, <1>11, <1>12, <1>13 DEF ManifestInv

\* What the invariant says of one writer.
LEMMA OfWriter ==
  ASSUME ManifestInv, NEW w \in Writer
  PROVE  /\ object \in [version : Nat, body : Body] /\ late \subseteq Pending /\ lost \in Nat
         /\ known \in [Writer -> Body] /\ pending \in [Writer -> Pending]
         /\ call \in [Writer -> Call] /\ acked \subseteq Request /\ risked \subseteq Request
         /\ call[w] \in Call /\ pending[w] \in Pending
         /\ known[w].revision # 0 => past(known[w])
         /\ pending[w] # NoPending => pending[w].request \in Asked[w] /\ pending[w].request \in Request
         /\ call[w].at # "idle" => call[w].request \in Asked[w] /\ call[w].request \in Request
         /\ call[w].at # "idle" /\ pending[w] # NoPending => pending[w].request = call[w].request
         /\ call[w].put # "none" <=> call[w].at \in {"mutate", "resolve"}
         /\ call[w].put # "none" => pending[w] # NoPending
         /\ call[w].at = "mutate" => ~pending[w].ambiguous /\ call[w].tries < MaxAttempts
         /\ pending[w].ambiguous => pending[w] # NoPending
<1>1. Asked[w] \subseteq Request BY RequestAssumption
<1>2. /\ object \in [version : Nat, body : Body] /\ late \subseteq Pending /\ lost \in Nat
      /\ known \in [Writer -> Body] /\ pending \in [Writer -> Pending]
      /\ call \in [Writer -> Call] /\ acked \subseteq Request /\ risked \subseteq Request
      /\ call[w] \in Call /\ pending[w] \in Pending
  BY Typed DEF ManifestInv
<1>3. pending[w].ambiguous => pending[w] # NoPending BY Constants
<1> QED BY <1>1, <1>2, <1>3 DEF ManifestInv, CallsTracked, PastsKnown

LEMMA PresentIsPast ==
  ASSUME ManifestInv, object.version # 0
  PROVE  past(object.body) /\ object.body \in Manifest
<1>1. object.body \in Manifest /\ object.body.revision = object.version
  BY DEF ManifestInv, ObjectOfLog
<1>2. object.body.epoch \in Nat /\ object.body.revision \in Nat
  BY <1>1, ManifestFields, LimitAssumption
<1> QED BY <1>1, <1>2 DEF past

LEMMA MatchedInLog ==
  ASSUME ManifestInv, NEW r, matched(object.body, r)
  PROVE  inLog(r)
<1>0. log \in Seq(Request) /\ Len(log) \in Nat BY Typed, LenProperties DEF ManifestInv
<1>1. CASE object.version = 0
  <2>1. object.body = NoManifest BY <1>1 DEF ManifestInv, ObjectOfLog
  <2>2. NoManifest.history = <<>> BY DEF NoManifest
  <2>3. DOMAIN NoManifest.history = {} BY <2>2
  <2> QED BY <2>1, <2>3 DEF matched, entries
<1>2. CASE object.version # 0
  <2> DEFINE h == object.body.history
  <2>1. window(h, log) /\ h \in Seq(Request)
    BY <1>2, ManifestFields DEF ManifestInv, ObjectOfLog
  <2>2. Len(h) \in Nat /\ DOMAIN h = 1 .. Len(h) BY <2>1, LenProperties
  <2>3. PICK i \in 1 .. Len(h) : h[i] = r BY <2>2 DEF matched, entries
  <2>4. Len(h) <= Len(log) BY <1>0, <2>1, <2>2, LimitAssumption DEF window
  <2>5. h[i] = log[Len(log) - Len(h) + i] BY <2>1 DEF window
  <2> HIDE DEF h
  <2>6. Len(log) - Len(h) + i \in 1 .. Len(log) BY <1>0, <2>2, <2>4
  <2> QED BY <2>3, <2>5, <2>6 DEF inLog
<1> QED BY <1>1, <1>2

\* The errors of a write tell whether it can have been applied.
LEMMA PutErrors ==
  ASSUME NEW w, NEW err \in putErrors(w)
  PROVE  /\ call[w].put # "none"
         /\ err = "nil" => call[w].put = "committed"
         /\ call[w].put = "committed" => err \in {"nil", "outcome_unknown"}
<1> DEFINE op == IF pending[w].expected = 0 THEN "create_if_absent" ELSE "compare_and_swap"
           answers == putAnswers(call[w].put = "committed", object.version = pending[w].expected)
<1>1. call[w].put # "none" BY DEF putErrors
<1>2. PICK a \in answers : err = putError(op, a) BY <1>1 DEF putErrors
<1>3. op # "get" OBVIOUS
<1>4. CASE call[w].put = "committed"
  <2>1. a \in {"ok", "noETag", "5xx", "transport"} BY <1>4 DEF putAnswers, Success
  <2> HIDE DEF op
  <2> QED BY <1>1, <1>2, <1>3, <1>4, <2>1 DEF putError, classifyError
<1>5. CASE call[w].put # "committed"
  <2>1. a \in Failure BY <1>5 DEF putAnswers
  <2> HIDE DEF op
  <2>2. err # "nil" BY <1>2, <2>1 DEF putError, classifyError, Failure
  <2> QED BY <1>1, <1>5, <2>2
<1> QED BY <1>4, <1>5

LEMMA Errors ==
  ASSUME NEW err
  PROVE  /\ is(err, "ErrUnknownOutcome") <=> err = "outcome_unknown"
         /\ is(err, "ErrConflict") <=> err \in {"precondition_failed", "conflict"}
BY DEF is

--------------------------------------------------------------------------------
(***************************************************************************)
(* The actions.                                                            *)
(***************************************************************************)

LEMMA AskStep ==
  ASSUME ManifestInv, NEW w \in Writer, NEW r \in Request, Ask(w, r)
  PROVE  ManifestInv'
<1>0. 0 \in 0 .. MaxAttempts BY LimitAssumption
<1>1. [NoCall EXCEPT !.at = "loop", !.request = r] \in Call
  BY <1>0 DEF NoCall, Call
<1> USE OfWriter
<1>2. /\ call' \in [Writer -> Call] /\ \A v \in Writer \ {w} : call'[v] = call[v]
      /\ call'[w].at = "loop" /\ call'[w].put = "none" /\ call'[w].request = r
  BY <1>1 DEF Ask, NoCall
<1>3. /\ UNCHANGED <<object, late, lost, known, pending, log, acked>>
      /\ call[w].at = "idle" /\ r \in Asked[w] /\ (pending[w] # NoPending => pending[w].request = r)
      /\ risked' = risked \cup ({r} \cap (acked \cup UNION {Asked[v] : v \in Writer \ {w}}))
  BY DEF Ask
<1>4. Local(w) BY <1>2, <1>3 DEF Local
<1>5. Tracked(w) BY <1>2, <1>3 DEF Tracked
<1>6. Kept(w) BY <1>2, <1>3 DEF Kept
<1>7. LateOwn(w) /\ Reported(w) BY <1>3 DEF LateOwn, Reported
<1>8. Apart(w) BY <1>2, <1>3 DEF Apart
<1>9. /\ known'[w].revision # 0 => past(known'[w])
      /\ pending' = pending /\ call'[w].put # "committed"
  BY <1>2, <1>3
<1> QED BY <1>4, <1>5, <1>6, <1>7, <1>8, <1>9, LocalStep

\* A call that returns, with what it has learnt and what it leaves of its proposal.
LEMMA ReturnStep ==
  ASSUME ManifestInv, NEW w \in Writer, call[w].at # "idle", return(w),
         UNCHANGED <<object, late, lost, log, risked>>,
         known' \in [Writer -> Body], \A v \in Writer \ {w} : known'[v] = known[v],
         known'[w] = known[w] \/ past(known'[w]),
         NEW y \in Pending, pending' = [pending EXCEPT ![w] = y],
         y = pending[w] \/ y = NoPending,
         \/ acked' = acked
         \/ /\ acked' = acked \cup {call[w].request}
            /\ call[w].request.op = "publish" => inLog(call[w].request),
         call[w].put = "committed" => call[w].request \in acked',
         pending[w].ambiguous => y = pending[w] \/ call[w].request \in acked'
  PROVE  ManifestInv'
<1> USE OfWriter
<1>1. /\ call' \in [Writer -> Call] /\ \A v \in Writer \ {w} : call'[v] = call[v]
      /\ call'[w].at = "idle" /\ call'[w].put = "none"
  BY Constants DEF return
<1>2. /\ pending' \in [Writer -> Pending] /\ \A v \in Writer \ {w} : pending'[v] = pending[v]
      /\ pending'[w] = y
  OBVIOUS
<1>3. Local(w) BY <1>1, <1>2 DEF Local
<1>4. Tracked(w) BY <1>1, <1>2 DEF Tracked
<1>5. Kept(w) BY <1>2 DEF Kept
<1>6. LateOwn(w) /\ Reported(w) /\ Apart(w) BY <1>1 DEF LateOwn, Reported, Apart
<1> QED BY <1>1, <1>2, <1>3, <1>4, <1>5, <1>6, LocalStep

LEMMA FailStep ==
  ASSUME ManifestInv, NEW w \in Writer, Cancel(w) \/ GiveUp(w) \/ ReadFails(w)
  PROVE  ManifestInv'
<1> USE OfWriter
<1>1. /\ call[w].at \in {"loop", "rebase"} /\ return(w) /\ acked' = acked
      /\ UNCHANGED <<object, late, lost, known, log, risked>>
      /\ pending' = pending \/ dropUnlessAmbiguous(w)
  BY DEF Cancel, GiveUp, ReadFails, fail
<1>2. PICK y \in {pending[w], NoPending} :
        pending' = [pending EXCEPT ![w] = y] /\ (pending[w].ambiguous => y = pending[w])
  <2>1. CASE pending' = pending
    <3>1. pending' = [pending EXCEPT ![w] = pending[w]] BY <2>1
    <3> QED BY <3>1
  <2>2. CASE dropUnlessAmbiguous(w)
    <3> DEFINE y == IF pending[w].ambiguous THEN pending[w] ELSE NoPending
    <3>1. pending' = [pending EXCEPT ![w] = y] BY <2>2 DEF dropUnlessAmbiguous
    <3>2. y \in {pending[w], NoPending} /\ (pending[w].ambiguous => y = pending[w]) OBVIOUS
    <3> HIDE DEF y
    <3> QED BY <3>1, <3>2
  <2> QED BY <1>1, <2>1, <2>2
<1>3. y \in Pending BY <1>2, Constants
<1>4. call[w].put = "none" BY <1>1
<1>5. /\ known' \in [Writer -> Body] /\ \A v \in Writer \ {w} : known'[v] = known[v]
      /\ known'[w] = known[w]
  BY <1>1
<1> QED BY <1>1, <1>2, <1>3, <1>4, <1>5, ReturnStep

\* A call that goes on, with what it has learnt.
LEMMA ContinueStep ==
  ASSUME ManifestInv, NEW w \in Writer, call[w].at # "idle", NEW x \in Call,
         call' = [call EXCEPT ![w] = x],
         x.at # "idle", x.request = call[w].request, x.put # "committed",
         x.put # "none" <=> x.at \in {"mutate", "resolve"},
         UNCHANGED <<object, late, lost, log, risked, acked>>,
         known' \in [Writer -> Body], \A v \in Writer \ {w} : known'[v] = known[v],
         known'[w] = known[w] \/ past(known'[w]),
         NEW y \in Pending, pending' = [pending EXCEPT ![w] = y],
         pending[w].ambiguous => y = pending[w],
         call[w].put # "committed",
         y # NoPending => y = pending[w] \/ (y.request = call[w].request /\ sound(y)),
         x.put # "none" => y # NoPending,
         x.at = "mutate" => ~y.ambiguous /\ x.tries < MaxAttempts
  PROVE  ManifestInv'
<1> USE OfWriter
<1>1. /\ call' \in [Writer -> Call] /\ \A v \in Writer \ {w} : call'[v] = call[v]
      /\ call'[w] = x
  OBVIOUS
<1>2. /\ pending' \in [Writer -> Pending] /\ \A v \in Writer \ {w} : pending'[v] = pending[v]
      /\ pending'[w] = y
  OBVIOUS
<1>3. Local(w) BY <1>1, <1>2 DEF Local
<1>4. Tracked(w) BY <1>1, <1>2 DEF Tracked
<1>5. Kept(w) BY <1>1, <1>2 DEF Kept
<1>6. LateOwn(w) /\ Reported(w) /\ Apart(w) BY <1>1 DEF LateOwn, Reported, Apart
<1>7. known'[w].revision # 0 => past(known'[w]) OBVIOUS
<1>8. call'[w].put # "committed" BY <1>1
<1>9. pending'[w] # NoPending =>
        \/ /\ pending[w] # NoPending /\ pending'[w].request = pending[w].request
           /\ pending'[w].expected = pending[w].expected /\ pending'[w].body = pending[w].body
        \/ sound(pending'[w])
  BY <1>2
<1> QED BY <1>3, <1>4, <1>5, <1>6, <1>7, <1>8, <1>9, LocalStep

\* A request that is in the log and of which no proposal is left is risked.
LEMMA RepeatRisked ==
  ASSUME ManifestInv, NEW w \in Writer, call[w].at # "idle", pending[w] = NoPending,
         inLog(call[w].request)
  PROVE  call[w].request \in risked
<1> DEFINE r == call[w].request
<1>1. r \in Asked[w] /\ r \in Request BY OfWriter
<1>2. settled(r) BY DEF ManifestInv, AllSettled, inLog
<1>3. CASE r \in acked BY <1>3 DEF ManifestInv, CallsApart
<1>4. ASSUME NEW v \in Writer, r \in Asked[v], pending[v].request = r PROVE r \in risked
  <2>1. v # w BY <1>1, <1>4, Constants
  <2> QED BY <1>4, <2>1 DEF ManifestInv, CallsApart
<1> QED BY <1>2, <1>3, <1>4 DEF settled

\* A read leaves a writer with what it knew, or with the present.
LEMMA ReadKeeps ==
  ASSUME ManifestInv, NEW w \in Writer,
         known' = known \/ (object.version # 0 /\ remember(w, object.body))
  PROVE  /\ known' \in [Writer -> Body] /\ \A v \in Writer \ {w} : known'[v] = known[v]
         /\ known'[w] = known[w] \/ past(known'[w])
<1>1. known \in [Writer -> Body] BY Typed DEF ManifestInv
<1>2. CASE known' = known BY <1>1, <1>2
<1>3. CASE object.version # 0 /\ remember(w, object.body)
  <2>1. past(object.body) /\ object.body \in Body BY <1>3, PresentIsPast DEF Body
  <2>2. known' = [known EXCEPT ![w] = object.body] BY <1>3 DEF remember
  <2> QED BY <1>1, <2>1, <2>2
<1> QED BY <1>2, <1>3

\* The places of a call.
LEMMA CallKeeps ==
  ASSUME NEW x \in Call
  PROVE  /\ [x EXCEPT !.at = "rebase"] \in Call
         /\ \A at \in {"mutate", "resolve"} : [x EXCEPT !.at = at, !.put = "sent"] \in Call
         /\ x.tries < MaxAttempts =>
              [x EXCEPT !.at = "loop", !.tries = @ + 1, !.put = "none"] \in Call
         /\ [x EXCEPT !.put = "sent"] \in Call /\ [x EXCEPT !.put = "committed"] \in Call
<1>1. x.tries \in 0 .. MaxAttempts BY DEF Call
<1>2. x.tries < MaxAttempts => x.tries + 1 \in 0 .. MaxAttempts BY <1>1, LimitAssumption
<1> QED BY <1>2 DEF Call

LEMMA ResolvePendingStep ==
  ASSUME ManifestInv, NEW w \in Writer, ResolvePending(w)
  PROVE  ManifestInv'
<1> DEFINE p == pending[w]  m == object.body
<1>0. /\ call[w].at = "loop" /\ call[w].tries < MaxAttempts /\ p # NoPending
      /\ UNCHANGED <<object, late, lost, log, risked>>
      /\ known' = known \/ (object.version # 0 /\ remember(w, m))
  BY DEF ResolvePending
<1>a. /\ known' \in [Writer -> Body] /\ \A v \in Writer \ {w} : known'[v] = known[v]
      /\ known'[w] = known[w] \/ past(known'[w])
  BY <1>0, ReadKeeps
<1>b. /\ call[w].put = "none" /\ p.request = call[w].request /\ call[w] \in Call /\ p \in Pending
      /\ pending \in [Writer -> Pending] /\ call \in [Writer -> Call]
  BY <1>0, OfWriter
<1>1. CASE matched(m, p.request) /\ clearPending(w) /\ succeed(w)
  <2>1. return(w) /\ acked' = acked \cup {call[w].request} BY <1>1 DEF succeed
  <2>2. inLog(call[w].request) BY <1>1, <1>b, MatchedInLog
  <2>3. pending' = [pending EXCEPT ![w] = NoPending] /\ NoPending \in Pending
    BY <1>1, Constants DEF clearPending
  <2> QED BY <1>0, <1>a, <1>b, <2>1, <2>2, <2>3, ReturnStep
<1>2. CASE dropUnlessAmbiguous(w) /\ fail(w)
  <2> DEFINE y == IF p.ambiguous THEN p ELSE NoPending
  <2>1. pending' = [pending EXCEPT ![w] = y] BY <1>2 DEF dropUnlessAmbiguous
  <2>2. y \in {p, NoPending} /\ (p.ambiguous => y = p) /\ y \in Pending BY <1>b, Constants
  <2>3. return(w) /\ acked' = acked BY <1>2 DEF fail
  <2> HIDE DEF y
  <2> QED BY <1>0, <1>a, <1>b, <2>1, <2>2, <2>3, ReturnStep
<1>3. CASE send(w, "resolve") /\ UNCHANGED pending
  <2> DEFINE x == [call[w] EXCEPT !.at = "resolve", !.put = "sent"]
  <2>1. call' = [call EXCEPT ![w] = x] /\ acked' = acked BY <1>3, <1>b DEF send
  <2>2. x \in Call /\ x.at = "resolve" /\ x.put = "sent" /\ x.request = call[w].request
    BY <1>b, CallKeeps DEF Call
  <2>3. pending' = [pending EXCEPT ![w] = p] BY <1>3, <1>b
  <2> HIDE DEF x
  <2> QED BY <1>0, <1>a, <1>b, <2>1, <2>2, <2>3, ContinueStep
<1>4. CASE lostInHistory(w)
  <2>1. CASE pending[w].ambiguous /\ fail(w) /\ UNCHANGED pending
    <3>1. pending' = [pending EXCEPT ![w] = p] BY <2>1, <1>b
    <3>2. return(w) /\ acked' = acked BY <2>1 DEF fail
    <3> QED BY <1>0, <1>a, <1>b, <3>1, <3>2, ReturnStep
  <2>2. CASE /\ ~pending[w].ambiguous /\ call' = [call EXCEPT ![w].at = "rebase"]
             /\ clearPending(w) /\ UNCHANGED acked
    <3> DEFINE x == [call[w] EXCEPT !.at = "rebase"]
    <3>1. call' = [call EXCEPT ![w] = x] BY <2>2, <1>b
    <3>2. x \in Call /\ x.at = "rebase" /\ x.put = "none" /\ x.request = call[w].request
      BY <1>b, CallKeeps DEF Call
    <3>3. pending' = [pending EXCEPT ![w] = NoPending] /\ NoPending \in Pending
      BY <2>2, Constants DEF clearPending
    <3> HIDE DEF x
    <3> QED BY <1>0, <1>a, <1>b, <2>2, <3>1, <3>2, <3>3, ContinueStep
  <2> QED BY <1>4, <2>1, <2>2 DEF lostInHistory
<1> QED BY <1>1, <1>2, <1>3, <1>4 DEF ResolvePending

LEMMA ProposeStep ==
  ASSUME ManifestInv, NEW w \in Writer, Propose(w)
  PROVE  ManifestInv'
<1> DEFINE r == call[w].request  m == object.body
<1>0. /\ call[w].at \in {"loop", "rebase"} /\ call[w].tries < MaxAttempts
      /\ pending[w] = NoPending
      /\ UNCHANGED <<object, late, lost, log, risked>>
      /\ known' = known \/ (object.version # 0 /\ remember(w, m))
  BY DEF Propose
<1>a. /\ known' \in [Writer -> Body] /\ \A v \in Writer \ {w} : known'[v] = known[v]
      /\ known'[w] = known[w] \/ past(known'[w])
  BY <1>0, ReadKeeps
<1>b. /\ call[w].put = "none" /\ call[w] \in Call /\ pending[w] \in Pending
      /\ pending \in [Writer -> Pending] /\ call \in [Writer -> Call] /\ r \in Request
      /\ object.version \in Nat /\ ~pending[w].ambiguous
  BY <1>0, OfWriter
<1>c. inLog(r) => r \in risked BY <1>0, RepeatRisked
<1>1. CASE ((done(m, r) /\ succeed(w)) \/ fail(w)) /\ UNCHANGED pending
  <2>1. pending' = [pending EXCEPT ![w] = pending[w]] BY <1>1, <1>b
  <2>2. return(w) BY <1>1 DEF succeed, fail
  <2>3. \/ acked' = acked
        \/ acked' = acked \cup {r} /\ (r.op = "publish" => inLog(r))
    <3>1. CASE fail(w) BY <3>1 DEF fail
    <3>2. CASE done(m, r) /\ succeed(w)
      <4>1. r.op = "publish" => matched(m, r) BY <3>2 DEF done
      <4> QED BY <3>2, <4>1, MatchedInLog DEF succeed
    <3> QED BY <1>1, <3>1, <3>2
  <2> QED BY <1>0, <1>a, <1>b, <2>1, <2>2, <2>3, ReturnStep
<1>2. ASSUME NEW body \in Manifest, propose(w, object.version, body),
             IF object.version = 0
             THEN r.op = "activate" /\ \E v \in Writer : body = initialRecord(v, r)
             ELSE admissible(m, r) /\ body = resultRecord(m, r)
      PROVE  ManifestInv'
  <2> DEFINE x == [call[w] EXCEPT !.at = "mutate", !.put = "sent"]
             y == [request |-> r, expected |-> object.version, body |-> body, ambiguous |-> FALSE]
  <2>1. pending' = [pending EXCEPT ![w] = y] /\ call' = [call EXCEPT ![w] = x] /\ acked' = acked
    BY <1>2, <1>b DEF propose, send
  <2>2. x \in Call /\ x.at = "mutate" /\ x.put = "sent" /\ x.request = r /\ x.tries = call[w].tries
    BY <1>b, CallKeeps DEF Call
  <2>3. y \in Pending /\ y.request = r /\ ~y.ambiguous /\ y.expected = object.version /\ y.body = body
    BY <1>b DEF Pending, Body
  <2>4. y # NoPending BY <1>b, <2>3, Constants
  <2> HIDE DEF x, y
  <2>5. sound(y) BY <1>2, <1>b, <1>c, <2>3 DEF sound
  <2> QED BY <1>0, <1>a, <1>b, <2>1, <2>2, <2>3, <2>4, <2>5, ContinueStep
<1>3. CASE object.version = 0 /\ r.op = "activate" /\ propose(w, 0, initialRecord(w, r))
  <2>1. initialRecord(w, r) \in Manifest BY <1>b, InitialRecordType
  <2> QED BY <1>2, <1>3, <2>1
<1>4. CASE object.version # 0 /\ admissible(m, r) /\ propose(w, object.version, resultRecord(m, r))
  <2>1. m \in Manifest BY <1>4, PresentIsPast
  <2>2. resultRecord(m, r) \in Manifest BY <1>4, <1>b, <2>1, ResultRecordType
  <2> QED BY <1>2, <1>4, <2>2
<1> QED BY <1>1, <1>3, <1>4 DEF Propose

LEMMA ReadStep ==
  ASSUME ManifestInv, NEW w \in Writer, Read(w)
  PROVE  ManifestInv'
<1> USE OfWriter
<1>1. /\ known' \in [Writer -> Body] /\ \A v \in Writer \ {w} : known'[v] = known[v]
      /\ known'[w] = known[w] \/ past(known'[w])
  BY ReadKeeps DEF Read
<1>2. UNCHANGED <<object, late, lost, pending, call, log, acked, risked>> BY DEF Read
<1>3. Local(w) BY <1>1, <1>2 DEF Local
<1>4. Tracked(w) /\ Kept(w) BY <1>2 DEF Tracked, Kept
<1>5. LateOwn(w) /\ Reported(w) /\ Apart(w) BY <1>2 DEF LateOwn, Reported, Apart
<1> QED BY <1>1, <1>2, <1>3, <1>4, <1>5, LocalStep

LEMMA StoreCommitsStep ==
  ASSUME ManifestInv, NEW w \in Writer, StoreCommits(w)
  PROVE  ManifestInv'
<1> DEFINE x == [call[w] EXCEPT !.put = "committed"]
<1>0. PICK p : p = pending[w] OBVIOUS
<1>1. /\ call[w].put = "sent" /\ commit(p)
      /\ UNCHANGED <<lost, known, pending, acked, risked>>
  BY <1>0 DEF StoreCommits
<1>2. /\ pending[w] # NoPending /\ p \in Pending /\ p.request \in Request /\ p.request \in Asked[w]
      /\ call \in [Writer -> Call] /\ call[w] \in Call
  BY <1>0, <1>1, OfWriter
<1>3. sound(p) BY <1>0, <1>2 DEF ManifestInv, ProposalsSound
<1>4. /\ call' = [call EXCEPT ![w] = x] /\ x \in Call /\ x.put = "committed"
      /\ x.at = call[w].at /\ x.request = call[w].request /\ x.tries = call[w].tries
  BY <1>2, CallKeeps DEF StoreCommits, Call
<1> HIDE DEF x
<1>5. /\ call' \in [Writer -> Call] /\ call'[w] = x
      /\ \A v \in Writer \ {w} : call'[v] = call[v]
  BY <1>2, <1>4
<1>6. settled(p.request)'
  <2>1. p.request \in Asked[w] /\ pending'[w].request = p.request /\ call'[w].put = "committed"
    BY <1>0, <1>1, <1>2, <1>4, <1>5
  <2> QED BY <2>1 DEF settled
<1>7. \A v \in Writer :
        \/ call'[v] = call[v]
        \/ /\ call[v].put = "sent" /\ call'[v].put = "committed" /\ pending[v] = p
           /\ call'[v].at = call[v].at /\ call'[v].request = call[v].request
           /\ call'[v].tries = call[v].tries
  BY <1>0, <1>1, <1>4, <1>5
<1> QED BY <1>1, <1>2, <1>3, <1>5, <1>6, <1>7, CommitStep

LEMMA LateWriteStep ==
  ASSUME ManifestInv, NEW p \in late, LateWriteArrives(p)
  PROVE  ManifestInv'
<1>1. commit(p) /\ UNCHANGED <<lost, known, pending, call, acked, risked>>
  BY DEF LateWriteArrives
<1>2. /\ p \in Pending /\ p.request \in Request /\ sound(p) /\ call \in [Writer -> Call]
  BY Typed DEF ManifestInv, ProposalsSound
<1>3. settled(p.request) BY DEF ManifestInv, AllSettled
<1>4. settled(p.request)' BY <1>1, <1>3 DEF settled
<1> QED BY <1>1, <1>2, <1>4, CommitStep

LEMMA PutSucceedsStep ==
  ASSUME ManifestInv, NEW w \in Writer, PutSucceeds(w)
  PROVE  ManifestInv'
<1>1. /\ remember(w, pending[w].body) /\ clearPending(w) /\ succeed(w)
      /\ UNCHANGED <<object, late, lost, log, risked>>
  BY DEF PutSucceeds
<1>2. call[w].put = "committed" BY PutErrors DEF PutSucceeds
<1>3. past(pending[w].body) /\ inLog(pending[w].request) BY <1>2 DEF ManifestInv, PastsKnown
<1>4. /\ call[w].at # "idle" /\ pending[w].request = call[w].request
      /\ pending[w].body \in Body /\ known \in [Writer -> Body]
  BY <1>2, OfWriter DEF Pending
<1>5. known' = [known EXCEPT ![w] = pending[w].body] BY <1>1 DEF remember
<1>6. /\ known' \in [Writer -> Body] /\ \A v \in Writer \ {w} : known'[v] = known[v]
      /\ past(known'[w])
  BY <1>3, <1>4, <1>5
<1>7. pending' = [pending EXCEPT ![w] = NoPending] /\ NoPending \in Pending
  BY <1>1, Constants DEF clearPending
<1>8. return(w) /\ acked' = acked \cup {call[w].request} BY <1>1 DEF succeed
<1> QED BY <1>1, <1>3, <1>4, <1>6, <1>7, <1>8, ReturnStep

\* What a request without an answer leaves in the network.
LEMMA GivenUp ==
  ASSUME ManifestInv, NEW w \in Writer, givenUp(w), call[w].put # "none"
  PROVE  /\ late' \subseteq Pending /\ lost' \in Nat
         /\ \A p \in late' :
              \/ p \in late
              \/ /\ p.request = pending[w].request /\ p.expected = pending[w].expected
                 /\ p.body = pending[w].body
<1> DEFINE q == [pending[w] EXCEPT !.ambiguous = FALSE]
<1>1. late \subseteq Pending /\ lost \in Nat /\ pending[w] \in Pending BY OfWriter
<1>2. /\ q \in Pending /\ q.request = pending[w].request /\ q.expected = pending[w].expected
      /\ q.body = pending[w].body
  BY <1>1 DEF Pending
<1>3. late' \in {late, late \cup {q}} /\ lost' = lost + 1 BY DEF givenUp
<1> HIDE DEF q
<1> QED BY <1>1, <1>2, <1>3

LEMMA PutUnknownStep ==
  ASSUME ManifestInv, NEW w \in Writer, PutUnknown(w)
  PROVE  ManifestInv'
<1> USE OfWriter
<1> DEFINE p == pending[w]
<1>0. /\ givenUp(w) /\ pending' = [pending EXCEPT ![w].ambiguous = TRUE] /\ afterError(w)
      /\ UNCHANGED <<object, known, log, risked>>
  BY DEF PutUnknown
<1>1. call[w].put # "none" /\ p # NoPending BY PutErrors DEF PutUnknown
<1>2. /\ late' \subseteq Pending /\ lost' \in Nat
      /\ \A q \in late' :
           \/ q \in late
           \/ q.request = p.request /\ q.expected = p.expected /\ q.body = p.body
  BY <1>0, <1>1, GivenUp
<1>3. /\ pending' \in [Writer -> Pending] /\ \A v \in Writer \ {w} : pending'[v] = pending[v]
      /\ pending'[w].ambiguous /\ pending'[w].request = p.request
      /\ pending'[w].expected = p.expected /\ pending'[w].body = p.body
  BY <1>0 DEF Pending
<1>4. pending'[w] # NoPending BY <1>1, <1>3, Constants
<1>5. /\ call' \in [Writer -> Call] /\ \A v \in Writer \ {w} : call'[v] = call[v]
      /\ call'[w].put = "none" /\ acked' = acked
      /\ \/ call'[w].at = "loop" /\ call'[w].request = call[w].request
         \/ call'[w].at = "idle"
  <2>1. CASE call[w].at = "mutate" /\ again(w)
    <3> DEFINE x == [call[w] EXCEPT !.at = "loop", !.tries = @ + 1, !.put = "none"]
    <3>1. call' = [call EXCEPT ![w] = x] /\ acked' = acked BY <2>1 DEF again
    <3>2. x \in Call /\ x.at = "loop" /\ x.put = "none" /\ x.request = call[w].request
      <4>1. call[w] \in Call /\ call[w].tries < MaxAttempts BY <2>1
      <4> HIDE OfWriter
      <4> QED BY <4>1, CallKeeps DEF Call
    <3> HIDE DEF x
    <3> QED BY <3>1, <3>2
  <2>2. CASE call[w].at = "resolve" /\ fail(w)
    BY <2>2, Constants DEF fail, return
  <2> QED BY <1>0, <2>1, <2>2 DEF afterError
<1>6. Local(w) BY <1>0, <1>2, <1>3, <1>5 DEF Local
<1>7. Tracked(w) BY <1>1, <1>3, <1>5 DEF Tracked
<1>8. Kept(w) BY <1>3 DEF Kept
<1>9. LateOwn(w) BY <1>1, <1>2, <1>3 DEF LateOwn
<1>10. Reported(w) /\ Apart(w) BY <1>1, <1>5 DEF Reported, Apart
<1> QED BY <1>0, <1>1, <1>3, <1>5, <1>6, <1>7, <1>8, <1>9, <1>10, LocalStep

LEMMA PutConflictsStep ==
  ASSUME ManifestInv, NEW w \in Writer, PutConflicts(w)
  PROVE  ManifestInv'
<1>0. /\ afterError(w) /\ UNCHANGED <<object, late, lost, known, pending, log, risked>>
  BY DEF PutConflicts
<1>1. call[w].put = "sent"
  <2>1. PICK err \in putErrors(w) : is(err, "ErrConflict") BY DEF PutConflicts
  <2>2. err \notin {"nil", "outcome_unknown"} BY <2>1, Errors
  <2>3. call[w].put # "none" /\ call[w].put # "committed" BY <2>2, PutErrors
  <2> QED BY <2>3, OfWriter DEF Call
<1>2. /\ call[w].at # "idle" /\ pending[w] \in Pending /\ pending \in [Writer -> Pending]
      /\ call \in [Writer -> Call] /\ call[w] \in Call /\ pending[w] # NoPending
      /\ call[w].at = "mutate" => call[w].tries < MaxAttempts
  BY <1>1, OfWriter
<1>3. /\ known' \in [Writer -> Body] /\ \A v \in Writer \ {w} : known'[v] = known[v]
      /\ known'[w] = known[w]
  BY <1>0, OfWriter
<1>4. pending' = [pending EXCEPT ![w] = pending[w]] BY <1>0, <1>2
<1>5. CASE call[w].at = "mutate" /\ again(w)
  <2> DEFINE x == [call[w] EXCEPT !.at = "loop", !.tries = @ + 1, !.put = "none"]
  <2>1. call' = [call EXCEPT ![w] = x] /\ acked' = acked BY <1>2, <1>5 DEF again
  <2>2. x \in Call /\ x.at = "loop" /\ x.put = "none" /\ x.request = call[w].request
    BY <1>2, <1>5, CallKeeps DEF Call
  <2> HIDE DEF x
  <2> QED BY <1>0, <1>1, <1>2, <1>3, <1>4, <2>1, <2>2, ContinueStep
<1>6. CASE fail(w)
  <2>1. return(w) /\ acked' = acked BY <1>6 DEF fail
  <2> QED BY <1>0, <1>1, <1>2, <1>3, <1>4, <2>1, ReturnStep
<1> QED BY <1>0, <1>5, <1>6 DEF afterError

LEMMA PutRefusedStep ==
  ASSUME ManifestInv, NEW w \in Writer, PutRefused(w)
  PROVE  ManifestInv'
<1>0. /\ fail(w) /\ UNCHANGED <<object, late, lost, known, log, risked>>
      /\ \/ call[w].at = "mutate" /\ clearPending(w)
         \/ call[w].at = "resolve" /\ UNCHANGED pending
  BY DEF PutRefused
<1>1. call[w].put = "sent"
  <2>1. PICK err \in putErrors(w) \ {"nil"} : ~ambiguousOrConflict(err) BY DEF PutRefused
  <2>2. err \notin {"nil", "outcome_unknown"} BY <2>1, Errors DEF ambiguousOrConflict, unknownWrite
  <2>3. call[w].put # "none" /\ call[w].put # "committed" BY <2>1, <2>2, PutErrors
  <2> QED BY <2>3, OfWriter DEF Call
<1>2. /\ call[w].at # "idle" /\ pending[w] \in Pending /\ pending \in [Writer -> Pending]
      /\ call[w].at = "mutate" => ~pending[w].ambiguous
  BY <1>1, OfWriter
<1>3. /\ known' \in [Writer -> Body] /\ \A v \in Writer \ {w} : known'[v] = known[v]
      /\ known'[w] = known[w]
  BY <1>0, OfWriter
<1>4. return(w) /\ acked' = acked BY <1>0 DEF fail
<1>5. CASE call[w].at = "mutate" /\ clearPending(w)
  <2>1. pending' = [pending EXCEPT ![w] = NoPending] /\ NoPending \in Pending
    BY <1>5, Constants DEF clearPending
  <2> QED BY <1>0, <1>1, <1>2, <1>3, <1>4, <1>5, <2>1, ReturnStep
<1>6. CASE UNCHANGED pending
  <2>1. pending' = [pending EXCEPT ![w] = pending[w]] BY <1>2, <1>6
  <2> QED BY <1>0, <1>1, <1>2, <1>3, <1>4, <2>1, ReturnStep
<1> QED BY <1>0, <1>5, <1>6

LEMMA AttemptRepeatedStep ==
  ASSUME ManifestInv, NEW w \in Writer, AttemptRepeated(w)
  PROVE  ManifestInv'
<1> USE OfWriter
<1> DEFINE p == pending[w]
<1>0. /\ call[w].put # "none" /\ givenUp(w) /\ call' = [call EXCEPT ![w].put = "sent"]
      /\ risked' = risked \cup {p.request}
      /\ UNCHANGED <<object, known, pending, log, acked>>
  BY DEF AttemptRepeated
<1>1. p # NoPending /\ p.request \in Request BY <1>0
<1>2. /\ late' \subseteq Pending /\ lost' \in Nat
      /\ \A q \in late' :
           \/ q \in late
           \/ q.request = p.request /\ q.expected = p.expected /\ q.body = p.body
  BY <1>0, GivenUp
<1>3. /\ call' \in [Writer -> Call] /\ \A v \in Writer \ {w} : call'[v] = call[v]
      /\ call'[w].put = "sent" /\ call'[w].at = call[w].at
      /\ call'[w].request = call[w].request /\ call'[w].tries = call[w].tries
  <2> DEFINE x == [call[w] EXCEPT !.put = "sent"]
  <2>1. call[w] \in Call /\ call' = [call EXCEPT ![w] = x] BY <1>0
  <2>2. /\ x \in Call /\ x.put = "sent" /\ x.at = call[w].at
        /\ x.request = call[w].request /\ x.tries = call[w].tries
    <3> HIDE OfWriter
    <3> QED BY <2>1, CallKeeps DEF Call
  <2> HIDE DEF x
  <2> QED BY <2>1, <2>2
<1>4. Local(w) BY <1>0, <1>1, <1>2, <1>3 DEF Local
<1>5. Tracked(w) BY <1>0, <1>3 DEF Tracked
<1>6. Kept(w) BY <1>0 DEF Kept
<1>7. LateOwn(w) BY <1>0, <1>1, <1>2 DEF LateOwn
<1>8. Reported(w) /\ Apart(w) BY <1>0, <1>3 DEF Reported, Apart
<1> QED BY <1>0, <1>1, <1>3, <1>4, <1>5, <1>6, <1>7, <1>8, LocalStep

--------------------------------------------------------------------------------
(***************************************************************************)
(* The theorems.                                                           *)
(***************************************************************************)

LEMMA StutterManifest ==
  ASSUME ManifestInv, UNCHANGED vars
  PROVE  ManifestInv'
<1> USE DEF vars
<1>1. TypeOK' BY DEF ManifestInv, TypeOK
<1>2. ObjectOfLog' /\ LogOrdered' BY DEF ManifestInv, ObjectOfLog, LogOrdered
<1>3. ProposalsSound' /\ CallsTracked' BY DEF ManifestInv, ProposalsSound, CallsTracked, sound, inLog
<1>4. PastsKnown' BY DEF ManifestInv, PastsKnown, past, inLog
<1>5. AllSettled' /\ CallsApart' BY DEF ManifestInv, AllSettled, settled, CallsApart
<1>6. AckedApplied' /\ AppliedOnceOrRisked'
  BY DEF ManifestInv, AckedApplied, AppliedOnceOrRisked, inLog
<1> QED BY <1>1, <1>2, <1>3, <1>4, <1>5, <1>6 DEF ManifestInv

LEMMA NextManifest == ManifestInv /\ [Next]_vars => ManifestInv'
<1> SUFFICES ASSUME ManifestInv, [Next]_vars PROVE ManifestInv' OBVIOUS
<1>1. ASSUME NEW p \in late, LateWriteArrives(p) PROVE ManifestInv' BY <1>1, LateWriteStep
<1>2. ASSUME NEW w \in Writer, NEW r \in Request, Ask(w, r) PROVE ManifestInv' BY <1>2, AskStep
<1>3. ASSUME NEW w \in Writer, Cancel(w) \/ GiveUp(w) \/ ReadFails(w) PROVE ManifestInv'
  BY <1>3, FailStep
<1>4. ASSUME NEW w \in Writer, ResolvePending(w) \/ Propose(w) \/ Read(w) PROVE ManifestInv'
  BY <1>4, ResolvePendingStep, ProposeStep, ReadStep
<1>5. ASSUME NEW w \in Writer, StoreCommits(w) \/ PutSucceeds(w) \/ PutUnknown(w) PROVE ManifestInv'
  BY <1>5, StoreCommitsStep, PutSucceedsStep, PutUnknownStep
<1>6. ASSUME NEW w \in Writer, PutConflicts(w) \/ PutRefused(w) \/ AttemptRepeated(w)
      PROVE  ManifestInv'
  BY <1>6, PutConflictsStep, PutRefusedStep, AttemptRepeatedStep
<1>7. CASE UNCHANGED vars BY <1>7, StutterManifest
<1> QED BY <1>1, <1>2, <1>3, <1>4, <1>5, <1>6, <1>7 DEF Next

\* The manifest is the result of its log, and what each writer knows, proposes and
\* has reported fits it, in every reachable state (Writer.mutate, resolvePending).
THEOREM ManifestInvariant == Spec => []ManifestInv
<1>1. Init => ManifestInv BY InitManifest
<1>2. ManifestInv /\ [Next]_vars => ManifestInv' BY NextManifest
<1> QED BY <1>1, <1>2, PTL DEF Spec

\* Every variable keeps its type (manifestRecord, proposal, Writer).
THEOREM ManifestTypeCorrect == Spec => []TypeOK
<1>1. ManifestInv => TypeOK BY InvariantImplies
<1> QED BY <1>1, ManifestInvariant, PTL

\* No writer commits a manifest that decode refuses (validHistory).
THEOREM CommittedHistoryValid == Spec => []HistoryValid
<1>1. ManifestInv => HistoryValid BY InvariantImplies
<1> QED BY <1>1, ManifestInvariant, PTL

\* Without interference read never reports that the manifest was replaced, rolled
\* back or deleted.
THEOREM ReadersNotAlarmed == Spec => []NoFalseAlarm
<1>1. ManifestInv => NoFalseAlarm BY InvariantImplies
<1> QED BY <1>1, ManifestInvariant, PTL

\* A publication that Publish reports as successful has been applied.
THEOREM PublishMeansApplied == Spec => []SuccessApplied
<1>1. ManifestInv => SuccessApplied BY InvariantImplies
<1> QED BY <1>1, ManifestInvariant, PTL

\* A mutation takes effect at most once, however its answers are lost, unless it is
\* risked, and then not while the history holds it (resolvePending, historyStatus).
THEOREM MutationsAppliedOnce == Spec => []AppliedOnce
<1>1. ManifestInv => AppliedOnce BY InvariantImplies
<1> QED BY <1>1, ManifestInvariant, PTL

\* The fence, for one step: the body of Fencing.
FencedStep ==
  object' # object /\ object.version # 0 =>
    LET r == log'[Len(log')]  old == object.body  new == object'.body IN
    /\ new.uid = old.uid /\ new.revision = old.revision + 1
    /\ r.op = "publish" => r.epoch = old.epoch /\ new.epoch = old.epoch
    /\ r.op = "activate" => new.epoch > old.epoch /\ new.payload = old.payload

LEMMA CommitFenced ==
  ASSUME ManifestInv, NEW p \in Pending, sound(p), p.request \in Request, commit(p)
  PROVE  FencedStep
<1>1. log \in Seq(Request) /\ log' = Append(log, p.request) BY Typed DEF ManifestInv, commit
<1>2. log'[Len(log')] = p.request BY <1>1, LogGrows
<1>3. object.version # 0 =>
        /\ object'.body.uid = object.body.uid
        /\ object'.body.revision = object.body.revision + 1
        /\ object'.body.epoch = p.request.epoch
        /\ p.request.op = "publish" => p.request.epoch = object.body.epoch
        /\ p.request.op = "activate" =>
             p.request.epoch > object.body.epoch /\ object'.body.payload = object.body.payload
  BY CommitObject
<1> QED BY <1>2, <1>3 DEF FencedStep

LEMMA NextFenced == ManifestInv /\ [Next]_vars => FencedStep
<1> SUFFICES ASSUME ManifestInv, [Next]_vars, object' # object PROVE FencedStep
  BY DEF FencedStep
<1>1. ASSUME NEW p \in late, LateWriteArrives(p) PROVE FencedStep
  <2>1. p \in Pending /\ p.request \in Request /\ sound(p)
    BY Typed DEF ManifestInv, ProposalsSound
  <2> QED BY <1>1, <2>1, CommitFenced DEF LateWriteArrives
<1>2. ASSUME NEW w \in Writer, StoreCommits(w) PROVE FencedStep
  <2>0. PICK p : p = pending[w] OBVIOUS
  <2>1. pending[w] # NoPending /\ p \in Pending /\ p.request \in Request
    BY <1>2, <2>0, OfWriter DEF StoreCommits
  <2>2. sound(p) BY <2>0, <2>1 DEF ManifestInv, ProposalsSound
  <2>3. commit(p) BY <1>2, <2>0 DEF StoreCommits
  <2> QED BY <2>1, <2>2, <2>3, CommitFenced
<1>3. (\E p \in late : LateWriteArrives(p)) \/ (\E w \in Writer : StoreCommits(w))
  BY DEF Next, vars, Ask, Cancel, GiveUp, ReadFails, ResolvePending, Propose, Read, PutSucceeds,
         PutUnknown, PutConflicts, PutRefused, AttemptRepeated
<1> QED BY <1>1, <1>2, <1>3

\* Every commit respects the fence, however late it arrives (prepareExisting and the
\* conditional writes).
THEOREM CommitsFenced == Spec => Fencing
<1>1. ManifestInv /\ [Next]_vars => [FencedStep]_vars BY NextFenced
<1>2. Spec => [][FencedStep]_vars BY <1>1, ManifestInvariant, PTL DEF Spec
<1>3. [][FencedStep]_vars => Fencing BY DEF FencedStep, Fencing
<1> QED BY <1>2, <1>3

================================================================================
