---------------------- MODULE AgentCollaborationProofs ----------------------
(***************************************************************************)
(* Child agents, for any number of children, messages and calls.           *)
(***************************************************************************)
EXTENDS AgentCollaboration, ArrayFilterProofs

-----------------------------------------------------------------------------
(* Records and events *)

LEMMA AgentFacts ==
  /\ Root \in Agent /\ Child \subseteq Agent /\ FollowUp \subseteq Mail
  /\ \A c \in Child : ParentOf[c] \in Agent
  /\ \A m \in Mail : Receiver[m] \in Agent
  /\ \A r \in Run : AgentOf(r) \in Child
  /\ \A c \in Child : c \in Run /\ AgentOf(c) = c
  /\ \A m \in FollowUp : m \in Run /\ AgentOf(m) = Receiver[m] /\ m \notin Child
  /\ NoRun \notin Run /\ Other \notin Run /\ NoRun \notin Child
BY CollaborationAssumption DEF Agent, Run, AgentOf

LEMMA EventType ==
  /\ \A r \in Run \cup {NoRun}, st \in LifeState \ {"none"} : Life(r, st) \in Event
  /\ \A r \in Run, st \in Terminal : Completion(r, st) \in Event
  /\ \A c \in Child, act \in Choice : Resolved(c, act) \in Event
  /\ \A m \in Mail : Note("mail", m) \in Event /\ Note("acked", m) \in Event
  /\ \A m \in FollowUp : Note("started", m) \in Event
  /\ \A x \in SUBSET Mail : Note("consumed", x) \in Event
  /\ \A x \in SUBSET Run : Note("read", x) \in Event
  /\ \A c \in Child : Note("lease", c) \in Event /\ Note("release", c) \in Event
BY DEF Life, Completion, Resolved, Note, Event

LEMMA ApplyType ==
  ASSUME NEW R \in Record, NEW e \in Event
  PROVE  Apply(R, e) \in Record
<1>1. CASE e \in [type: {"life"}, of: Run \cup {NoRun}, what: LifeState \ {"none"}]
  <2> DEFINE l == IF e.of = NoRun THEN R.life ELSE [R.life EXCEPT ![e.of] = e.what]
             n == [run |-> e.of, state |-> e.what]
  <2>1. Apply(R, e) = [R EXCEPT !.life = l, !.last = n]
    BY <1>1 DEF Apply
  <2>2. n \in [run: Run \cup {NoRun}, state: LifeState]
    BY <1>1
  <2>3. l \in [Run -> LifeState]
    BY <1>1 DEF Record
  <2> HIDE DEF l, n
  <2> QED BY <2>1, <2>2, <2>3 DEF Record
<1>2. CASE e \in [type: {"mail", "acked"}, of: Mail, what: {""}]
  BY <1>2 DEF Apply, Record, MailState
<1>3. CASE e \in [type: {"consumed"}, of: SUBSET Mail, what: {""}]
  BY <1>3 DEF Apply, Record, MailState
<1>4. CASE e \in [type: {"started"}, of: FollowUp, what: {""}]
  BY <1>4 DEF Apply, Record
<1>5. CASE e \in [type: {"completion"}, of: Run, what: Terminal]
  BY ZenonT(60), <1>5 DEF Apply, Record
<1>6. CASE e \in [type: {"read"}, of: SUBSET Run, what: {""}]
  BY <1>6 DEF Apply, Record
<1>7. CASE e \in [type: {"lease", "release"}, of: Child, what: {""}]
  BY <1>7 DEF Apply, Record
<1>8. CASE e \in [type: {"resolved"}, of: Child, what: Choice]
  BY <1>8 DEF Apply, Record
<1> QED BY <1>1, <1>2, <1>3, <1>4, <1>5, <1>6, <1>7, <1>8 DEF Event

LEMMA ApplyLife ==
  ASSUME NEW R \in Record, NEW r \in Run \cup {NoRun}, NEW st
  PROVE  Apply(R, Life(r, st)) =
           [R EXCEPT !.life = [x \in Run |-> IF x = r THEN st ELSE R.life[x]],
                     !.last = [run |-> r, state |-> st]]
<1>1. Life(r, st).type = "life" /\ Life(r, st).of = r /\ Life(r, st).what = st
  BY DEF Life
<1>2. Apply(R, Life(r, st)) = [R EXCEPT !.life = IF r = NoRun THEN @ ELSE [@ EXCEPT ![r] = st],
                                        !.last = [run |-> r, state |-> st]]
  BY <1>1 DEF Apply
<1>3. (IF r = NoRun THEN R.life ELSE [R.life EXCEPT ![r] = st])
        = [x \in Run |-> IF x = r THEN st ELSE R.life[x]]
  BY AgentFacts DEF Record
<1> QED BY <1>2, <1>3

(* Field by field.                                                         *)
MailAfter(R, e) ==
  IF e.type = "mail" THEN [R.mail EXCEPT ![e.of] = "queued"]
  ELSE IF e.type = "consumed" THEN [m \in Mail |-> IF m \in e.of /\ R.mail[m] # "none"
                                                   THEN "consumed" ELSE R.mail[m]]
  ELSE IF e.type = "acked" THEN [R.mail EXCEPT ![e.of] = IF @ = "none" THEN @ ELSE "acknowledged"]
  ELSE R.mail
DoneAfter(R, e) == IF e.type = "completion" THEN [R.done EXCEPT ![e.of] = @ \cup {e.what}] ELSE R.done
UnreadAfter(R, e) ==
  IF e.type = "completion" THEN R.unread \cup {e.of}
  ELSE IF e.type = "read" THEN R.unread \ e.of ELSE R.unread

LEMMA ApplyFields ==
  ASSUME NEW R \in Record, NEW e \in Event
  PROVE  /\ Apply(R, e).life = IF e.type = "life" THEN [x \in Run |-> IF x = e.of THEN e.what ELSE R.life[x]]
                                                  ELSE R.life
         /\ Apply(R, e).last = IF e.type = "life" THEN [run |-> e.of, state |-> e.what] ELSE R.last
         /\ Apply(R, e).mail = MailAfter(R, e) /\ Apply(R, e).done = DoneAfter(R, e)
         /\ Apply(R, e).started = IF e.type = "started" THEN R.started \cup {e.of} ELSE R.started
         /\ Apply(R, e).unread = UnreadAfter(R, e)
         /\ Apply(R, e).leased = IF e.type = "lease" THEN TRUE ELSE IF e.type = "release" THEN FALSE
                                                                     ELSE R.leased
         /\ Apply(R, e).resolved = IF e.type = "resolved" THEN R.resolved \cup {<<e.of, e.what>>}
                                                           ELSE R.resolved
<1> USE DEF MailAfter, DoneAfter, UnreadAfter
<1>1. CASE e.type = "life"
  <2>0. e \in [type: {"life"}, of: Run \cup {NoRun}, what: LifeState \ {"none"}]
    BY <1>1 DEF Event
  <2>1. PICK r \in Run \cup {NoRun}, st \in LifeState : e = Life(r, st)
    BY <2>0 DEF Life
  <2>2. e.of = r /\ e.what = st
    BY <2>1 DEF Life
  <2>3. Apply(R, e) = [R EXCEPT !.life = [x \in Run |-> IF x = r THEN st ELSE R.life[x]],
                                !.last = [run |-> r, state |-> st]]
    BY ZenonT(60), <2>1, ApplyLife
  <2> QED BY <1>1, <2>2, <2>3 DEF Record
<1>2. CASE e.type = "mail"
  BY <1>2 DEF Apply, Record
<1>3. CASE e.type = "consumed"
  BY <1>3 DEF Apply, Record
<1>4. CASE e.type = "acked"
  BY <1>4 DEF Apply, Record
<1>5. CASE e.type = "started"
  BY <1>5 DEF Apply, Record
<1>6. CASE e.type = "completion"
  BY <1>6 DEF Apply, Record
<1>7. CASE e.type = "read"
  BY <1>7 DEF Apply, Record
<1>8. CASE e.type = "lease"
  BY <1>8 DEF Apply, Record
<1>9. CASE e.type = "release"
  BY <1>9 DEF Apply, Record
<1>10. CASE e.type = "resolved"
  BY <1>10 DEF Apply, Record
<1> QED
  BY <1>1, <1>2, <1>3, <1>4, <1>5, <1>6, <1>7, <1>8, <1>9, <1>10 DEF Event

(* What a record comes to when events are flushed into it, one by one.     *)
Flushing(A, R, es) ==
  /\ A[0] = R /\ \A i \in 1..Len(es) : A[i] = Apply(A[i - 1], es[i])
  /\ Flushed(R, es) = A[Len(es)]

LEMMA FlushedSteps ==
  ASSUME NEW R \in Record, NEW es \in Seq(Event)
  PROVE  \E A \in [0..Len(es) -> Record] : Flushing(A, R, es)
<1> DEFINE n == Len(es)
           F == [i \in 1..n |-> [x \in Record |-> Apply(x, es[i])]]
           Body(f) == [i \in 0..n |-> IF i = 0 THEN R ELSE Apply(f[i - 1], es[i])]
           After == CHOOSE f : f = Body(f)
<1>0. n \in Nat /\ \A i \in 1..n : es[i] \in Event
  OBVIOUS
<1>1. F \in [1..n -> [Record -> Record]]
  BY <1>0, ApplyType
<1> HIDE DEF n
<1>2. PICK f \in [0..n -> Record] : Carries(f, n, R, F)
  <2> HIDE DEF F
  <2> QED BY <1>0, <1>1, CarriedExists
<1>3. f = Body(f)
  <2>1. ASSUME NEW i \in 0..n PROVE f[i] = IF i = 0 THEN R ELSE Apply(f[i - 1], es[i])
    <3>1. CASE i = 0
      BY <1>2, <3>1 DEF Carries
    <3>2. CASE i # 0
      <4>1. i \in 1..n /\ f[i - 1] \in Record
        BY <1>0, <3>2
      <4> QED BY <1>2, <3>2, <4>1 DEF Carries
    <3> QED BY <3>1, <3>2
  <2> QED BY <2>1
<1>4. After = Body(After)
  BY <1>3
<1>5. Flushed(R, es) = After[n]
  BY DEF Flushed, n
<1> HIDE DEF After
<1>6. DOMAIN After = 0..n /\ \A i \in 0..n : After[i] = IF i = 0 THEN R ELSE Apply(After[i - 1], es[i])
  BY <1>4
<1>7. \A i \in 0..n : After[i] \in Record
  <2> DEFINE T == {i \in 0..n : After[i] \in Record}
  <2>1. 0 \in T
    BY <1>0, <1>6
  <2>2. ASSUME NEW i \in 0..n, i # n, i \in T PROVE i + 1 \in T
    <3>1. i + 1 \in 1..n /\ i + 1 # 0 /\ (i + 1) - 1 = i
      BY <1>0, <2>2
    <3>2. After[i + 1] = Apply(After[i], es[i + 1])
      BY <1>6, <3>1
    <3> QED BY <1>0, <2>2, <3>1, <3>2, ApplyType
  <2> HIDE DEF T
  <2>3. \A i \in 0..n : i \in T
    BY <1>0, <2>1, <2>2, AlongArray
  <2> QED BY <2>3 DEF T
<1>8. After \in [0..n -> Record] /\ After[0] = R
  BY <1>0, <1>4, <1>6, <1>7
<1>9. \A i \in 1..n : After[i] = Apply(After[i - 1], es[i])
  BY <1>0, <1>6
<1> QED BY <1>5, <1>8, <1>9 DEF n, Flushing

LEMMA FlushedType ==
  ASSUME NEW R \in Record, NEW es \in Seq(Event) PROVE Flushed(R, es) \in Record
<1>1. Len(es) \in Nat /\ Len(es) \in 0..Len(es)
  OBVIOUS
<1> QED BY <1>1, FlushedSteps DEF Flushing

LEMMA FlushedEmpty ==
  ASSUME NEW R \in Record PROVE Flushed(R, <<>>) = R
<1> DEFINE es == <<>>
<1>1. es \in Seq(Event) /\ Len(es) = 0
  OBVIOUS
<1> HIDE DEF es
<1>2. PICK A \in [0..Len(es) -> Record] : Flushing(A, R, es)
  BY <1>1, FlushedSteps
<1>3. Flushed(R, es) = R
  BY <1>1, <1>2 DEF Flushing
<1> QED BY <1>3 DEF es

(* One event more.                                                         *)
LEMMA FlushedAppend ==
  ASSUME NEW R \in Record, NEW es \in Seq(Event), NEW e \in Event
  PROVE  Flushed(R, Append(es, e)) = Apply(Flushed(R, es), e)
<1> DEFINE n == Len(es)
           fs == Append(es, e)
<1>1. fs \in Seq(Event) /\ Len(fs) = n + 1 /\ n \in Nat
  OBVIOUS
<1>2. fs[n + 1] = e /\ \A i \in 1..n : fs[i] = es[i]
  OBVIOUS
<1>3. PICK A \in [0..n -> Record] :
        /\ A[0] = R /\ \A i \in 1..n : A[i] = Apply(A[i - 1], es[i])
        /\ Flushed(R, es) = A[n]
  BY FlushedSteps DEF Flushing
<1>4. PICK B \in [0..(n + 1) -> Record] :
        /\ B[0] = R /\ \A i \in 1..(n + 1) : B[i] = Apply(B[i - 1], fs[i])
        /\ Flushed(R, fs) = B[n + 1]
  <2> HIDE DEF fs
  <2>1. PICK B \in [0..Len(fs) -> Record] : Flushing(B, R, fs)
    BY <1>1, FlushedSteps
  <2> QED BY <1>1, <2>1 DEF Flushing
<1> HIDE DEF n, fs
<1>5. \A i \in 0..n : A[i] = B[i]
  <2> DEFINE T == {i \in 0..n : A[i] = B[i]}
  <2>1. 0 \in T
    BY <1>1, <1>3, <1>4
  <2>2. ASSUME NEW i \in 0..n, i # n, i \in T PROVE i + 1 \in T
    <3>1. i + 1 \in 1..n /\ i + 1 \in 1..(n + 1) /\ (i + 1) - 1 = i /\ i + 1 \in 0..n
      BY <1>1, <2>2
    <3>2. A[i + 1] = Apply(A[i], es[i + 1]) /\ B[i + 1] = Apply(B[i], fs[i + 1])
      BY <1>3, <1>4, <3>1
    <3> QED BY <1>2, <2>2, <3>1, <3>2
  <2> HIDE DEF T
  <2>3. \A i \in 0..n : i \in T
    BY <1>1, <2>1, <2>2, AlongArray
  <2> QED BY <2>3 DEF T
<1>6. n + 1 \in 1..(n + 1) /\ (n + 1) - 1 = n /\ n \in 0..n
  BY <1>1
<1>7. B[n + 1] = Apply(B[n], e)
  BY <1>2, <1>4, <1>6
<1> QED BY <1>3, <1>4, <1>5, <1>6, <1>7 DEF fs

(* A lifecycle event that enters the record beneath the events of a        *)
(* recorder: only the state of its run and the latest event may differ.    *)
SameBut(S, T, r) ==
  /\ T.mail = S.mail /\ T.started = S.started /\ T.done = S.done /\ T.unread = S.unread
  /\ T.leased = S.leased /\ T.resolved = S.resolved
  /\ \A x \in Run \ {r} : T.life[x] = S.life[x]
Under(S, T, r, st) ==
  /\ SameBut(S, T, r) /\ T.last \in {S.last, [run |-> r, state |-> st]}
  /\ r \in Run => T.life[r] \in {S.life[r], st}
Lived(S, T, r, st) ==
  SameBut(S, T, r) /\ T.last = [run |-> r, state |-> st] /\ (r \in Run => T.life[r] = st)
NoLife(es, r) == \A i \in DOMAIN es : es[i].type = "life" => es[i].of # r

LEMMA ApplyLived ==
  ASSUME NEW R \in Record, NEW r \in Run \cup {NoRun}, NEW st \in LifeState
  PROVE  Lived(R, Apply(R, Life(r, st)), r, st)
<1> DEFINE T == Apply(R, Life(r, st))
           l == [x \in Run |-> IF x = r THEN st ELSE R.life[x]]
           n == [run |-> r, state |-> st]
<1>1. T = [R EXCEPT !.life = l, !.last = n]
  BY ZenonT(60), ApplyLife
<1> HIDE DEF T, l, n
<1>2. /\ T.life = l /\ T.last = n /\ T.mail = R.mail /\ T.started = R.started /\ T.done = R.done
      /\ T.unread = R.unread /\ T.leased = R.leased /\ T.resolved = R.resolved
  BY <1>1 DEF Record
<1>3. \A x \in Run : T.life[x] = IF x = r THEN st ELSE R.life[x]
  BY <1>2 DEF l
<1> QED BY <1>2, <1>3 DEF Lived, SameBut, T, n

LEMMA ApplyUnder ==
  ASSUME NEW S \in Record, NEW T \in Record, NEW r \in Run \cup {NoRun}, NEW st, NEW e \in Event,
         Under(S, T, r, st)
  PROVE  /\ Under(Apply(S, e), Apply(T, e), r, st)
         /\ ~(e.type = "life" /\ e.of = r) /\ r \in Run => Apply(T, e).life[r] = T.life[r]
<1>1. \A R \in Record :
        /\ Apply(R, e).life = IF e.type = "life" THEN [x \in Run |-> IF x = e.of THEN e.what ELSE R.life[x]]
                                                 ELSE R.life
        /\ Apply(R, e).last = IF e.type = "life" THEN [run |-> e.of, state |-> e.what] ELSE R.last
  BY ApplyFields
<1>2. /\ T.mail = S.mail /\ T.started = S.started /\ T.done = S.done /\ T.unread = S.unread
      /\ T.leased = S.leased /\ T.resolved = S.resolved
      /\ \A x \in Run \ {r} : T.life[x] = S.life[x]
      /\ T.last \in {S.last, [run |-> r, state |-> st]}
      /\ r \in Run => T.life[r] \in {S.life[r], st}
  BY DEF Under, SameBut
<1>3. /\ \A x \in Run \ {r} : Apply(T, e).life[x] = Apply(S, e).life[x]
      /\ Apply(T, e).last \in {Apply(S, e).last, [run |-> r, state |-> st]}
      /\ r \in Run => Apply(T, e).life[r] \in {Apply(S, e).life[r], st}
      /\ ~(e.type = "life" /\ e.of = r) /\ r \in Run => Apply(T, e).life[r] = T.life[r]
  <2>1. CASE e.type = "life"
    <3>1. /\ Apply(T, e).life = [x \in Run |-> IF x = e.of THEN e.what ELSE T.life[x]]
          /\ Apply(S, e).life = [x \in Run |-> IF x = e.of THEN e.what ELSE S.life[x]]
          /\ Apply(T, e).last = Apply(S, e).last
      BY <1>1, <2>1, Zenon
    <3> QED BY <1>2, <2>1, <3>1
  <2>2. CASE e.type # "life"
    <3>1. /\ Apply(T, e).life = T.life /\ Apply(S, e).life = S.life
          /\ Apply(T, e).last = T.last /\ Apply(S, e).last = S.last
      BY <1>1, <2>2
    <3> QED BY <1>2, <3>1
  <2> QED BY <2>1, <2>2
<1>4. /\ MailAfter(S, e) = MailAfter(T, e) /\ DoneAfter(S, e) = DoneAfter(T, e)
      /\ UnreadAfter(S, e) = UnreadAfter(T, e)
  BY <1>2, Zenon DEF MailAfter, DoneAfter, UnreadAfter
<1>5. /\ Apply(T, e).mail = Apply(S, e).mail /\ Apply(T, e).done = Apply(S, e).done
      /\ Apply(T, e).unread = Apply(S, e).unread
  BY <1>4, ApplyFields, Zenon
<1>6. Apply(T, e).started = Apply(S, e).started
  BY <1>2, ApplyFields, Zenon
<1>7. Apply(T, e).leased = Apply(S, e).leased
  <2>1. \A R \in Record : e.type \notin {"lease", "release"} => Apply(R, e).leased = R.leased
    BY ApplyFields, Zenon
  <2>2. \A R \in Record : e.type = "lease" => Apply(R, e).leased = TRUE
    BY ApplyFields, Zenon
  <2>3. \A R \in Record : e.type = "release" => Apply(R, e).leased = FALSE
    BY ApplyFields, Zenon
  <2> QED BY <1>2, <2>1, <2>2, <2>3, Zenon
<1>8. Apply(T, e).resolved = Apply(S, e).resolved
  BY <1>2, ApplyFields, Zenon
<1> QED BY <1>3, <1>5, <1>6, <1>7, <1>8 DEF Under, SameBut

(* ... so the same holds when the recorder is flushed, and the state of    *)
(* the run is the new one unless the recorder has another for it.          *)
LEMMA FlushedUnder ==
  ASSUME NEW S \in Record, NEW T \in Record, NEW r \in Run \cup {NoRun}, NEW st,
         NEW es \in Seq(Event), Under(S, T, r, st)
  PROVE  /\ Under(Flushed(S, es), Flushed(T, es), r, st)
         /\ r \in Run /\ NoLife(es, r) => Flushed(T, es).life[r] = T.life[r]
<1> DEFINE n == Len(es)
<1>0. n \in Nat /\ \A i \in 1..n : es[i] \in Event /\ i \in DOMAIN es
  OBVIOUS
<1>1. PICK A \in [0..n -> Record] :
        /\ A[0] = S /\ \A i \in 1..n : A[i] = Apply(A[i - 1], es[i])
        /\ Flushed(S, es) = A[n]
  BY FlushedSteps DEF Flushing
<1>2. PICK B \in [0..n -> Record] :
        /\ B[0] = T /\ \A i \in 1..n : B[i] = Apply(B[i - 1], es[i])
        /\ Flushed(T, es) = B[n]
  BY FlushedSteps DEF Flushing
<1> DEFINE G == {i \in 0..n : /\ Under(A[i], B[i], r, st)
                              /\ r \in Run /\ NoLife(es, r) => B[i].life[r] = T.life[r]}
<1> HIDE DEF n
<1>3. 0 \in G
  BY <1>0, <1>1, <1>2
<1>4. ASSUME NEW i \in 0..n, i # n, i \in G PROVE i + 1 \in G
  <2>1. i + 1 \in 1..n /\ (i + 1) - 1 = i /\ i + 1 \in 0..n
    BY <1>0, <1>4
  <2>2. A[i + 1] = Apply(A[i], es[i + 1]) /\ B[i + 1] = Apply(B[i], es[i + 1])
    BY <1>1, <1>2, <2>1
  <2>3. A[i] \in Record /\ B[i] \in Record /\ es[i + 1] \in Event
    BY <1>0, <2>1
  <2>4. Under(A[i], B[i], r, st) /\ (r \in Run /\ NoLife(es, r) => B[i].life[r] = T.life[r])
    BY <1>4
  <2>5. /\ Under(A[i + 1], B[i + 1], r, st)
        /\ ~(es[i + 1].type = "life" /\ es[i + 1].of = r) /\ r \in Run => B[i + 1].life[r] = B[i].life[r]
    BY <2>2, <2>3, <2>4, ApplyUnder
  <2>6. NoLife(es, r) => ~(es[i + 1].type = "life" /\ es[i + 1].of = r)
    BY <1>0, <2>1 DEF NoLife
  <2> QED BY <2>1, <2>4, <2>5, <2>6
<1> HIDE DEF G
<1>5. \A i \in 0..n : i \in G
  BY <1>0, <1>3, <1>4, AlongArray
<1>6. n \in G
  BY <1>0, <1>5
<1> QED BY <1>1, <1>2, <1>6 DEF G

-----------------------------------------------------------------------------
(* Types of what a handler makes of the host *)

(* An agent that is in no turn has no recorder.                            *)
HostState ==
  {w \in [record: [Agent -> Record], entries: [Agent -> Seq(Event)], queue: Seq(Item)] :
     QueueOK(w.queue) /\ \A a \in Agent : turn[a] = NoRun => w.entries[a] = <<>>}

LEMMA HostFacts ==
  ASSUME NEW w \in HostState
  PROVE  /\ w = [record |-> w.record, entries |-> w.entries, queue |-> w.queue]
         /\ w.record \in [Agent -> Record] /\ w.entries \in [Agent -> Seq(Event)]
         /\ QueueOK(w.queue) /\ w.queue \in Seq(Item)
         /\ \A a \in Agent : turn[a] = NoRun => w.entries[a] = <<>>
         /\ \A a \in Agent : Seen(w, a) \in Record /\ (turn[a] = NoRun => Seen(w, a) = w.record[a])
<1>1. /\ w = [record |-> w.record, entries |-> w.entries, queue |-> w.queue]
      /\ w.record \in [Agent -> Record] /\ w.entries \in [Agent -> Seq(Event)]
      /\ QueueOK(w.queue) /\ w.queue \in Seq(Item)
      /\ \A a \in Agent : turn[a] = NoRun => w.entries[a] = <<>>
  BY DEF HostState
<1>2. ASSUME NEW a \in Agent
      PROVE  Seen(w, a) \in Record /\ (turn[a] = NoRun => Seen(w, a) = w.record[a])
  <2>1. w.record[a] \in Record /\ w.entries[a] \in Seq(Event)
    BY <1>1
  <2> QED BY <1>1, <2>1, FlushedType, FlushedEmpty DEF Seen
<1> QED BY <1>1, <1>2

(* An event reaches the agent's record or its recorder, and no other.      *)
Elsewhere(w, v, a) ==
  \A b \in Agent \ {a} : /\ Seen(v, b) = Seen(w, b) /\ v.record[b] = w.record[b]
                         /\ v.entries[b] = w.entries[b]
PutDone(w, v, a, e) ==
  /\ v.queue = w.queue /\ Elsewhere(w, v, a) /\ Seen(v, a) = Apply(Seen(w, a), e)
  /\ IF turn[a] = NoRun THEN v.record[a] = Apply(w.record[a], e) /\ v.entries[a] = w.entries[a]
                        ELSE v.record[a] = w.record[a] /\ v.entries[a] = Append(w.entries[a], e)

LEMMA PutFacts ==
  ASSUME NEW w \in HostState, NEW a \in Agent, NEW e \in Event
  PROVE  Put(w, a, e) \in HostState /\ PutDone(w, Put(w, a, e), a, e)
<1> DEFINE v == Put(w, a, e)
<1>0. w.record[a] \in Record /\ w.entries[a] \in Seq(Event) /\ Apply(w.record[a], e) \in Record
  BY HostFacts, ApplyType
<1>1. CASE turn[a] = NoRun
  <2>1. v = [w EXCEPT !.record = [w.record EXCEPT ![a] = Apply(w.record[a], e)]]
    BY <1>1 DEF Put
  <2>2. v = [record |-> [w.record EXCEPT ![a] = Apply(w.record[a], e)],
             entries |-> w.entries, queue |-> w.queue]
    BY <2>1, HostFacts
  <2>3. v \in HostState
    BY <1>0, <2>2, HostFacts DEF HostState
  <2>4. \A b \in Agent : v.record[b] = IF b = a THEN Apply(w.record[a], e) ELSE w.record[b]
    BY <2>2, HostFacts
  <2>5. w.entries[a] = <<>> /\ v.entries = w.entries
    BY <1>1, <2>2, HostFacts
  <2>6. Seen(v, a) = Apply(Seen(w, a), e)
    BY <1>0, <2>4, <2>5, FlushedEmpty DEF Seen
  <2>7. \A b \in Agent : b # a => Seen(v, b) = Seen(w, b)
    BY <2>4, <2>5 DEF Seen
  <2>8. v.queue = w.queue
    BY <2>2
  <2> HIDE DEF v
  <2> QED BY <1>1, <2>3, <2>4, <2>5, <2>6, <2>7, <2>8 DEF v, PutDone, Elsewhere
<1>2. CASE turn[a] # NoRun
  <2>1. v = [w EXCEPT !.entries = [w.entries EXCEPT ![a] = Append(w.entries[a], e)]]
    BY <1>2 DEF Put
  <2>2. v = [record |-> w.record, entries |-> [w.entries EXCEPT ![a] = Append(w.entries[a], e)],
             queue |-> w.queue]
    BY ZenonT(60), <2>1, HostFacts
  <2>3. v \in HostState
    <3>1. Append(w.entries[a], e) \in Seq(Event)
      BY <1>0
    <3> QED BY <1>2, <2>2, <3>1, HostFacts DEF HostState
  <2>4. v.record = w.record /\ v.entries[a] = Append(w.entries[a], e)
    BY <2>2, HostFacts
  <2>5. Seen(v, a) = Apply(Seen(w, a), e)
    BY <1>0, <2>4, FlushedAppend DEF Seen
  <2>6. \A b \in Agent : b # a => v.entries[b] = w.entries[b]
    BY <2>2, HostFacts
  <2>7. v.queue = w.queue
    BY <2>2
  <2> HIDE DEF v
  <2>8. \A b \in Agent : b # a => Seen(v, b) = Seen(w, b)
    BY <2>4, <2>6 DEF Seen
  <2> QED BY <1>2, <2>3, <2>4, <2>5, <2>6, <2>7, <2>8 DEF v, PutDone, Elsewhere
<1> QED BY <1>1, <1>2

(* A lifecycle event that the recorder refuses and the record does not     *)
(* enters the record beneath the recorder.                                 *)
Beneath(w, v, a, r, st) ==
  /\ turn[a] # NoRun /\ ~Legal(Seen(w, a), r, st) /\ Legal(w.record[a], r, st)
  /\ v.record[a] = Apply(w.record[a], Life(r, st)) /\ v.entries = w.entries
  /\ Under(Seen(w, a), Seen(v, a), r, st)
  /\ NoLife(w.entries[a], r) /\ r \in Run => Seen(v, a).life[r] = st
LifeDone(w, v, a, r, st) ==
  /\ v.queue = w.queue /\ Elsewhere(w, v, a)
  /\ \/ v = w /\ ~CanPutLife(w, a, r, st)
     \/ PutDone(w, v, a, Life(r, st)) /\ Legal(Seen(w, a), r, st)
     \/ Beneath(w, v, a, r, st)

LEMMA PutLifeFacts ==
  ASSUME NEW w \in HostState, NEW a \in Agent, NEW r \in Run \cup {NoRun},
         NEW st \in LifeState \ {"none"}
  PROVE  PutLife(w, a, r, st) \in HostState /\ LifeDone(w, PutLife(w, a, r, st), a, r, st)
<1> DEFINE v == PutLife(w, a, r, st)
           e == Life(r, st)
<1>0. e \in Event
  BY EventType
<1>1. CASE InTurn(w, a, r, st) \/ (turn[a] = NoRun /\ Legal(w.record[a], r, st))
  <2>1. v = Put(w, a, e)
    BY <1>1 DEF PutLife, InTurn, Put
  <2>2. Legal(Seen(w, a), r, st)
    BY <1>1, HostFacts DEF InTurn
  <2>3. v \in HostState /\ PutDone(w, v, a, e)
    BY <1>0, <2>1, PutFacts
  <2> QED BY <2>2, <2>3 DEF PutDone, LifeDone
<1>2. CASE ~InTurn(w, a, r, st) /\ turn[a] # NoRun /\ Legal(w.record[a], r, st)
  <2> DEFINE R == w.record[a]
             N == Apply(R, e)
  <2>0. /\ R \in Record /\ N \in Record /\ w.entries[a] \in Seq(Event)
        /\ N = Apply(R, Life(r, st))
    BY <1>0, HostFacts, ApplyType
  <2>1. v = [w EXCEPT !.record = [w.record EXCEPT ![a] = N]]
    BY <1>2 DEF PutLife
  <2>2. v = [record |-> [w.record EXCEPT ![a] = N], entries |-> w.entries, queue |-> w.queue]
    BY <2>1, HostFacts
  <2> HIDE DEF N, R
  <2>3. v \in HostState
    BY <2>0, <2>2, HostFacts DEF HostState
  <2>4. v.record[a] = N /\ v.entries = w.entries /\ v.queue = w.queue
    BY <2>2, HostFacts
  <2>5. \A b \in Agent \ {a} : v.record[b] = w.record[b]
    BY <2>2, HostFacts
  <2>6. ~Legal(Seen(w, a), r, st)
    BY <1>2 DEF InTurn
  <2>7. Under(R, N, r, st) /\ (r \in Run => N.life[r] = st)
    <3>1. Lived(R, N, r, st)
      BY <2>0, ApplyLived
    <3> QED BY <3>1 DEF Under, Lived
  <2> HIDE DEF v
  <2>8. \A b \in Agent \ {a} : Seen(v, b) = Seen(w, b)
    BY <2>4, <2>5 DEF Seen
  <2> DEFINE es == w.entries[a]
  <2>9. Seen(v, a) = Flushed(N, es) /\ Seen(w, a) = Flushed(R, es) /\ es \in Seq(Event)
    BY <2>0, <2>4 DEF Seen, R
  <2> HIDE DEF es
  <2>10. /\ Under(Seen(w, a), Seen(v, a), r, st)
         /\ NoLife(es, r) /\ r \in Run => Seen(v, a).life[r] = st
    BY <2>0, <2>7, <2>9, FlushedUnder
  <2> QED BY <1>2, <2>3, <2>4, <2>5, <2>6, <2>8, <2>10 DEF v, N, R, es, LifeDone, Beneath, Elsewhere
<1>3. CASE ~InTurn(w, a, r, st) /\ ~Legal(w.record[a], r, st)
  BY <1>3 DEF PutLife, CanPutLife, LifeDone, Elsewhere
<1> QED BY <1>1, <1>2, <1>3

-----------------------------------------------------------------------------
(* The run queue *)

LEMMA QueueFacts ==
  ASSUME NEW q, QueueOK(q)
  PROVE  /\ q \in Seq(Item) /\ Len(q) \in Nat /\ DOMAIN q = 1..Len(q)
         /\ \A i \in DOMAIN q : q[i] \in Item
         /\ LiveItems(q) \in SUBSET (1..Len(q)) /\ IsFiniteSet(LiveItems(q))
         /\ Cardinality(LiveItems(q)) \in Nat
<1>1. q \in Seq(Item) /\ Len(q) \in Nat /\ DOMAIN q = 1..Len(q)
  BY DEF QueueOK
<1>2. \A i \in DOMAIN q : q[i] \in Item
  BY <1>1
<1>3. LiveItems(q) \in SUBSET (1..Len(q))
  BY <1>1 DEF LiveItems
<1> QED BY <1>1, <1>2, <1>3, PositionsLemma

NewItem(r) == [run |-> r, agent |-> AgentOf(r), status |-> "queued"]

LEMMA NewItemType ==
  ASSUME NEW r \in Run
  PROVE  /\ NewItem(r) \in Item /\ NewItem(r).run = r /\ NewItem(r).agent = AgentOf(r) /\ r # Other
         /\ NewItem(r).status = "queued"
BY AgentFacts DEF NewItem, Item

(* Statuses may change as long as no item comes alive.                     *)
LEMMA QueueChanged ==
  ASSUME NEW q, QueueOK(q), NEW p \in Seq(Item), DOMAIN p = DOMAIN q,
         \A i \in DOMAIN q : p[i].run = q[i].run /\ p[i].agent = q[i].agent,
         \A i \in DOMAIN q : LiveItem(p[i]) => LiveItem(q[i])
  PROVE  QueueOK(p)
<1>1. LiveItems(p) \subseteq LiveItems(q)
  BY DEF LiveItems
<1>2. Cardinality(LiveItems(p)) <= Cardinality(LiveItems(q)) /\ Cardinality(LiveItems(p)) \in Nat
  BY <1>1, QueueFacts, FS_Subset, FS_CardinalityType
<1>3. Cardinality(LiveItems(p)) <= Capacity
  BY SMTT(30), <1>2, QueueFacts, CollaborationAssumption DEF QueueOK
<1> QED BY <1>3 DEF QueueOK

LEMMA MarkType ==
  ASSUME NEW q, QueueOK(q), NEW r, NEW st \in {"queued", "running", "interrupted", "settled"},
         st \in {"queued", "running"} => \A i \in ItemOf(q, r) : LiveItem(q[i])
  PROVE  QueueOK(Mark(q, r, st))
<1> DEFINE p == Mark(q, r, st)
<1>1. /\ DOMAIN p = DOMAIN q
      /\ \A i \in DOMAIN q : p[i] = IF q[i].run = r THEN [q[i] EXCEPT !.status = st] ELSE q[i]
  BY DEF Mark
<1> HIDE DEF p
<1>2. \A i \in DOMAIN q : /\ p[i] \in Item /\ p[i].run = q[i].run /\ p[i].agent = q[i].agent
                          /\ p[i].status = IF q[i].run = r THEN st ELSE q[i].status
  BY <1>1, QueueFacts DEF Item
<1>3. p \in Seq(Item)
  <2>1. p \in [1..Len(q) -> Item]
    BY <1>1, <1>2, QueueFacts DEF p, Mark
  <2> QED BY <2>1, QueueFacts
<1>4. \A i \in DOMAIN q : LiveItem(p[i]) => LiveItem(q[i])
  BY <1>2 DEF LiveItem, ItemOf
<1>5. QueueOK(p)
  BY <1>1, <1>2, <1>3, <1>4, QueueChanged
<1> QED BY <1>5 DEF p

LEMMA AppendType ==
  ASSUME NEW q, QueueOK(q), NEW r \in Run, ItemOf(q, r) = {}, Cardinality(LiveItems(q)) < Capacity
  PROVE  QueueOK(Append(q, NewItem(r)))
<1> DEFINE n == Len(q)
           e == NewItem(r)
           p == Append(q, e)
<1>0. n \in Nat /\ DOMAIN q = 1..n /\ e \in Item /\ e.run = r /\ e.agent = AgentOf(r) /\ r # Other
  BY QueueFacts, NewItemType
<1>1. /\ p \in Seq(Item) /\ DOMAIN p = 1..(n + 1) /\ p[n + 1] = e
      /\ \A i \in 1..n : p[i] = q[i]
  <2> HIDE DEF e
  <2> QED BY <1>0, QueueFacts, AppendFacts
<1> HIDE DEF p, e, n
<1>2. \A i \in 1..(n + 1) : i = n + 1 \/ i \in DOMAIN q
  BY <1>0
<1>3. \A i \in DOMAIN q : i # n + 1 /\ q[i].run # r
  BY <1>0 DEF ItemOf
<1>4. \A i, j \in DOMAIN p : p[i].run = p[j].run => i = j
  BY <1>0, <1>1, <1>2, <1>3 DEF QueueOK
<1>5. \A i \in DOMAIN p : p[i].agent = IF p[i].run = Other THEN Other ELSE AgentOf(p[i].run)
  BY <1>0, <1>1, <1>2 DEF QueueOK
<1>6. LiveItems(p) \subseteq LiveItems(q) \cup {n + 1}
  BY <1>0, <1>1, <1>2 DEF LiveItems
<1>7. Cardinality(LiveItems(p)) <= Capacity
  <2>1. IsFiniteSet(LiveItems(q)) /\ Cardinality(LiveItems(q)) \in Nat
    BY QueueFacts
  <2>2. /\ IsFiniteSet(LiveItems(q) \cup {n + 1})
        /\ Cardinality(LiveItems(q) \cup {n + 1}) \in {Cardinality(LiveItems(q)), Cardinality(LiveItems(q)) + 1}
    BY <2>1, FS_AddElement
  <2>3. Cardinality(LiveItems(p)) <= Cardinality(LiveItems(q) \cup {n + 1}) /\ Cardinality(LiveItems(p)) \in Nat
    BY <1>6, <2>2, FS_Subset, FS_CardinalityType
  <2> QED BY <2>1, <2>2, <2>3, CollaborationAssumption
<1>8. QueueOK(p)
  BY <1>1, <1>4, <1>5, <1>7 DEF QueueOK
<1> QED BY <1>8 DEF p, e

(* The host with another queue.                                            *)
LEMMA RequeueType ==
  ASSUME NEW w \in HostState, NEW q, QueueOK(q)
  PROVE  /\ [w EXCEPT !.queue = q] \in HostState /\ [w EXCEPT !.queue = q].queue = q
         /\ [w EXCEPT !.queue = q].record = w.record /\ [w EXCEPT !.queue = q].entries = w.entries
<1> DEFINE v == [w EXCEPT !.queue = q]
<1>1. v = [record |-> w.record, entries |-> w.entries, queue |-> q]
  BY HostFacts
<1>2. v \in HostState
  BY <1>1, HostFacts, QueueFacts DEF HostState
<1> QED BY <1>1, <1>2

-----------------------------------------------------------------------------
(* What the handlers are made of *)

EnqueueDone(w, v, r) ==
  LET u == PutLife(w, AgentOf(r), r, "queued")
  IN /\ v.queue = Append(w.queue, NewItem(r))
     /\ v.record = u.record /\ v.entries = u.entries
     /\ \A b \in Agent : Seen(v, b) = Seen(u, b)

LEMMA EnqueueFacts ==
  ASSUME NEW w \in HostState, NEW r \in Run, CanEnqueue(w, r)
  PROVE  Enqueue(w, r) \in HostState /\ EnqueueDone(w, Enqueue(w, r), r)
<1> DEFINE u == PutLife(w, AgentOf(r), r, "queued")
           q == Append(w.queue, NewItem(r))
<1>1. u \in HostState /\ u.queue = w.queue
  <2>1. AgentOf(r) \in Agent /\ r \in Run \cup {NoRun} /\ "queued" \in LifeState \ {"none"}
    BY AgentFacts DEF LifeState
  <2> QED BY <2>1, PutLifeFacts DEF LifeDone
<1>2. QueueOK(q)
  BY HostFacts, AppendType DEF CanEnqueue
<1>3. Enqueue(w, r) = [u EXCEPT !.queue = q]
  BY <1>1 DEF Enqueue, NewItem
<1> HIDE DEF u, q
<1>4. /\ Enqueue(w, r) \in HostState /\ Enqueue(w, r).queue = q
      /\ Enqueue(w, r).record = u.record /\ Enqueue(w, r).entries = u.entries
  BY <1>1, <1>2, <1>3, RequeueType
<1>5. \A b \in Agent : Seen(Enqueue(w, r), b) = Seen(u, b)
  BY <1>4 DEF Seen
<1> QED BY <1>4, <1>5 DEF EnqueueDone, u, q

LEMMA LeaseType ==
  ASSUME NEW w \in HostState, NEW c \in Child
  PROVE  /\ Acquire(w, c) \in HostState /\ Release(w, c) \in HostState
         /\ QueueBlocked(w, c) \in HostState
<1>1. c \in Agent /\ c \in Run /\ Note("lease", c) \in Event /\ Note("release", c) \in Event
  BY AgentFacts, EventType
<1>2. Acquire(w, c) \in HostState
  BY <1>1, PutFacts DEF Acquire
<1>3. Release(w, c) \in HostState
  BY <1>1, PutFacts DEF Release
<1>4. QueueBlocked(w, c) \in HostState
  BY <1>1, <1>2, EnqueueFacts DEF QueueBlocked
<1> QED BY <1>2, <1>3, <1>4

(* What holds of a host, and is kept when one child is resumed, holds when *)
(* they all have been.                                                     *)
LEMMA ResumeInduction ==
  ASSUME NEW o, NEW G, NEW w \in G, sessions \in Seq(Child),
         \A v \in G, c \in Child : ResumeOne(v, c, o) \in G
  PROVE  Resume(w, o) \in G
<1> DEFINE n == Len(sessions)
           F == [i \in 1..n |-> [v \in G |-> ResumeOne(v, sessions[i], o)]]
           Body(f) == [i \in 0..n |-> IF i = 0 THEN w ELSE ResumeOne(f[i - 1], sessions[i], o)]
           After == CHOOSE f : f = Body(f)
<1>0. n \in Nat /\ \A i \in 1..n : sessions[i] \in Child
  OBVIOUS
<1>1. F \in [1..n -> [G -> G]]
  BY <1>0
<1> HIDE DEF n
<1>2. PICK f \in [0..n -> G] : Carries(f, n, w, F)
  <2> HIDE DEF F
  <2> QED BY <1>0, <1>1, CarriedExists
<1>3. f = Body(f)
  <2>1. ASSUME NEW i \in 0..n PROVE f[i] = IF i = 0 THEN w ELSE ResumeOne(f[i - 1], sessions[i], o)
    <3>1. CASE i = 0
      BY <1>2, <3>1 DEF Carries
    <3>2. CASE i # 0
      <4>1. i \in 1..n /\ f[i - 1] \in G
        BY <1>0, <3>2
      <4> QED BY <1>2, <3>2, <4>1 DEF Carries
    <3> QED BY <3>1, <3>2
  <2> QED BY <2>1
<1>4. After = Body(After)
  BY <1>3
<1>5. Resume(w, o) = After[n]
  BY DEF Resume, n
<1> HIDE DEF After
<1>6. \A i \in 0..n : After[i] = IF i = 0 THEN w ELSE ResumeOne(After[i - 1], sessions[i], o)
  BY <1>4
<1> DEFINE T == {i \in 0..n : After[i] \in G}
<1>7. 0 \in T
  BY <1>0, <1>6
<1>8. ASSUME NEW i \in 0..n, i # n, i \in T PROVE i + 1 \in T
  <2>1. i + 1 \in 1..n /\ i + 1 \in 0..n /\ i + 1 # 0 /\ (i + 1) - 1 = i
    BY <1>0, <1>8
  <2>2. After[i + 1] = ResumeOne(After[i], sessions[i + 1], o)
    BY <1>6, <2>1
  <2> QED BY <1>0, <1>8, <2>1, <2>2
<1> HIDE DEF T
<1>9. \A i \in 0..n : i \in T
  BY <1>0, <1>7, <1>8, AlongArray
<1>10. n \in T
  BY <1>0, <1>9
<1> QED BY <1>5, <1>10 DEF T

LEMMA CompleteType ==
  ASSUME NEW w \in HostState, NEW r \in Run, NEW st \in Terminal, sessions \in Seq(Child)
  PROVE  /\ Release(w, AgentOf(r)) \in HostState
         /\ \A v \in HostState, c \in Child, o \in Child : ResumeOne(v, c, o) \in HostState
         /\ Resume(Release(w, AgentOf(r)), AgentOf(r)) \in HostState
         /\ Complete(w, r, st) \in HostState
<1>1. AgentOf(r) \in Child /\ ParentOf[AgentOf(r)] \in Agent /\ Completion(r, st) \in Event
  BY AgentFacts, EventType
<1>2. Release(w, AgentOf(r)) \in HostState
  BY <1>1, LeaseType
<1>3. \A v \in HostState, c \in Child, o \in Child : ResumeOne(v, c, o) \in HostState
  BY LeaseType DEF ResumeOne
<1>4. Resume(Release(w, AgentOf(r)), AgentOf(r)) \in HostState
  BY <1>1, <1>2, <1>3, ResumeInduction
<1>5. Complete(w, r, st) \in HostState
  BY <1>1, <1>4, PutFacts DEF Complete
<1> QED BY <1>2, <1>3, <1>4, <1>5

LEMMA StartedType ==
  ASSUME NEW w \in HostState, NEW m \in FollowUp
  PROVE  Started(w, m) \in HostState
<1>1. /\ Receiver[m] \in Agent /\ Note("started", m) \in Event /\ Note("consumed", {m}) \in Event
  BY AgentFacts, EventType
<1> QED BY <1>1, PutFacts DEF Started

LEMMA DecideType ==
  ASSUME NEW w \in HostState, NEW c \in Child, NEW act \in Choice
  PROVE  Decide(w, c, act) \in HostState /\ Decide(w, c, act).queue = w.queue
<1> DEFINE to == {a \in {c, conflict[c], CommonParent(c, conflict[c])} : ~Decided(w.record[a], c)}
           e == Resolved(c, act)
           R == [a \in Agent |-> IF a \in to /\ turn[a] = NoRun THEN Apply(w.record[a], e) ELSE w.record[a]]
           E == [a \in Agent |-> IF a \in to /\ turn[a] # NoRun THEN Append(w.entries[a], e) ELSE w.entries[a]]
<1>0. e \in Event
  BY EventType
<1>1. Decide(w, c, act) = [w EXCEPT !.record = R, !.entries = E]
  BY DEF Decide
<1> HIDE DEF e, to
<1>2. R \in [Agent -> Record]
  BY <1>0, HostFacts, ApplyType
<1>3. E \in [Agent -> Seq(Event)]
  <2>1. \A a \in Agent : Append(w.entries[a], e) \in Seq(Event)
    BY <1>0, HostFacts, AppendFacts
  <2> QED BY <2>1, HostFacts
<1>4. \A a \in Agent : turn[a] = NoRun => E[a] = <<>>
  BY HostFacts
<1> HIDE DEF R, E
<1>5. Decide(w, c, act) = [record |-> R, entries |-> E, queue |-> w.queue]
  BY ZenonT(60), <1>1, HostFacts
<1> QED BY <1>2, <1>3, <1>4, <1>5, HostFacts DEF HostState

LEMMA CurrentRunFacts ==
  ASSUME NEW c \in Child, QueueOK(queue), CurrentRun(c) # NoRun
  PROVE  /\ CurrentRun(c) \in Run /\ AgentOf(CurrentRun(c)) = c
         /\ \E i \in DOMAIN queue : queue[i].run = CurrentRun(c) /\ queue[i].status # "settled"
<1> DEFINE own == {i \in DOMAIN queue : queue[i].agent = c /\ queue[i].status # "settled"}
           k == CHOOSE i \in own : \A j \in own : j <= i
<1>1. own # {} /\ CurrentRun(c) = queue[k].run
  BY DEF CurrentRun
<1>2. own \in SUBSET (1..Len(queue)) /\ Len(queue) \in Nat
  BY QueueFacts
<1>3. \E i \in own : \A j \in own : j <= i
  <2> HIDE DEF own
  <2> QED BY <1>1, <1>2, GreatestExists
<1>4. k \in own
  BY <1>3
<1> HIDE DEF k
<1>5. k \in DOMAIN queue /\ queue[k].agent = c /\ queue[k].status # "settled" /\ queue[k] \in Item
  BY <1>4, QueueFacts
<1>6. queue[k].run \in Run /\ AgentOf(queue[k].run) = c
  BY <1>5, CollaborationAssumption DEF QueueOK, Item, Run
<1> QED BY <1>1, <1>5, <1>6

LEMMA StoppedType ==
  ASSUME NEW w \in HostState, NEW c \in Child, QueueOK(queue), sessions \in Seq(Child)
  PROVE  Stopped(w, c) \in HostState
<1>1. c \in Agent /\ CurrentRun(c) \in Run \cup {NoRun}
  BY CurrentRunFacts, AgentFacts
<1>2. "interrupted" \in LifeState \ {"none"} /\ "interrupted" \in Terminal
  BY DEF LifeState, Terminal
<1>3. PutLife(w, c, CurrentRun(c), "interrupted") \in HostState
  BY <1>1, <1>2, PutLifeFacts
<1> QED BY <1>1, <1>2, <1>3, CompleteType DEF Stopped

(* What holds of a host, and is kept when one agent is stopped, holds when *)
(* they all have been.                                                     *)
LEMMA StopInduction ==
  ASSUME NEW ts \in Seq(Child), NEW go, NEW G, NEW w \in G,
         \A v \in G, d \in Child : StopOne(v, d, go) \in G
  PROVE  StopEach(w, ts, go) \in G
<1> DEFINE n == Len(ts)
           F == [i \in 1..n |-> [v \in G |-> StopOne(v, ts[i], go)]]
           Body(f) == [i \in 0..n |-> IF i = 0 THEN w ELSE StopOne(f[i - 1], ts[i], go)]
           After == CHOOSE f : f = Body(f)
<1>0. n \in Nat /\ \A i \in 1..n : ts[i] \in Child
  OBVIOUS
<1>1. F \in [1..n -> [G -> G]]
  BY <1>0
<1> HIDE DEF n
<1>2. PICK f \in [0..n -> G] : Carries(f, n, w, F)
  <2> HIDE DEF F
  <2> QED BY <1>0, <1>1, CarriedExists
<1>3. f = Body(f)
  <2>1. ASSUME NEW i \in 0..n PROVE f[i] = IF i = 0 THEN w ELSE StopOne(f[i - 1], ts[i], go)
    <3>1. CASE i = 0
      BY <1>2, <3>1 DEF Carries
    <3>2. CASE i # 0
      <4>1. i \in 1..n /\ f[i - 1] \in G
        BY <1>0, <3>2
      <4> QED BY <1>2, <3>2, <4>1 DEF Carries
    <3> QED BY <3>1, <3>2
  <2> QED BY <2>1
<1>4. After = Body(After)
  BY <1>3
<1>5. StopEach(w, ts, go) = After[n]
  BY DEF StopEach, n
<1> HIDE DEF After
<1>6. \A i \in 0..n : After[i] = IF i = 0 THEN w ELSE StopOne(After[i - 1], ts[i], go)
  BY <1>4
<1> DEFINE T == {i \in 0..n : After[i] \in G}
<1>7. 0 \in T
  BY <1>0, <1>6
<1>8. ASSUME NEW i \in 0..n, i # n, i \in T PROVE i + 1 \in T
  <2>1. i + 1 \in 1..n /\ i + 1 \in 0..n /\ i + 1 # 0 /\ (i + 1) - 1 = i
    BY <1>0, <1>8
  <2>2. After[i + 1] = StopOne(After[i], ts[i + 1], go)
    BY <1>6, <2>1
  <2> QED BY <1>0, <1>8, <2>1, <2>2
<1> HIDE DEF T
<1>9. \A i \in 0..n : i \in T
  BY <1>0, <1>7, <1>8, AlongArray
<1>10. n \in T
  BY <1>0, <1>9
<1> QED BY <1>5, <1>10 DEF T

-----------------------------------------------------------------------------
(* Messages.  What lifecycle events, leases, completions and decisions     *)
(* leave alone, and what every event at most adds to.                      *)

SameMail(R, T) ==
  T.mail = R.mail /\ T.started = R.started /\ (R.last.state # "none" => T.last.state # "none")
MoreMail(R, T) ==
  /\ \A m \in Mail : R.mail[m] # "none" => T.mail[m] # "none"
  /\ R.started \subseteq T.started /\ (R.last.state # "none" => T.last.state # "none")
Quiet(e) == e.type \notin {"mail", "consumed", "acked", "started"}

Silent(w, v) ==
  \A a \in Agent : SameMail(w.record[a], v.record[a]) /\ SameMail(Seen(w, a), Seen(v, a))
Grows(w, v) ==
  \A a \in Agent : /\ MoreMail(w.record[a], v.record[a]) /\ MoreMail(Seen(w, a), Seen(v, a))
                   /\ turn[a] # NoRun => SameMail(w.record[a], v.record[a])

LEMMA ApplyQuiet ==
  ASSUME NEW R \in Record, NEW e \in Event
  PROVE  MoreMail(R, Apply(R, e)) /\ (Quiet(e) => SameMail(R, Apply(R, e)))
<1>1. R.last.state # "none" => Apply(R, e).last.state # "none"
  <2>1. CASE e.type = "life"
    <3>1. e.what # "none"
      BY <2>1 DEF Event
    <3>2. Apply(R, e).last = [run |-> e.of, state |-> e.what]
      BY <2>1, ApplyFields
    <3> QED BY <3>1, <3>2
  <2>2. CASE e.type # "life"
    <3>1. Apply(R, e).last = R.last
      BY <2>2, ApplyFields
    <3> QED BY <3>1
  <2> QED BY <2>1, <2>2
<1>2. R.started \subseteq Apply(R, e).started /\ (Quiet(e) => Apply(R, e).started = R.started)
  BY ApplyFields DEF Quiet
<1>3. Apply(R, e).mail = MailAfter(R, e)
  BY ApplyFields
<1>4. Quiet(e) => MailAfter(R, e) = R.mail
  BY DEF MailAfter, Quiet
<1>5. \A m \in Mail : R.mail[m] # "none" => MailAfter(R, e)[m] # "none"
  <2>1. R.mail \in [Mail -> MailState]
    BY DEF Record
  <2> QED BY <2>1 DEF MailAfter
<1> QED BY <1>1, <1>2, <1>3, <1>4, <1>5 DEF SameMail, MoreMail

LEMMA SilentFacts ==
  /\ \A w : Silent(w, w)
  /\ \A w, v, u : Silent(w, v) /\ Silent(v, u) => Silent(w, u)
  /\ \A w, v : Silent(w, v) => Grows(w, v)
BY DEF Silent, Grows, SameMail, MoreMail

LEMMA PutGrows ==
  ASSUME NEW w \in HostState, NEW v, NEW a \in Agent, NEW e \in Event, PutDone(w, v, a, e)
  PROVE  Grows(w, v) /\ (Quiet(e) => Silent(w, v))
<1>1. w.record[a] \in Record /\ Seen(w, a) \in Record
  BY HostFacts
<1>2. \A b \in Agent \ {a} : Seen(v, b) = Seen(w, b) /\ v.record[b] = w.record[b]
  BY DEF PutDone, Elsewhere
<1>3. Seen(v, a) = Apply(Seen(w, a), e)
  BY DEF PutDone
<1>4. v.record[a] = w.record[a] \/ (turn[a] = NoRun /\ v.record[a] = Apply(w.record[a], e))
  BY DEF PutDone
<1>5. \A R : SameMail(R, R) /\ MoreMail(R, R)
  BY DEF SameMail, MoreMail
<1>6. MoreMail(Seen(w, a), Seen(v, a)) /\ (Quiet(e) => SameMail(Seen(w, a), Seen(v, a)))
  BY <1>1, <1>3, ApplyQuiet
<1>7. /\ MoreMail(w.record[a], v.record[a]) /\ (Quiet(e) => SameMail(w.record[a], v.record[a]))
      /\ turn[a] # NoRun => SameMail(w.record[a], v.record[a])
  BY <1>1, <1>4, <1>5, ApplyQuiet
<1> QED BY <1>2, <1>5, <1>6, <1>7 DEF Grows, Silent

LEMMA PutLifeSilent ==
  ASSUME NEW w \in HostState, NEW v, NEW a \in Agent, NEW r \in Run \cup {NoRun},
         NEW st \in LifeState \ {"none"}, LifeDone(w, v, a, r, st)
  PROVE  Silent(w, v)
<1>1. CASE v = w
  BY <1>1, SilentFacts
<1>2. CASE PutDone(w, v, a, Life(r, st))
  <2>1. Life(r, st) \in Event /\ Quiet(Life(r, st))
    BY EventType DEF Quiet, Life
  <2> QED BY <1>2, <2>1, PutGrows
<1>3. CASE Beneath(w, v, a, r, st)
  <2>1. w.record[a] \in Record /\ st \in LifeState
    BY HostFacts
  <2>2. Lived(w.record[a], v.record[a], r, st)
    BY <1>3, <2>1, ApplyLived DEF Beneath
  <2>3. SameMail(w.record[a], v.record[a])
    BY <2>2 DEF Lived, SameBut, SameMail
  <2>4. SameMail(Seen(w, a), Seen(v, a))
    BY <1>3 DEF Beneath, Under, SameBut, SameMail
  <2>5. \A b \in Agent \ {a} : SameMail(w.record[b], v.record[b]) /\ SameMail(Seen(w, b), Seen(v, b))
    BY DEF LifeDone, Elsewhere, SameMail
  <2> QED BY <2>3, <2>4, <2>5 DEF Silent
<1> QED BY <1>1, <1>2, <1>3 DEF LifeDone

(* A lifecycle event written into the record, whoever is in a turn.        *)
Recorded(w, a, r, st) == [w EXCEPT !.record = [w.record EXCEPT ![a] = Apply(w.record[a], Life(r, st))]]
RecordedDone(w, v, a, r, st) ==
  /\ v.queue = w.queue /\ v.entries = w.entries /\ Elsewhere(w, v, a)
  /\ v.record[a] = Apply(w.record[a], Life(r, st)) /\ v.record[a] \in Record
  /\ Lived(w.record[a], v.record[a], r, st) /\ Under(Seen(w, a), Seen(v, a), r, st)
  /\ NoLife(w.entries[a], r) /\ r \in Run => Seen(v, a).life[r] = st

LEMMA RecordedFacts ==
  ASSUME NEW w \in HostState, NEW a \in Agent, NEW r \in Run \cup {NoRun},
         NEW st \in LifeState \ {"none"}
  PROVE  /\ Recorded(w, a, r, st) \in HostState /\ RecordedDone(w, Recorded(w, a, r, st), a, r, st)
         /\ Silent(w, Recorded(w, a, r, st))
<1> DEFINE R == w.record[a]
           N == Apply(R, Life(r, st))
           v == Recorded(w, a, r, st)
           es == w.entries[a]
<1>1. R \in Record /\ N \in Record /\ es \in Seq(Event)
  BY EventType, HostFacts, ApplyType
<1>2. v = [record |-> [w.record EXCEPT ![a] = N], entries |-> w.entries, queue |-> w.queue]
  <2>1. v = [w EXCEPT !.record = [w.record EXCEPT ![a] = N]]
    BY DEF Recorded
  <2>2. w = [record |-> w.record, entries |-> w.entries, queue |-> w.queue]
    BY HostFacts
  <2> HIDE DEF v, N
  <2> QED BY <2>1, <2>2
<1>3. Lived(R, N, r, st)
  BY <1>1, ApplyLived
<1> HIDE DEF R, N
<1>4. v \in HostState
  BY <1>1, <1>2, HostFacts DEF HostState, es
<1>5. v.record[a] = N /\ v.entries = w.entries /\ v.queue = w.queue
  BY <1>2, HostFacts
<1>6. \A b \in Agent \ {a} : v.record[b] = w.record[b] /\ v.entries[b] = w.entries[b]
  BY <1>2, HostFacts
<1> HIDE DEF v
<1>7. \A b \in Agent \ {a} : Seen(v, b) = Seen(w, b)
  BY <1>6 DEF Seen
<1>8. Seen(v, a) = Flushed(N, es) /\ Seen(w, a) = Flushed(R, es)
  BY <1>5 DEF Seen, R, es
<1>9. Under(R, N, r, st) /\ (r \in Run => N.life[r] = st)
  BY <1>3 DEF Under, Lived
<1> HIDE DEF es
<1>10. /\ Under(Seen(w, a), Seen(v, a), r, st)
       /\ NoLife(es, r) /\ r \in Run => Seen(v, a).life[r] = st
  BY <1>1, <1>8, <1>9, FlushedUnder
<1>11. RecordedDone(w, v, a, r, st)
  BY <1>1, <1>3, <1>5, <1>6, <1>7, <1>10 DEF RecordedDone, Elsewhere, R, N, es
<1>12. Silent(w, v)
  <2>1. SameMail(w.record[a], v.record[a])
    BY <1>11 DEF RecordedDone, Lived, SameBut, SameMail, LifeState
  <2>2. SameMail(Seen(w, a), Seen(v, a))
    BY <1>11 DEF RecordedDone, Under, SameBut, SameMail
  <2>3. \A b \in Agent \ {a} : SameMail(w.record[b], v.record[b]) /\ SameMail(Seen(w, b), Seen(v, b))
    BY <1>6, <1>7 DEF SameMail
  <2> QED BY <2>1, <2>2, <2>3 DEF Silent
<1> QED BY <1>4, <1>11, <1>12 DEF v

(* What the handlers add to the queue besides follow-ups are first runs.   *)
Runs(q) == {q[i].run : i \in DOMAIN q}
Calm(w, v) == Silent(w, v) /\ Runs(v.queue) \subseteq Runs(w.queue) \cup Child

LEMMA CalmFacts ==
  /\ \A w : Calm(w, w)
  /\ \A w, v, u : Calm(w, v) /\ Calm(v, u) => Calm(w, u)
<1>1. \A w, v, u : Calm(w, v) /\ Calm(v, u) => Calm(w, u)
  <2> TAKE w, v, u
  <2> HAVE Calm(w, v) /\ Calm(v, u)
  <2>1. Silent(w, u)
    BY SilentFacts DEF Calm
  <2> QED BY <2>1 DEF Calm
<1> QED BY <1>1, SilentFacts DEF Calm

LEMMA AppendRuns ==
  ASSUME NEW q \in Seq(Item), NEW r \in Run
  PROVE  Runs(Append(q, NewItem(r))) = Runs(q) \cup {r}
<1> DEFINE e == NewItem(r)
           p == Append(q, e)
<1>1. e \in Item /\ e.run = r
  BY NewItemType
<1> HIDE DEF e
<1>2. DOMAIN p = 1..(Len(q) + 1) /\ p[Len(q) + 1] = e /\ \A i \in 1..Len(q) : p[i] = q[i]
  BY <1>1, AppendFacts
<1>3. DOMAIN q = 1..Len(q) /\ Len(q) \in Nat
  OBVIOUS
<1>4. \A i \in 1..(Len(q) + 1) : i \in 1..Len(q) \/ i = Len(q) + 1
  BY <1>3
<1>5. \A i \in 1..Len(q) : i \in 1..(Len(q) + 1)
  BY <1>3
<1>6. Len(q) + 1 \in 1..(Len(q) + 1)
  BY <1>3
<1> HIDE DEF p
<1>7. Runs(p) = Runs(q) \cup {r}
  BY <1>1, <1>2, <1>3, <1>4, <1>5, <1>6, Zenon DEF Runs
<1> QED BY <1>7 DEF p, e

LEMMA CalmParts ==
  ASSUME NEW w \in HostState, NEW c \in Child
  PROVE  /\ Calm(w, Acquire(w, c)) /\ Calm(w, Release(w, c)) /\ Calm(w, QueueBlocked(w, c))
         /\ \A o \in Child : Calm(w, ResumeOne(w, c, o))
<1>1. c \in Agent /\ c \in Run /\ AgentOf(c) = c /\ Note("lease", c) \in Event /\ Note("release", c) \in Event
  BY AgentFacts, EventType
<1>2. Quiet(Note("lease", c)) /\ Quiet(Note("release", c))
  BY DEF Quiet, Note
<1>3. \A e \in Event : Quiet(e) => Calm(w, Put(w, c, e))
  <2> TAKE e \in Event
  <2> HAVE Quiet(e)
  <2>1. PutDone(w, Put(w, c, e), c, e)
    BY <1>1, PutFacts
  <2> QED BY <1>1, <2>1, PutGrows DEF Calm, PutDone
<1>4. Calm(w, Acquire(w, c)) /\ Calm(w, Release(w, c))
  BY <1>1, <1>2, <1>3, CalmFacts DEF Acquire, Release
<1>5. \A v \in HostState : CanEnqueue(v, c) => Calm(v, Enqueue(v, c))
  <2> TAKE v \in HostState
  <2> HAVE CanEnqueue(v, c)
  <2> DEFINE u == PutLife(v, c, c, "queued")
  <2>1. EnqueueDone(v, Enqueue(v, c), c)
    BY <1>1, EnqueueFacts
  <2>2. LifeDone(v, u, c, c, "queued")
    BY <1>1, PutLifeFacts DEF LifeState
  <2>3. Silent(v, u)
    BY <1>1, <2>2, PutLifeSilent DEF LifeState
  <2> HIDE DEF u
  <2>4. Silent(v, Enqueue(v, c))
    BY <1>1, <2>1, <2>3 DEF EnqueueDone, Silent, u
  <2>5. Runs(Enqueue(v, c).queue) = Runs(v.queue) \cup {c}
    BY <1>1, <2>1, HostFacts, AppendRuns DEF EnqueueDone
  <2> QED BY <2>4, <2>5 DEF Calm
<1>6. Calm(w, QueueBlocked(w, c))
  BY <1>4, <1>5, LeaseType, CalmFacts DEF QueueBlocked
<1> QED BY <1>4, <1>6, CalmFacts DEF ResumeOne

LEMMA CompleteCalm ==
  ASSUME NEW w \in HostState, NEW r \in Run, NEW st \in Terminal, sessions \in Seq(Child)
  PROVE  Calm(w, Complete(w, r, st))
<1> DEFINE c == AgentOf(r)
           G == {v \in HostState : Calm(w, v)}
           u == Resume(Release(w, c), c)
           e == Completion(r, st)
<1>1. c \in Child /\ ParentOf[c] \in Agent /\ e \in Event /\ Quiet(e)
  BY AgentFacts, EventType DEF Completion, Quiet
<1>2. Release(w, c) \in G
  BY <1>1, CompleteType, CalmParts
<1>3. \A v \in G, d \in Child : ResumeOne(v, d, c) \in G
  BY <1>1, CompleteType, CalmParts, CalmFacts
<1>4. u \in G
  <2> HIDE DEF G
  <2> QED BY <1>1, <1>2, <1>3, ResumeInduction
<1>5. Calm(u, Put(u, ParentOf[c], e))
  <2>1. u \in HostState
    BY <1>4
  <2> HIDE DEF u, e, c
  <2>2. PutDone(u, Put(u, ParentOf[c], e), ParentOf[c], e)
    BY <1>1, <2>1, PutFacts
  <2> QED BY <1>1, <2>1, <2>2, PutGrows DEF Calm, PutDone
<1>6. Complete(w, r, st) \in {w, u, Put(u, ParentOf[c], e)}
  BY DEF Complete
<1>7. Calm(w, u)
  BY <1>4
<1> HIDE DEF u, e, c
<1> QED BY <1>5, <1>6, <1>7, CalmFacts

LEMMA StoppedCalm ==
  ASSUME NEW w \in HostState, NEW c \in Child, QueueOK(queue), sessions \in Seq(Child)
  PROVE  Calm(w, Stopped(w, c))
<1> DEFINE r == CurrentRun(c)
           v == PutLife(w, c, r, "interrupted")
<1>1. c \in Agent /\ r \in Run \cup {NoRun} /\ "interrupted" \in LifeState \ {"none"} /\ "interrupted" \in Terminal
  BY CurrentRunFacts, AgentFacts DEF LifeState, Terminal
<1> HIDE DEF r
<1>2. v \in HostState /\ LifeDone(w, v, c, r, "interrupted")
  BY <1>1, PutLifeFacts
<1>3. Calm(w, v)
  BY <1>1, <1>2, PutLifeSilent DEF Calm, LifeDone
<1>4. r # NoRun => Calm(v, Complete(v, r, "interrupted"))
  BY <1>1, <1>2, CompleteCalm
<1>5. Stopped(w, c) = IF r = NoRun THEN v ELSE Complete(v, r, "interrupted")
  BY DEF Stopped, r
<1> HIDE DEF v
<1> QED BY <1>3, <1>4, <1>5, CalmFacts

LEMMA StopEachCalm ==
  ASSUME NEW w \in HostState, NEW ts \in Seq(Child), NEW go, QueueOK(queue), sessions \in Seq(Child)
  PROVE  StopEach(w, ts, go) \in HostState /\ Calm(w, StopEach(w, ts, go))
<1> DEFINE G == {v \in HostState : Calm(w, v)}
<1>1. w \in G
  BY CalmFacts
<1>2. \A v \in G, d \in Child : StopOne(v, d, go) \in G
  BY StoppedType, StoppedCalm, CalmFacts DEF StopOne
<1> HIDE DEF G
<1>3. StopEach(w, ts, go) \in G
  BY <1>1, <1>2, StopInduction
<1> QED BY <1>3 DEF G

(* A decision reaches the agents that have none yet.                       *)
Unmoved(w, v, a) == v.record[a] = w.record[a] /\ v.entries[a] = w.entries[a] /\ Seen(v, a) = Seen(w, a)
PutHere(w, v, a, e) ==
  /\ Seen(v, a) = Apply(Seen(w, a), e)
  /\ IF turn[a] = NoRun THEN v.record[a] = Apply(w.record[a], e) /\ v.entries[a] = w.entries[a]
                        ELSE v.record[a] = w.record[a] /\ v.entries[a] = Append(w.entries[a], e)
Told(w, c) == {a \in {c, conflict[c], CommonParent(c, conflict[c])} : ~Decided(w.record[a], c)}
DecideDone(w, v, c, act) ==
  /\ v.queue = w.queue
  /\ \A a \in Agent : IF a \in Told(w, c) THEN PutHere(w, v, a, Resolved(c, act)) ELSE Unmoved(w, v, a)

LEMMA DecideFacts ==
  ASSUME NEW w \in HostState, NEW c \in Child, NEW act \in Choice
  PROVE  DecideDone(w, Decide(w, c, act), c, act)
<1> DEFINE to == Told(w, c)
           e == Resolved(c, act)
           v == Decide(w, c, act)
           R == [a \in Agent |-> IF a \in to /\ turn[a] = NoRun THEN Apply(w.record[a], e) ELSE w.record[a]]
           E == [a \in Agent |-> IF a \in to /\ turn[a] # NoRun THEN Append(w.entries[a], e) ELSE w.entries[a]]
<1>0. e \in Event
  BY EventType
<1>1. v = [w EXCEPT !.record = R, !.entries = E]
  BY DEF Decide, Told
<1>2. w = [record |-> w.record, entries |-> w.entries, queue |-> w.queue]
  BY HostFacts
<1> HIDE DEF e, to, v
<1>3. v.record = R /\ v.entries = E /\ v.queue = w.queue
  <2> HIDE DEF R, E
  <2> QED BY <1>1, <1>2
<1>4. ASSUME NEW a \in Agent
      PROVE  IF a \in to THEN PutHere(w, v, a, e) ELSE Unmoved(w, v, a)
  <2>0. w.record[a] \in Record /\ w.entries[a] \in Seq(Event)
    BY HostFacts
  <2>1. CASE a \notin to
    <3>1. v.record[a] = w.record[a] /\ v.entries[a] = w.entries[a]
      BY <1>3, <2>1
    <3> QED BY <2>1, <3>1 DEF Unmoved, Seen
  <2>2. CASE a \in to /\ turn[a] = NoRun
    <3>1. v.record[a] = Apply(w.record[a], e) /\ v.entries[a] = w.entries[a] /\ w.entries[a] = <<>>
      BY <1>3, <2>2, HostFacts
    <3>2. Seen(v, a) = Apply(Seen(w, a), e)
      BY <1>0, <2>0, <3>1, ApplyType, FlushedEmpty DEF Seen
    <3> QED BY <2>2, <3>1, <3>2 DEF PutHere
  <2>3. CASE a \in to /\ turn[a] # NoRun
    <3>1. v.record[a] = w.record[a] /\ v.entries[a] = Append(w.entries[a], e)
      BY <1>3, <2>3
    <3>2. Seen(v, a) = Apply(Seen(w, a), e)
      BY <1>0, <2>0, <3>1, FlushedAppend DEF Seen
    <3> QED BY <2>3, <3>1, <3>2 DEF PutHere
  <2> QED BY <2>1, <2>2, <2>3
<1> QED BY <1>3, <1>4 DEF DecideDone, to, e, v

LEMMA DecideCalm ==
  ASSUME NEW w \in HostState, NEW c \in Child, NEW act \in Choice
  PROVE  Calm(w, Decide(w, c, act))
<1> DEFINE v == Decide(w, c, act)
           e == Resolved(c, act)
<1>1. DecideDone(w, v, c, act) /\ e \in Event /\ Quiet(e)
  BY DecideFacts, EventType DEF Resolved, Quiet
<1> HIDE DEF v, e
<1>2. ASSUME NEW a \in Agent
      PROVE  SameMail(w.record[a], v.record[a]) /\ SameMail(Seen(w, a), Seen(v, a))
  <2>0. w.record[a] \in Record /\ Seen(w, a) \in Record
    BY HostFacts
  <2>1. Unmoved(w, v, a) \/ PutHere(w, v, a, e)
    BY <1>1 DEF DecideDone, e
  <2>2. \A R : SameMail(R, R)
    BY DEF SameMail
  <2>3. CASE Unmoved(w, v, a)
    BY <2>2, <2>3 DEF Unmoved
  <2>4. CASE PutHere(w, v, a, e)
    <3>1. SameMail(w.record[a], Apply(w.record[a], e)) /\ SameMail(Seen(w, a), Apply(Seen(w, a), e))
      BY <1>1, <2>0, ApplyQuiet
    <3> QED BY <2>2, <2>4, <3>1 DEF PutHere
  <2> QED BY <2>1, <2>3, <2>4
<1>3. Calm(w, v)
  BY <1>1, <1>2 DEF Calm, Silent, DecideDone
<1> QED BY <1>3 DEF v

LEMMA GrowsFacts ==
  /\ \A w : Grows(w, w)
  /\ \A w, v, u : Grows(w, v) /\ Grows(v, u) => Grows(w, u)
  /\ \A w, v : Calm(w, v) => Grows(w, v)
<1>1. \A w, v, u : Grows(w, v) /\ Grows(v, u) => Grows(w, u)
  BY DEF Grows, MoreMail, SameMail
<1> QED BY <1>1, SilentFacts DEF Calm

LEMMA NoteGrows ==
  ASSUME NEW w \in HostState, NEW a \in Agent, NEW e \in Event
  PROVE  Put(w, a, e) \in HostState /\ Put(w, a, e).queue = w.queue /\ Grows(w, Put(w, a, e))
<1>1. Put(w, a, e) \in HostState /\ PutDone(w, Put(w, a, e), a, e)
  BY PutFacts
<1> QED BY <1>1, PutGrows DEF PutDone

LEMMA StartedGrows ==
  ASSUME NEW w \in HostState, NEW m \in FollowUp
  PROVE  /\ Started(w, m) \in HostState /\ Started(w, m).queue = w.queue /\ Grows(w, Started(w, m))
<1> DEFINE v == Put(w, Receiver[m], Note("started", m))
<1>1. Receiver[m] \in Agent /\ Note("started", m) \in Event /\ Note("consumed", {m}) \in Event
  BY AgentFacts, EventType
<1>2. v \in HostState /\ v.queue = w.queue /\ Grows(w, v)
  BY <1>1, NoteGrows
<1>3. Started(w, m) = Put(v, Receiver[m], Note("consumed", {m}))
  BY DEF Started
<1> HIDE DEF v
<1>4. Started(w, m) \in HostState /\ Started(w, m).queue = v.queue /\ Grows(v, Started(w, m))
  BY <1>1, <1>2, <1>3, NoteGrows
<1> QED BY <1>2, <1>4, GrowsFacts

LEMMA EnqueueSilent ==
  ASSUME NEW w \in HostState, NEW r \in Run, CanEnqueue(w, r)
  PROVE  /\ Enqueue(w, r) \in HostState /\ Silent(w, Enqueue(w, r))
         /\ Runs(Enqueue(w, r).queue) = Runs(w.queue) \cup {r}
<1> DEFINE a == AgentOf(r)
           u == PutLife(w, a, r, "queued")
           v == Enqueue(w, r)
<1>1. a \in Agent /\ r \in Run \cup {NoRun} /\ "queued" \in LifeState \ {"none"}
  BY AgentFacts DEF LifeState
<1>2. v \in HostState /\ EnqueueDone(w, v, r)
  BY EnqueueFacts
<1>3. LifeDone(w, u, a, r, "queued")
  BY <1>1, PutLifeFacts
<1>4. Silent(w, u)
  BY <1>1, <1>3, PutLifeSilent
<1>5. /\ v.queue = Append(w.queue, NewItem(r)) /\ v.record = u.record
      /\ \A b \in Agent : Seen(v, b) = Seen(u, b)
  BY <1>2 DEF EnqueueDone
<1> HIDE DEF u, v, a
<1>6. Silent(w, v)
  BY <1>4, <1>5 DEF Silent
<1>7. Runs(v.queue) = Runs(w.queue) \cup {r}
  BY <1>5, HostFacts, AppendRuns
<1> QED BY <1>2, <1>6, <1>7 DEF v

(* Flushing a recorder only adds to a record.                              *)
LEMMA FlushedGrows ==
  ASSUME NEW R \in Record, NEW es \in Seq(Event)
  PROVE  MoreMail(R, Flushed(R, es))
<1> DEFINE n == Len(es)
<1>0. n \in Nat /\ \A i \in 1..n : es[i] \in Event
  OBVIOUS
<1>1. PICK A \in [0..n -> Record] :
        A[0] = R /\ (\A i \in 1..n : A[i] = Apply(A[i - 1], es[i])) /\ Flushed(R, es) = A[n]
  BY FlushedSteps DEF Flushing
<1> HIDE DEF n
<1> DEFINE T == {i \in 0..n : MoreMail(R, A[i])}
<1>2. 0 \in T
  BY <1>0, <1>1 DEF MoreMail
<1>3. ASSUME NEW i \in 0..n, i # n, i \in T PROVE i + 1 \in T
  <2>1. i + 1 \in 1..n /\ (i + 1) - 1 = i /\ i + 1 \in 0..n
    BY <1>0, <1>3
  <2>2. A[i] \in Record /\ A[i + 1] = Apply(A[i], es[i + 1]) /\ es[i + 1] \in Event
    BY <1>0, <1>1, <2>1
  <2>3. MoreMail(A[i], A[i + 1])
    BY <2>2, ApplyQuiet
  <2>4. MoreMail(R, A[i + 1])
    BY <1>3, <2>3 DEF MoreMail
  <2> QED BY <2>1, <2>4
<1> HIDE DEF T
<1>4. \A i \in 0..n : i \in T
  BY <1>0, <1>2, <1>3, AlongArray
<1>5. n \in T
  BY <1>0, <1>4
<1> QED BY <1>1, <1>5 DEF T

-----------------------------------------------------------------------------
(* The inductive invariant of the types *)

Filed ==
  /\ record \in [Agent -> Record] /\ entries \in [Agent -> Seq(Event)]
  /\ \A a \in Agent : turn[a] = NoRun => entries[a] = <<>>
Listed ==
  /\ sessions \in Seq(Child) /\ IsInjective(sessions)
  /\ \A c \in ToSet(sessions) : record[c].last.state # "none"
HeldOK ==
  Waiting =>
    /\ held = [agent |-> held.agent, sessions |-> held.sessions, queue |-> held.queue]
    /\ held.agent \in Waiters /\ held.sessions \in Seq(Child) /\ IsInjective(held.sessions)
    /\ ToSet(held.sessions) \subseteq ToSet(sessions)
    /\ held.queue # Live => QueueOK(held.queue)
Small ==
  /\ turn \in [Agent -> Run \cup {Root, NoRun}]
  /\ turn[Root] \in {Root, NoRun} /\ \A c \in Child : turn[c] # NoRun => turn[c] \in Run /\ AgentOf(turn[c]) = c
  /\ phase \in [Run -> {"none", "claimed", "turn", "over", "again", "done"}]
  /\ conflict \in [Child -> Child \cup {NoRun}]
  /\ apart \cup closed \cup waived \subseteq Child
  /\ given \in [FollowUp -> SUBSET {"steered", "run"}] /\ calls \in 0 .. MaxCalls
AInv == Filed /\ Listed /\ QueueOK(queue) /\ HeldOK /\ Small

LEMMA HostType ==
  ASSUME AInv
  PROVE  /\ host \in HostState /\ host.record = record /\ host.entries = entries /\ host.queue = queue
         /\ sessions \in Seq(Child)
BY DEF AInv, Filed, Listed, QueueOK, host, HostState

(* The sessions may only become fewer.                                     *)
Narrowed == sessions' \in Seq(Child) /\ IsInjective(sessions') /\ ToSet(sessions') \subseteq ToSet(sessions)

LEMMA FiledStep ==
  ASSUME AInv, NEW v \in HostState, Grows(host, v), Write(v), turn' = turn, Narrowed
  PROVE  Filed' /\ Listed'
<1>1. record' = v.record /\ entries' = v.entries
  BY DEF Write
<1>2. Filed'
  BY <1>1, HostFacts DEF Filed
<1>3. \A c \in ToSet(sessions) : c \in Agent
  BY AgentFacts DEF AInv, Listed, ToSet
<1>4. \A c \in ToSet(sessions) : record'[c].last.state # "none"
  BY <1>1, <1>3, HostType DEF AInv, Listed, Grows, MoreMail
<1> QED BY <1>2, <1>4 DEF Listed, Narrowed

LEMMA StayedNarrow == ASSUME AInv, sessions' = sessions PROVE Narrowed
BY DEF AInv, Listed, Narrowed

LEMMA HeldReplace ==
  ASSUME AInv, ToSet(sessions) \subseteq ToSet(sessions'), NEW old, NEW q, QueueOK(old), QueueOK(q),
         Replace(old, q) \/ Commit(old, q)
  PROVE  QueueOK(queue') /\ HeldOK' /\ queue' = q
<1>1. queue' = q /\ held' \in {held, [held EXCEPT !.queue = old]} /\ (held' # held => Waiting)
  BY DEF Replace, Commit
<1>2. CASE held' = held
  BY <1>1, <1>2 DEF AInv, HeldOK, Waiting
<1>3. CASE held' # held
  <2>1. held = [agent |-> held.agent, sessions |-> held.sessions, queue |-> held.queue]
    BY <1>1, <1>3 DEF AInv, HeldOK
  <2>2. held' = [agent |-> held.agent, sessions |-> held.sessions, queue |-> old]
    BY <1>1, <1>3, <2>1
  <2> QED BY <1>1, <1>3, <2>2 DEF AInv, HeldOK, Waiting
<1> QED BY <1>1, <1>2, <1>3

LEMMA HeldWake ==
  ASSUME AInv, NEW old, QueueOK(old), Waiting, Wake(old)
  PROVE  QueueOK(queue') /\ HeldOK' /\ Narrowed /\ queue' \in {old, held.queue}
BY DEF AInv, HeldOK, Waiting, Wake, Narrowed

LEMMA HeldStays ==
  ASSUME AInv, queue' = queue, held' = held, ToSet(sessions) \subseteq ToSet(sessions')
  PROVE  QueueOK(queue') /\ HeldOK'
BY DEF AInv, HeldOK, Waiting

-----------------------------------------------------------------------------
(* Every step keeps it *)

Admitted(c) == [host EXCEPT !.record[c].last = [run |-> NoRun, state |-> "admitted"]]
Fresh(c)    == Acquire(Admitted(c), c)

LEMMA AdmittedFacts ==
  ASSUME AInv, NEW c \in Child
  PROVE  /\ Admitted(c) = Recorded(host, c, NoRun, "admitted")
         /\ Admitted(c) \in HostState /\ RecordedDone(host, Admitted(c), c, NoRun, "admitted")
         /\ Calm(host, Admitted(c)) /\ Admitted(c).record[c].last.state = "admitted"
<1> DEFINE R == record[c]
           e == Life(NoRun, "admitted")
           n == [run |-> NoRun, state |-> "admitted"]
<1>1. host \in HostState /\ host.record = record /\ c \in Agent /\ R \in Record
  BY HostType, AgentFacts DEF AInv, Filed
<1>2. "admitted" \in LifeState \ {"none"} /\ NoRun \in Run \cup {NoRun}
  BY DEF LifeState
<1>3. Apply(R, e) = [R EXCEPT !.last = n]
  <2>1. Apply(R, e) = [R EXCEPT !.life = [x \in Run |-> IF x = NoRun THEN "admitted" ELSE R.life[x]], !.last = n]
    BY <1>1, ApplyLife
  <2>2. [x \in Run |-> IF x = NoRun THEN "admitted" ELSE R.life[x]] = R.life
    BY <1>1, AgentFacts DEF Record
  <2>3. [R EXCEPT !.life = R.life] = R
    BY <1>1 DEF Record
  <2> HIDE DEF R, e, n
  <2> QED BY <1>1, <2>1, <2>2, <2>3 DEF Record
<1>4. Admitted(c) = [host EXCEPT !.record = [host.record EXCEPT ![c] = [R EXCEPT !.last = n]]]
  BY <1>1 DEF Admitted
<1>5. Admitted(c) = Recorded(host, c, NoRun, "admitted")
  BY <1>1, <1>3, <1>4 DEF Recorded
<1>6. /\ Admitted(c) \in HostState /\ RecordedDone(host, Admitted(c), c, NoRun, "admitted")
      /\ Silent(host, Admitted(c))
  BY <1>1, <1>2, <1>5, RecordedFacts
<1>7. Calm(host, Admitted(c))
  BY <1>6 DEF Calm, RecordedDone
<1>8. Admitted(c).record[c].last.state = "admitted"
  BY <1>6 DEF RecordedDone, Lived
<1> QED BY <1>5, <1>6, <1>7, <1>8

(* What a new child is made of: blocked, enqueued, or refused.             *)
SpawnCases(c, v) ==
  \/ v = PutLife(Admitted(c), c, NoRun, "blocked") /\ Owners(host, c) # {} /\ UNCHANGED <<queue, held>>
     /\ conflict' = [conflict EXCEPT ![c] = FirstOwner(host, c)]
  \/ v = Enqueue(Fresh(c), c) /\ Owners(host, c) = {} /\ CanEnqueue(Fresh(c), c) /\ Commit(queue, v.queue)
     /\ UNCHANGED conflict
  \/ v = Release(Fresh(c), c) /\ Owners(host, c) = {} /\ UNCHANGED <<queue, held, conflict>>

LEMMA SpawnMade ==
  ASSUME AInv, NEW c \in Child, Spawn(c)
  PROVE  \E v \in HostState :
           /\ SpawnCases(c, v) /\ Write(v) /\ Calm(Admitted(c), v) /\ sessions' = Append(sessions, c)
           /\ record[c].last.state = "none" /\ Known(ParentOf[c])
           /\ UNCHANGED <<turn, phase, apart, closed, given, waived, calls>>
<1>1. Admitted(c) \in HostState /\ c \in Agent /\ c \in Run /\ AgentOf(c) = c
  BY AdmittedFacts, AgentFacts
<1>2. Fresh(c) \in HostState /\ Calm(Admitted(c), Fresh(c))
  BY <1>1, LeaseType, CalmParts DEF Fresh
<1>3. /\ PutLife(Admitted(c), c, NoRun, "blocked") \in HostState
      /\ Calm(Admitted(c), PutLife(Admitted(c), c, NoRun, "blocked"))
  <2> DEFINE u == PutLife(Admitted(c), c, NoRun, "blocked")
  <2>0. "blocked" \in LifeState \ {"none"}
    BY DEF LifeState
  <2>1. u \in HostState /\ LifeDone(Admitted(c), u, c, NoRun, "blocked")
    BY <1>1, <2>0, PutLifeFacts
  <2>2. Silent(Admitted(c), u)
    BY <1>1, <2>0, <2>1, PutLifeSilent
  <2> QED BY <2>1, <2>2 DEF Calm, LifeDone
<1>4. CanEnqueue(Fresh(c), c) => Enqueue(Fresh(c), c) \in HostState /\ Calm(Admitted(c), Enqueue(Fresh(c), c))
  <2> HAVE CanEnqueue(Fresh(c), c)
  <2>1. /\ Enqueue(Fresh(c), c) \in HostState /\ Silent(Fresh(c), Enqueue(Fresh(c), c))
        /\ Runs(Enqueue(Fresh(c), c).queue) = Runs(Fresh(c).queue) \cup {c}
    BY <1>1, <1>2, EnqueueSilent
  <2>2. Calm(Fresh(c), Enqueue(Fresh(c), c))
    BY <2>1 DEF Calm
  <2> QED BY <1>2, <2>1, <2>2, CalmFacts
<1>5. Release(Fresh(c), c) \in HostState /\ Calm(Admitted(c), Release(Fresh(c), c))
  BY <1>2, LeaseType, CalmParts, CalmFacts
<1>6. /\ sessions' = Append(sessions, c) /\ record[c].last.state = "none" /\ Known(ParentOf[c])
      /\ UNCHANGED <<turn, phase, apart, closed, given, waived, calls>>
  BY DEF Spawn
<1>7. \/ Write(PutLife(Admitted(c), c, NoRun, "blocked")) /\ SpawnCases(c, PutLife(Admitted(c), c, NoRun, "blocked"))
      \/ /\ CanEnqueue(Fresh(c), c) /\ Write(Enqueue(Fresh(c), c)) /\ SpawnCases(c, Enqueue(Fresh(c), c))
      \/ Write(Release(Fresh(c), c)) /\ SpawnCases(c, Release(Fresh(c), c))
  BY DEF Spawn, Fresh, Admitted, SpawnCases
<1> QED BY <1>3, <1>4, <1>5, <1>6, <1>7

LEMMA SpawnType ==
  ASSUME AInv, NEW c \in Child, Spawn(c) PROVE AInv'
<1>1. PICK v \in HostState :
        /\ SpawnCases(c, v) /\ Write(v) /\ Calm(Admitted(c), v) /\ sessions' = Append(sessions, c)
        /\ record[c].last.state = "none" /\ Known(ParentOf[c])
        /\ UNCHANGED <<turn, phase, apart, closed, given, waived, calls>>
  BY SpawnMade
<1>2. /\ host \in HostState /\ host.record = record /\ Admitted(c) \in HostState /\ Calm(host, Admitted(c))
      /\ Admitted(c).record[c].last.state = "admitted" /\ sessions \in Seq(Child) /\ c \in Agent
  BY HostType, AdmittedFacts, AgentFacts
<1>3. record' = v.record /\ entries' = v.entries
  BY <1>1 DEF Write
<1>4. Filed'
  BY <1>1, <1>3, HostFacts DEF Filed
<1>5. Grows(host, v) /\ Grows(Admitted(c), v)
  BY <1>1, <1>2, CalmFacts, GrowsFacts
<1>6. ToSet(sessions') = ToSet(sessions) \cup {c} /\ sessions' \in Seq(Child) /\ IsInjective(sessions')
  <2> DEFINE n == Len(sessions)
  <2>1. c \notin ToSet(sessions) /\ IsInjective(sessions)
    BY <1>1 DEF AInv, Listed
  <2>2. /\ sessions' \in Seq(Child) /\ DOMAIN sessions' = 1..(n + 1) /\ sessions'[n + 1] = c
        /\ \A i \in 1..n : sessions'[i] = sessions[i]
    BY <1>1, <1>2, AppendFacts
  <2>3. DOMAIN sessions = 1..n /\ n \in Nat
    BY <1>2
  <2>4. (\A i \in 1..(n + 1) : i \in 1..n \/ i = n + 1) /\ (\A i \in 1..n : i \in 1..(n + 1)) /\ n + 1 \in 1..(n + 1)
    BY <2>3
  <2> HIDE DEF n
  <2>5. ToSet(sessions') = ToSet(sessions) \cup {c}
    BY <2>2, <2>3, <2>4, Zenon DEF ToSet
  <2>6. \A i \in 1..n : sessions[i] # c
    BY <2>1, <2>3 DEF ToSet
  <2>7. IsInjective(sessions')
    BY <2>1, <2>2, <2>3, <2>4, <2>6 DEF IsInjective
  <2> QED BY <2>2, <2>5, <2>7
<1>7. Listed'
  <2>1. ASSUME NEW d \in ToSet(sessions') PROVE record'[d].last.state # "none"
    <3>1. CASE d = c
      <4>1. Admitted(c).record[c].last.state # "none"
        BY <1>2
      <4> QED BY <1>2, <1>3, <1>5, <3>1, <4>1 DEF Grows, MoreMail
    <3>2. CASE d \in ToSet(sessions)
      <4>1. record[d].last.state # "none" /\ d \in Agent
        BY <3>2, AgentFacts DEF AInv, Listed, ToSet
      <4> QED BY <1>2, <1>3, <1>5, <4>1 DEF Grows, MoreMail
    <3> QED BY <1>6, <2>1, <3>1, <3>2
  <2> QED BY <1>6, <2>1 DEF Listed
<1>8. QueueOK(queue') /\ HeldOK'
  <2>1. QueueOK(v.queue) /\ QueueOK(queue)
    BY HostFacts DEF AInv
  <2>2. (queue' = queue /\ held' = held) \/ Commit(queue, v.queue)
    BY <1>1 DEF SpawnCases
  <2> QED BY <1>6, <2>1, <2>2, HeldReplace, HeldStays
<1>9. conflict' \in [Child -> Child \cup {NoRun}]
  <2>1. Owners(host, c) # {} => FirstOwner(host, c) \in Child
    <3> HAVE Owners(host, c) # {}
    <3> DEFINE i == CHOOSE i \in Owners(host, c) : \A j \in Owners(host, c) : i <= j
    <3>1. Owners(host, c) \in SUBSET Nat
      BY <1>2 DEF Owners
    <3>2. i \in Owners(host, c)
      BY <3>1, LeastExists
    <3>3. i \in DOMAIN sessions
      BY <3>2 DEF Owners
    <3> HIDE DEF i
    <3>4. sessions[i] \in Child
      BY <1>2, <3>3
    <3> QED BY <3>4 DEF FirstOwner, i
  <2> QED BY <1>1, <2>1 DEF AInv, Small, SpawnCases
<1>10. Small'
  BY <1>1, <1>9 DEF AInv, Small
<1> QED BY <1>4, <1>7, <1>8, <1>10 DEF AInv

(* What becomes of the snapshot: nothing; an array is replaced; a wait     *)
(* ends, and its arrays come back or are gone.                             *)
Snapshot ==
  \/ queue' = queue /\ held' = held /\ sessions' = sessions
  \/ \E old, q : QueueOK(old) /\ QueueOK(q) /\ sessions' = sessions /\ (Replace(old, q) \/ Commit(old, q))
  \/ \E old : QueueOK(old) /\ Waiting /\ Wake(old)
  \/ QueueOK(queue') /\ held' = NoWait /\ sessions' = sessions

LEMMA HandlerType ==
  ASSUME AInv, NEW v \in HostState, Grows(host, v), Write(v), turn' = turn, Small', Snapshot
  PROVE  AInv'
<1>1. CASE \E old : QueueOK(old) /\ Waiting /\ Wake(old)
  <2>1. QueueOK(queue') /\ HeldOK' /\ Narrowed
    BY <1>1, HeldWake
  <2> QED BY <2>1, FiledStep DEF AInv
<1>2. CASE ~\E old : QueueOK(old) /\ Waiting /\ Wake(old)
  <2>1. sessions' = sessions
    BY <1>2 DEF Snapshot
  <2>2. Filed' /\ Listed'
    BY <2>1, FiledStep, StayedNarrow
  <2>3. QueueOK(queue') /\ HeldOK'
    <3>1. CASE queue' = queue /\ held' = held
      BY <2>1, <3>1, HeldStays
    <3>2. CASE \E old, q : QueueOK(old) /\ QueueOK(q) /\ sessions' = sessions /\ (Replace(old, q) \/ Commit(old, q))
      BY <2>1, <3>2, HeldReplace
    <3>3. CASE QueueOK(queue') /\ held' = NoWait
      BY <3>3 DEF HeldOK, Waiting
    <3> QED BY <1>2, <3>1, <3>2, <3>3 DEF Snapshot
  <2> QED BY <2>2, <2>3 DEF AInv
<1> QED BY <1>1, <1>2

LEMMA CallSmall ==
  ASSUME AInv, Call, agents' = agents, waived' \subseteq Child,
         given' \in [FollowUp -> SUBSET {"steered", "run"}]
  PROVE  Small' /\ turn' = turn
<1>1. calls' \in 0..MaxCalls
  BY CollaborationAssumption DEF AInv, Small, Call
<1>2. /\ turn' = turn /\ phase' = phase /\ conflict' = conflict /\ apart' = apart /\ closed' = closed
  BY DEF agents
<1> QED BY <1>1, <1>2 DEF AInv, Small

LEMMA SendType ==
  ASSUME AInv, NEW m \in Mail, Send(m) PROVE AInv'
<1> DEFINE a == Receiver[m]
           v == Put(host, a, Note("mail", m))
<1>1. v \in HostState /\ Grows(host, v)
  BY HostType, AgentFacts, EventType, NoteGrows
<1>2. Write(v) /\ Call /\ UNCHANGED <<agents, given, waived>>
  BY DEF Send
<1>3. Small' /\ turn' = turn
  BY <1>2, CallSmall DEF AInv, Small
<1>4. Snapshot
  <2>1. (Waiting /\ Wake(queue)) \/ UNCHANGED <<queue, sessions, held>>
    BY DEF Send, Wakes
  <2> QED BY <2>1 DEF Snapshot, AInv
<1> QED BY <1>1, <1>2, <1>3, <1>4, HandlerType

LEMMA ConsumeMade ==
  ASSUME AInv, NEW a \in Agent, Consume(a)
  PROVE  \E v \in HostState : Write(v) /\ Grows(host, v)
<1> DEFINE u == Put(host, a, Note("consumed", Unread(a)))
           v == Put(u, a, Note("read", record[a].unread))
<1>1. Note("consumed", Unread(a)) \in Event /\ Note("read", record[a].unread) \in Event
  BY EventType DEF AInv, Filed, Unread, Record
<1>2. u \in HostState /\ Grows(host, u)
  BY <1>1, HostType, NoteGrows
<1>3. v \in HostState /\ Grows(u, v)
  BY <1>1, <1>2, NoteGrows
<1>4. Grows(host, v)
  BY <1>2, <1>3, GrowsFacts
<1>5. Write(v)
  BY DEF Consume
<1> QED BY <1>3, <1>4, <1>5

LEMMA ConsumeType ==
  ASSUME AInv, NEW a \in Agent, Consume(a) PROVE AInv'
<1>1. Call /\ UNCHANGED <<queue, sessions, held, agents, given, waived>>
  BY DEF Consume
<1>2. Small' /\ turn' = turn /\ Snapshot
  BY <1>1, CallSmall DEF AInv, Small, Snapshot
<1> QED BY <1>2, ConsumeMade, HandlerType

LEMMA AckType ==
  ASSUME AInv, NEW m \in Mail, Ack(m) PROVE AInv'
<1> DEFINE v == Put(host, Receiver[m], Note("acked", m))
<1>1. v \in HostState /\ Grows(host, v)
  BY HostType, AgentFacts, EventType, NoteGrows
<1>2. Write(v) /\ Call /\ UNCHANGED <<queue, sessions, held, agents, given, waived>>
  BY DEF Ack
<1>3. Small' /\ turn' = turn /\ Snapshot
  BY <1>2, CallSmall DEF AInv, Small, Snapshot
<1> QED BY <1>1, <1>2, <1>3, HandlerType

(* A follow-up is steered, only becomes mail, or is enqueued.              *)
Mailed(m) == Put(host, Receiver[m], Note("mail", m))
Given(m, v) ==
  \/ /\ v = Started(Mailed(m), m) /\ turn[Receiver[m]] # NoRun
     /\ given' = [given EXCEPT ![m] = @ \cup {"steered"}] /\ UNCHANGED <<queue, held>>
  \/ v = Mailed(m) /\ UNCHANGED <<queue, held, given>>
  \/ /\ v = Started(Enqueue(Mailed(m), m), m) /\ turn[Receiver[m]] = NoRun /\ CanEnqueue(Mailed(m), m)
     /\ Commit(queue, v.queue) /\ UNCHANGED given

LEMMA SendFollowUpMade ==
  ASSUME AInv, NEW m \in Mail, SendFollowUp(m)
  PROVE  /\ m \in FollowUp /\ m \in Run /\ AgentOf(m) = Receiver[m] /\ Mailed(m) \in HostState
         /\ \E v \in HostState : Given(m, v) /\ Write(v) /\ Grows(host, v)
<1>1. /\ m \in FollowUp /\ m \in Run /\ AgentOf(m) = Receiver[m] /\ Receiver[m] \in Agent
      /\ Note("mail", m) \in Event
  BY AgentFacts, EventType DEF SendFollowUp
<1>2. Mailed(m) \in HostState /\ Grows(host, Mailed(m))
  BY <1>1, HostType, NoteGrows DEF Mailed
<1>3. Started(Mailed(m), m) \in HostState /\ Grows(host, Started(Mailed(m), m))
  BY <1>1, <1>2, StartedGrows, GrowsFacts
<1>4. CanEnqueue(Mailed(m), m) =>
        /\ Started(Enqueue(Mailed(m), m), m) \in HostState
        /\ Grows(host, Started(Enqueue(Mailed(m), m), m))
  <2> HAVE CanEnqueue(Mailed(m), m)
  <2>1. Enqueue(Mailed(m), m) \in HostState /\ Grows(Mailed(m), Enqueue(Mailed(m), m))
    BY <1>1, <1>2, EnqueueSilent, SilentFacts
  <2> QED BY <1>1, <1>2, <2>1, StartedGrows, GrowsFacts
<1>5. \/ Write(Started(Mailed(m), m)) /\ Given(m, Started(Mailed(m), m))
      \/ Write(Mailed(m)) /\ Given(m, Mailed(m))
      \/ /\ Write(Started(Enqueue(Mailed(m), m), m)) /\ Given(m, Started(Enqueue(Mailed(m), m), m))
         /\ CanEnqueue(Mailed(m), m)
  BY DEF SendFollowUp, Mailed, Given
<1> QED BY <1>1, <1>2, <1>3, <1>4, <1>5

LEMMA SendFollowUpType ==
  ASSUME AInv, NEW m \in Mail, SendFollowUp(m) PROVE AInv'
<1>1. PICK v \in HostState : Given(m, v) /\ Write(v) /\ Grows(host, v)
  BY SendFollowUpMade
<1>2. Call /\ UNCHANGED <<sessions, agents, waived>> /\ m \in FollowUp
  BY DEF SendFollowUp
<1>3. given' \in [FollowUp -> SUBSET {"steered", "run"}]
  BY <1>1 DEF Given, AInv, Small
<1>4. Small' /\ turn' = turn
  BY <1>2, <1>3, CallSmall DEF AInv, Small
<1>5. Snapshot
  <2>1. QueueOK(v.queue) /\ QueueOK(queue)
    BY HostFacts DEF AInv
  <2>2. UNCHANGED <<queue, held>> \/ Commit(queue, v.queue)
    BY <1>1 DEF Given
  <2> QED BY <1>2, <2>1, <2>2 DEF Snapshot
<1> QED BY <1>1, <1>4, <1>5, HandlerType

LEMMA WaitType ==
  ASSUME AInv, NEW a \in Agent, Wait(a) PROVE AInv'
<1>1. /\ Call /\ a \in Waiters /\ held' = [agent |-> a, sessions |-> sessions, queue |-> Live]
      /\ UNCHANGED <<sessions, queue, record, entries, agents, given, waived>>
  BY DEF Wait
<1>2. Small' /\ turn' = turn
  BY <1>1, CallSmall DEF AInv, Small
<1>3. HeldOK'
  BY <1>1 DEF AInv, Listed, HeldOK
<1>4. Filed' /\ Listed' /\ QueueOK(queue)'
  BY <1>1, <1>2 DEF AInv, Filed, Listed
<1> QED BY <1>2, <1>3, <1>4 DEF AInv

LEMMA WaitTimesOutType ==
  ASSUME AInv, WaitTimesOut PROVE AInv'
<1>1. Waiting /\ Wake(queue) /\ UNCHANGED <<record, entries, agents, given, waived, calls>>
  BY DEF WaitTimesOut
<1>2. Small' /\ turn' = turn
  BY <1>1 DEF AInv, Small, agents
<1>3. Write(host) /\ Grows(host, host) /\ host \in HostState
  BY <1>1, HostType, GrowsFacts DEF Write
<1>4. Snapshot
  BY <1>1 DEF AInv, Snapshot
<1> QED BY <1>2, <1>3, <1>4, HandlerType

(* The agents an interrupt reaches, in some order.                         *)
LEMMA TargetsType ==
  ASSUME AInv, NEW c \in Child, NEW ts \in {<<c>>} \cup SetToSeqs(Targets(c))
  PROVE  ts \in Seq(Child)
<1>1. sessions \in Seq(Child) /\ Targets(c) \subseteq ToSet(sessions) /\ ToSet(sessions) \subseteq Child
  BY DEF AInv, Listed, Targets, ToSet
<1>2. IsFiniteSet(ToSet(sessions))
  <2>1. IsFiniteSet(1..Len(sessions)) /\ DOMAIN sessions = 1..Len(sessions)
    BY <1>1, FS_Interval
  <2>2. sessions \in Surjection(1..Len(sessions), ToSet(sessions))
    BY <1>1, <2>1 DEF Surjection, ToSet
  <2> QED BY <2>1, <2>2, FS_Surjection
<1>3. Cardinality(Targets(c)) \in Nat
  BY <1>1, <1>2, FS_Subset, FS_CardinalityType
<1>4. CASE ts \in SetToSeqs(Targets(c))
  <2>1. ts \in [1..Cardinality(Targets(c)) -> Targets(c)]
    BY <1>4 DEF SetToSeqs
  <2>2. ts \in [1..Cardinality(Targets(c)) -> Child]
    BY <1>1, <2>1
  <2> QED BY <1>3, <2>2, FunctionIsSeq
<1>5. CASE ts = <<c>>
  BY <1>5
<1> QED BY <1>4, <1>5

Reached(ts) == {d \in ToSet(ts) : record[d].last.state \notin Terminal /\ Stoppable(d)}
Cut(go) == [i \in DOMAIN queue |->
              IF \E d \in go : queue[i].run = CurrentRun(d) /\ queue[i].status = "queued"
              THEN [queue[i] EXCEPT !.status = "interrupted"] ELSE queue[i]]
Cutted(go) == [host EXCEPT !.queue = Cut(go)]
StopDone(ts, v) ==
  /\ v = StopEach(Cutted(Reached(ts)), ts, Reached(ts)) /\ Write(v) /\ Reached(ts) # {}
  /\ waived' = waived \cup Reached(ts)
  /\ (queue' = v.queue /\ held' = NoWait) \/ Commit(Cut(Reached(ts)), v.queue)
  /\ UNCHANGED <<sessions, agents, given>>

LEMMA CutType ==
  ASSUME AInv, NEW go
  PROVE  /\ QueueOK(Cut(go)) /\ Runs(Cut(go)) = Runs(queue) /\ DOMAIN Cut(go) = DOMAIN queue
         /\ \A i \in DOMAIN queue : Cut(go)[i].run = queue[i].run /\ Cut(go)[i].agent = queue[i].agent
         /\ Cutted(go) \in HostState /\ Cutted(go).queue = Cut(go) /\ Calm(host, Cutted(go))
         /\ Cutted(go).record = record /\ Cutted(go).entries = entries
         /\ \A a \in Agent : Seen(Cutted(go), a) = Seen(host, a)
<1> DEFINE p == Cut(go)
           Hit(i) == \E d \in go : queue[i].run = CurrentRun(d) /\ queue[i].status = "queued"
<1>1. /\ queue \in Seq(Item) /\ DOMAIN queue = 1..Len(queue) /\ Len(queue) \in Nat
      /\ \A i \in DOMAIN queue : queue[i] \in Item
  BY QueueFacts DEF AInv
<1>2. DOMAIN p = DOMAIN queue /\ \A i \in DOMAIN queue :
        p[i] = IF Hit(i) THEN [queue[i] EXCEPT !.status = "interrupted"] ELSE queue[i]
  BY DEF Cut
<1> HIDE DEF Hit
<1>3. \A i \in DOMAIN queue :
        /\ p[i] \in Item /\ p[i].run = queue[i].run /\ p[i].agent = queue[i].agent
        /\ p[i].status \in {queue[i].status, "interrupted"}
  BY <1>1, <1>2 DEF Item
<1>4. p \in Seq(Item)
  <2>1. p \in [1..Len(queue) -> Item]
    BY <1>1, <1>2, <1>3 DEF Cut
  <2> QED BY <1>1, <2>1
<1> HIDE DEF p
<1>5. QueueOK(p)
  <2>1. \A i \in DOMAIN queue : LiveItem(p[i]) => LiveItem(queue[i])
    BY <1>3 DEF LiveItem
  <2> QED BY <1>2, <1>3, <1>4, <2>1, QueueChanged DEF AInv
<1>6. Runs(p) = Runs(queue)
  BY <1>2, <1>3 DEF Runs
<1>7. /\ Cutted(go) \in HostState /\ Cutted(go).queue = p
      /\ Cutted(go).record = record /\ Cutted(go).entries = entries
  BY <1>5, HostType, RequeueType DEF Cutted, p
<1>8. \A a \in Agent : Seen(Cutted(go), a) = Seen(host, a)
  BY <1>7, HostType DEF Seen
<1>9. Calm(host, Cutted(go))
  BY <1>6, <1>7, <1>8, HostType DEF Calm, Silent, SameMail
<1> QED BY <1>2, <1>3, <1>5, <1>6, <1>7, <1>8, <1>9 DEF p

LEMMA StopMade ==
  ASSUME AInv, NEW ts \in Seq(Child), Stop(ts)
  PROVE  /\ \E v \in HostState : StopDone(ts, v) /\ Calm(host, v)
         /\ Reached(ts) \subseteq Child
<1> DEFINE w == Cutted(Reached(ts))
           v == StopEach(w, ts, Reached(ts))
<1>1. w \in HostState /\ Calm(host, w)
  BY CutType
<1> HIDE DEF w
<1>2. v \in HostState /\ Calm(w, v)
  BY <1>1, HostType, StopEachCalm DEF AInv
<1>3. StopDone(ts, v)
  BY DEF Stop, StopDone, Reached, Cut, Cutted, w
<1>4. Reached(ts) \subseteq Child
  BY DEF Reached, ToSet
<1> QED BY <1>1, <1>2, <1>3, <1>4, CalmFacts

LEMMA InterruptType ==
  ASSUME AInv, NEW c \in Child, Interrupt(c) PROVE AInv'
<1>1. PICK ts \in {<<c>>} \cup SetToSeqs(Targets(c)) : Stop(ts)
  BY DEF Interrupt
<1>2. ts \in Seq(Child)
  BY TargetsType
<1>3. PICK v \in HostState : StopDone(ts, v) /\ Calm(host, v)
  BY <1>1, <1>2, StopMade
<1>4. Reached(ts) \subseteq Child
  BY <1>1, <1>2, StopMade
<1>5. Call
  BY DEF Interrupt
<1>6. Small' /\ turn' = turn
  BY <1>3, <1>4, <1>5, CallSmall DEF StopDone, AInv, Small
<1>7. Snapshot
  <2>1. QueueOK(Cut(Reached(ts))) /\ QueueOK(v.queue)
    BY CutType, HostFacts
  <2> QED BY <1>3, <2>1 DEF StopDone, Snapshot
<1>8. Write(v) /\ Grows(host, v)
  BY <1>3, GrowsFacts DEF StopDone
<1> QED BY <1>6, <1>7, <1>8, HandlerType

LEMMA CloseType ==
  ASSUME AInv, NEW c \in Child, Close(c) PROVE AInv'
<1>1. /\ Call /\ closed' = closed \cup {c}
      /\ UNCHANGED <<sessions, queue, record, entries, turn, phase, conflict, apart, held, given, waived>>
  BY DEF Close
<1>2. Small'
  <2>1. calls' \in 0..MaxCalls
    BY <1>1, CollaborationAssumption DEF AInv, Small, Call
  <2> QED BY <1>1, <2>1 DEF AInv, Small
<1>3. Write(host) /\ Grows(host, host) /\ host \in HostState
  BY <1>1, HostType, GrowsFacts DEF Write
<1> QED BY <1>1, <1>2, <1>3, HandlerType DEF Snapshot

LEMMA SerializeType ==
  ASSUME AInv, NEW c \in Child, Serialize(c) PROVE AInv'
<1> DEFINE v == Decide(host, c, "serialize")
<1>1. v \in HostState /\ Calm(host, v)
  BY HostType, DecideType, DecideCalm DEF Choice
<1>2. Write(v) /\ Call /\ UNCHANGED <<queue, sessions, held, agents, given, waived>>
  BY DEF Serialize, Undecided
<1>3. Small' /\ turn' = turn /\ Snapshot
  BY <1>2, CallSmall DEF AInv, Small, Snapshot
<1> HIDE DEF v
<1> QED BY <1>1, <1>2, <1>3, GrowsFacts, HandlerType

Cancelling(c) == PutLife(Decide(host, c, "cancel"), c, c, "cancelled")
LEMMA CancelMade ==
  ASSUME AInv, NEW c \in Child, CancelBlocked(c)
  PROVE  /\ Cancelling(c) \in HostState /\ Calm(host, Cancelling(c))
         /\ Complete(Cancelling(c), c, "cancelled") \in HostState
         /\ Calm(host, Complete(Cancelling(c), c, "cancelled"))
         /\ Write(Complete(Cancelling(c), c, "cancelled"))
<1> DEFINE u == Decide(host, c, "cancel")
           w == Cancelling(c)
           v == Complete(w, c, "cancelled")
<1>0. /\ c \in Agent /\ c \in Run /\ c \in Run \cup {NoRun} /\ "cancelled" \in LifeState \ {"none"}
      /\ "cancelled" \in Terminal /\ "cancel" \in Choice /\ sessions \in Seq(Child)
  BY AgentFacts, HostType DEF LifeState, Terminal, Choice
<1>1. u \in HostState /\ Calm(host, u)
  BY <1>0, HostType, DecideType, DecideCalm
<1>2. w = PutLife(u, c, c, "cancelled")
  BY DEF Cancelling
<1> HIDE DEF u, w
<1>3. w \in HostState /\ LifeDone(u, w, c, c, "cancelled")
  BY <1>0, <1>1, <1>2, PutLifeFacts
<1>4. Calm(host, w)
  <2>1. Silent(u, w)
    BY <1>0, <1>1, <1>3, PutLifeSilent
  <2> QED BY <1>1, <1>3, <2>1, CalmFacts DEF Calm, LifeDone
<1>5. v \in HostState /\ Calm(w, v)
  BY <1>0, <1>3, CompleteType, CompleteCalm
<1>6. Calm(host, v)
  BY <1>4, <1>5, CalmFacts
<1>7. Write(v)
  BY DEF CancelBlocked, Cancelling, w
<1> QED BY <1>3, <1>4, <1>5, <1>6, <1>7 DEF w

LEMMA CancelType ==
  ASSUME AInv, NEW c \in Child, CancelBlocked(c) PROVE AInv'
<1> DEFINE v == Complete(Cancelling(c), c, "cancelled")
<1>1. v \in HostState /\ Grows(host, v) /\ Write(v)
  BY CancelMade, GrowsFacts
<1>2. /\ Call /\ UNCHANGED <<sessions, agents, given, waived>>
      /\ (queue' = v.queue /\ held' = NoWait) \/ Commit(queue, v.queue)
  BY DEF CancelBlocked, Undecided, Cancelling
<1> HIDE DEF v
<1>3. Small' /\ turn' = turn
  BY <1>2, CallSmall DEF AInv, Small
<1>4. Snapshot
  <2>1. QueueOK(v.queue) /\ QueueOK(queue)
    BY <1>1, HostFacts DEF AInv
  <2> QED BY <1>2, <2>1 DEF Snapshot
<1> QED BY <1>1, <1>3, <1>4, HandlerType

(* A resolution moves the child, takes its lease, or enqueues it as well.  *)
Relet(w, c) == Acquire(w, c)
MoveCases(w, c, act, v) ==
  \/ /\ v = Decide(QueueBlocked(w, c), c, act) /\ CanEnqueue(Relet(w, c), c) /\ Commit(queue, v.queue)
     /\ act = "release" => Free(w, c)
  \/ v = Relet(w, c) /\ ~CanEnqueue(Relet(w, c), c) /\ UNCHANGED <<queue, held>>
  \/ v = w /\ UNCHANGED <<queue, held>>

LEMMA MoveFacts ==
  ASSUME NEW w \in HostState, NEW c \in Child, NEW act \in Choice
  PROVE  /\ Relet(w, c) \in HostState /\ Calm(w, Relet(w, c))
         /\ Decide(QueueBlocked(w, c), c, act) \in HostState /\ Calm(w, Decide(QueueBlocked(w, c), c, act))
<1>1. Relet(w, c) \in HostState /\ QueueBlocked(w, c) \in HostState
  BY LeaseType DEF Relet
<1>2. Calm(w, Relet(w, c)) /\ Calm(w, QueueBlocked(w, c))
  BY CalmParts DEF Relet
<1> QED BY <1>1, <1>2, DecideType, DecideCalm, CalmFacts

LEMMA MoveApartMade ==
  ASSUME AInv, NEW c \in Child, MoveApart(c)
  PROVE  \E v \in HostState : MoveCases(host, c, "apart", v) /\ Write(v) /\ Calm(host, v)
<1>1. host \in HostState /\ "apart" \in Choice
  BY HostType DEF Choice
<1>2. \/ /\ Write(Decide(QueueBlocked(host, c), c, "apart"))
         /\ MoveCases(host, c, "apart", Decide(QueueBlocked(host, c), c, "apart"))
      \/ Write(Relet(host, c)) /\ MoveCases(host, c, "apart", Relet(host, c))
  BY DEF MoveApart, MoveCases, Relet
<1> QED BY <1>1, <1>2, MoveFacts

LEMMA MoveApartType ==
  ASSUME AInv, NEW c \in Child, MoveApart(c) PROVE AInv'
<1>1. PICK v \in HostState : MoveCases(host, c, "apart", v) /\ Write(v) /\ Calm(host, v)
  BY MoveApartMade
<1>2. Call /\ apart' = apart \cup {c} /\ UNCHANGED <<sessions, turn, phase, conflict, closed, given, waived>>
  BY DEF MoveApart, Undecided
<1>3. Small'
  <2>1. calls' \in 0..MaxCalls
    BY <1>2, CollaborationAssumption DEF AInv, Small, Call
  <2> QED BY <1>2, <2>1 DEF AInv, Small
<1>4. Snapshot
  <2>1. QueueOK(v.queue) /\ QueueOK(queue)
    BY HostFacts DEF AInv
  <2> QED BY <1>1, <1>2, <2>1 DEF Snapshot, MoveCases
<1> QED BY <1>1, <1>2, <1>3, <1>4, GrowsFacts, HandlerType

LEMMA NarrowMade ==
  ASSUME AInv, NEW c \in Child, Narrow(c)
  PROVE  \E v \in HostState : /\ MoveCases(host, c, "apart", v) /\ Write(v) /\ Calm(host, v)
                             /\ (v = host \/ Free(host, c))
<1>1. host \in HostState /\ "apart" \in Choice
  BY HostType DEF Choice
<1>2. QueueResolved(host, c, "apart")
  BY DEF Narrow
<1>3. CASE ~Free(host, c)
  <2>1. Write(host) /\ MoveCases(host, c, "apart", host)
    BY <1>2, <1>3 DEF QueueResolved, MoveCases
  <2> QED BY <1>1, <2>1, CalmFacts
<1>4. CASE Free(host, c)
  <2>1. \/ /\ Write(Decide(QueueBlocked(host, c), c, "apart"))
           /\ MoveCases(host, c, "apart", Decide(QueueBlocked(host, c), c, "apart"))
        \/ Write(Relet(host, c)) /\ MoveCases(host, c, "apart", Relet(host, c))
    BY <1>2, <1>4 DEF QueueResolved, MoveCases, Relet
  <2> QED BY <1>1, <1>4, <2>1, MoveFacts
<1> QED BY <1>3, <1>4

LEMMA NarrowType ==
  ASSUME AInv, NEW c \in Child, Narrow(c) PROVE AInv'
<1>1. PICK v \in HostState : MoveCases(host, c, "apart", v) /\ Write(v) /\ Calm(host, v)
  BY NarrowMade
<1>2. Call /\ UNCHANGED <<sessions, agents, given, waived>>
  BY DEF Narrow, Undecided
<1>3. Small' /\ turn' = turn
  BY <1>2, CallSmall DEF AInv, Small
<1>4. Snapshot
  <2>1. QueueOK(v.queue) /\ QueueOK(queue)
    BY HostFacts DEF AInv
  <2> QED BY <1>1, <1>2, <2>1 DEF Snapshot, MoveCases
<1> QED BY <1>1, <1>3, <1>4, GrowsFacts, HandlerType

Loosed(c) == Release(host, conflict[c])
LEMMA LoosedFacts ==
  ASSUME AInv, NEW c \in Child, conflict[c] # NoRun
  PROVE  conflict[c] \in Child /\ Loosed(c) \in HostState /\ Calm(host, Loosed(c))
<1>1. conflict[c] \in Child
  BY DEF AInv, Small
<1> QED BY <1>1, HostType, LeaseType, CalmParts DEF Loosed

LEMMA ReleaseOwnerMade ==
  ASSUME AInv, NEW c \in Child, ReleaseOwner(c)
  PROVE  /\ conflict[c] \in Child /\ Loosed(c) \in HostState /\ Calm(host, Loosed(c))
         /\ \E v \in HostState : MoveCases(Loosed(c), c, "release", v) /\ Write(v) /\ Calm(host, v)
<1>1. conflict[c] # NoRun /\ "release" \in Choice
  BY DEF ReleaseOwner, Undecided, Choice
<1>2. conflict[c] \in Child /\ Loosed(c) \in HostState /\ Calm(host, Loosed(c))
  BY <1>1, LoosedFacts
<1> DEFINE w == Loosed(c)
<1>3. \/ Write(w) /\ MoveCases(w, c, "release", w)
      \/ /\ Write(Decide(QueueBlocked(w, c), c, "release"))
         /\ MoveCases(w, c, "release", Decide(QueueBlocked(w, c), c, "release"))
      \/ Write(Relet(w, c)) /\ MoveCases(w, c, "release", Relet(w, c))
  BY DEF ReleaseOwner, QueueResolved, MoveCases, Relet, Loosed
<1> HIDE DEF w
<1> QED BY <1>1, <1>2, <1>3, MoveFacts, CalmFacts DEF w

LEMMA ReleaseOwnerType ==
  ASSUME AInv, NEW c \in Child, ReleaseOwner(c) PROVE AInv'
<1>1. PICK v \in HostState : MoveCases(Loosed(c), c, "release", v) /\ Write(v) /\ Calm(host, v)
  BY ReleaseOwnerMade
<1>2. Call /\ waived' = waived \cup {conflict[c]} /\ UNCHANGED <<sessions, agents, given>>
  BY DEF ReleaseOwner, Undecided
<1>3. Small' /\ turn' = turn
  BY <1>2, ReleaseOwnerMade, CallSmall DEF AInv, Small
<1>4. Snapshot
  <2>1. QueueOK(v.queue) /\ QueueOK(queue)
    BY HostFacts DEF AInv
  <2> QED BY <1>1, <1>2, <2>1 DEF Snapshot, MoveCases
<1> QED BY <1>1, <1>3, <1>4, GrowsFacts, HandlerType

-----------------------------------------------------------------------------
(* Claims, turns and settlements *)

ClaimDone(r) ==
  /\ \/ /\ record' = Recorded(host, AgentOf(r), r, "running").record
        /\ Known(AgentOf(r)) /\ Legal(record[AgentOf(r)], r, "running")
        /\ Replace(Mark(queue, r, "running"), Mark(queue, r, "running"))
        /\ phase' = [phase EXCEPT ![r] = "claimed"]
     \/ queue' = Mark(queue, r, "running") /\ UNCHANGED <<record, held, phase>>
  /\ QueuedRun(r) /\ turn[AgentOf(r)] = NoRun
  /\ UNCHANGED <<sessions, entries, turn, conflict, apart, closed, given, waived, calls>>

LEMMA MarkRunning ==
  ASSUME AInv, NEW r, QueuedRun(r) PROVE QueueOK(Mark(queue, r, "running"))
<1>1. PICK i \in ItemOf(queue, r) : queue[i].status = "queued"
  BY DEF QueuedRun
<1>2. ItemOf(queue, r) = {i}
  BY <1>1 DEF ItemOf, AInv, QueueOK
<1> QED BY <1>1, <1>2, MarkType DEF AInv, LiveItem

LEMMA MarkRuns ==
  ASSUME NEW q, NEW r, NEW st
  PROVE  DOMAIN Mark(q, r, st) = DOMAIN q
         /\ (QueueOK(q) => /\ Runs(Mark(q, r, st)) = Runs(q)
                           /\ \A i \in DOMAIN q :
                                /\ Mark(q, r, st)[i].run = q[i].run /\ Mark(q, r, st)[i].agent = q[i].agent
                                /\ Mark(q, r, st)[i].status = IF q[i].run = r THEN st ELSE q[i].status)
<1> DEFINE p == Mark(q, r, st)
<1>1. DOMAIN p = DOMAIN q /\ \A i \in DOMAIN q : p[i] = IF q[i].run = r THEN [q[i] EXCEPT !.status = st] ELSE q[i]
  BY DEF Mark
<1> HIDE DEF p
<1>2. QueueOK(q) => \A i \in DOMAIN q : /\ p[i].run = q[i].run /\ p[i].agent = q[i].agent
                                        /\ p[i].status = IF q[i].run = r THEN st ELSE q[i].status
  BY <1>1, QueueFacts DEF Item
<1>3. QueueOK(q) => Runs(p) = Runs(q)
  BY <1>1, <1>2 DEF Runs
<1> QED BY <1>1, <1>2, <1>3 DEF p

LEMMA ClaimMade ==
  ASSUME AInv, NEW r \in Run, Claim(r)
  PROVE  ClaimDone(r) /\ AgentOf(r) \in Child /\ Recorded(host, AgentOf(r), r, "running").entries = entries
<1>1. AgentOf(r) \in Child /\ AgentOf(r) \in Agent /\ "running" \in LifeState \ {"none"} /\ host \in HostState
  BY AgentFacts, HostType DEF LifeState
<1>2. RecordedDone(host, Recorded(host, AgentOf(r), r, "running"), AgentOf(r), r, "running")
  BY <1>1, RecordedFacts
<1>3. Recorded(host, AgentOf(r), r, "running").entries = entries
  BY <1>2, HostType DEF RecordedDone
<1> DEFINE a == AgentOf(r)
<1>4. Recorded(host, a, r, "running").record = [record EXCEPT ![a] = Apply(record[a], Life(r, "running"))]
  <2>1. host = [record |-> record, entries |-> entries, queue |-> queue]
    BY DEF host
  <2> HIDE DEF a
  <2> QED BY <2>1 DEF Recorded
<1>5. ClaimDone(r)
  BY <1>4 DEF Claim, ClaimDone
<1> QED BY <1>1, <1>3, <1>5

LEMMA ClaimType ==
  ASSUME AInv, NEW r \in Run, Claim(r) PROVE AInv'
<1> DEFINE v == Recorded(host, AgentOf(r), r, "running")
           q == Mark(queue, r, "running")
<1>1. /\ ClaimDone(r) /\ AgentOf(r) \in Child /\ AgentOf(r) \in Agent /\ v.entries = entries
      /\ "running" \in LifeState \ {"none"} /\ host \in HostState
  BY ClaimMade, AgentFacts, HostType DEF LifeState
<1>2. v \in HostState /\ Grows(host, v)
  BY <1>1, RecordedFacts, SilentFacts
<1>3. UNCHANGED <<sessions, entries, turn, conflict, apart, closed, given, waived, calls>>
  BY <1>1 DEF ClaimDone
<1>4. QueueOK(q)
  BY <1>1, MarkRunning DEF ClaimDone
<1>5. phase' \in [Run -> {"none", "claimed", "turn", "over", "again", "done"}]
  BY <1>1 DEF ClaimDone, AInv, Small
<1>6. Small'
  BY <1>3, <1>5 DEF AInv, Small
<1> HIDE DEF v, q
<1>7. CASE record' = v.record /\ Replace(q, q)
  <2>1. Write(v) /\ Snapshot
    BY <1>1, <1>3, <1>4, <1>7 DEF Write, Snapshot
  <2> QED BY <1>2, <1>3, <1>6, <2>1, HandlerType
<1>8. CASE queue' = q /\ UNCHANGED <<record, held, phase>>
  <2>1. Filed' /\ Listed'
    BY <1>3, <1>8 DEF AInv, Filed, Listed
  <2>2. QueueOK(queue') /\ HeldOK'
    BY <1>3, <1>4, <1>8 DEF AInv, HeldOK, Waiting
  <2> QED BY <1>6, <2>1, <2>2 DEF AInv
<1> QED BY <1>1, <1>7, <1>8 DEF ClaimDone, v, q

LEMMA BeginTurnType ==
  ASSUME AInv, NEW r \in Run, BeginTurn(r) PROVE AInv'
<1> DEFINE a == AgentOf(r)
<1>1. /\ phase' = [phase EXCEPT ![r] = "turn"] /\ turn' = [turn EXCEPT ![a] = r]
      /\ given' = [m \in FollowUp |-> IF m = r THEN given[m] \cup {"run"} ELSE given[m]]
      /\ UNCHANGED <<sessions, queue, record, entries, conflict, apart, closed, held, waived, calls>>
  BY DEF BeginTurn
<1>2. a \in Child /\ a # Root /\ a \in Agent /\ r # NoRun
  BY AgentFacts, CollaborationAssumption
<1>3. given' \in [FollowUp -> SUBSET {"steered", "run"}]
  BY <1>1 DEF AInv, Small
<1>4. phase' \in [Run -> {"none", "claimed", "turn", "over", "again", "done"}]
  BY <1>1 DEF AInv, Small
<1>5. \A b \in Agent : turn'[b] = IF b = a THEN r ELSE turn[b]
  BY <1>1 DEF AInv, Small
<1>6. /\ turn' \in [Agent -> Run \cup {Root, NoRun}] /\ turn'[Root] \in {Root, NoRun}
      /\ \A c \in Child : turn'[c] # NoRun => turn'[c] \in Run /\ AgentOf(turn'[c]) = c
  BY <1>1, <1>2, <1>5, AgentFacts DEF AInv, Small
<1>7. Small'
  BY <1>1, <1>3, <1>4, <1>6 DEF AInv, Small
<1>8. Filed'
  BY <1>1, <1>2, <1>5 DEF AInv, Filed
<1>9. Listed' /\ QueueOK(queue') /\ HeldOK'
  BY <1>1 DEF AInv, Listed, HeldOK, Waiting
<1> QED BY <1>7, <1>8, <1>9 DEF AInv

LEMMA NoTurnType ==
  ASSUME AInv, NEW r \in Run, NoTurn(r) PROVE AInv'
<1>1. /\ phase' = [phase EXCEPT ![r] = "over"]
      /\ UNCHANGED <<sessions, queue, record, entries, turn, conflict, apart, closed, held, given, waived, calls>>
  BY DEF NoTurn
<1>2. Small'
  BY <1>1 DEF AInv, Small
<1>3. Write(host) /\ Grows(host, host) /\ host \in HostState
  BY <1>1, HostType, GrowsFacts DEF Write
<1> QED BY <1>1, <1>2, <1>3, HandlerType DEF Snapshot

(* What the record of an agent is when a turn ends.                        *)
Ended(a, r, st) == IF Legal(Seen(host, a), r, st) THEN Put(host, a, Life(r, st)) ELSE host

LEMMA EndedFacts ==
  ASSUME AInv, NEW a \in Agent, NEW w \in HostState, Grows(host, w)
  PROVE  /\ Seen(w, a) \in Record /\ MoreMail(record[a], Seen(w, a)) /\ MoreMail(Seen(host, a), Seen(w, a))
<1>1. Seen(w, a) \in Record /\ w.record[a] \in Record /\ w.entries[a] \in Seq(Event)
  BY HostFacts
<1>2. MoreMail(record[a], w.record[a]) /\ MoreMail(Seen(host, a), Seen(w, a))
  BY HostType DEF Grows
<1>3. MoreMail(w.record[a], Seen(w, a))
  BY <1>1, FlushedGrows DEF Seen
<1> QED BY <1>1, <1>2, <1>3 DEF MoreMail

LEMMA EndedType ==
  ASSUME AInv, NEW a \in Agent, NEW r \in Run, NEW st \in Terminal
  PROVE  /\ Ended(a, r, st) \in HostState /\ Grows(host, Ended(a, r, st))
         /\ Legal(Seen(host, a), r, st) => PutDone(host, Ended(a, r, st), a, Life(r, st))
         /\ ~Legal(Seen(host, a), r, st) => Ended(a, r, st) = host
<1>1. Life(r, st) \in Event
  BY EventType DEF Terminal, LifeState
<1> QED BY <1>1, HostType, PutFacts, NoteGrows, GrowsFacts DEF Ended

(* The flush of the recorder of agent a.                                   *)
Flush(a, R) ==
  /\ record' \in {record, [record EXCEPT ![a] = R]} /\ entries' = [entries EXCEPT ![a] = <<>>]
  /\ turn' = [turn EXCEPT ![a] = NoRun]

LEMMA FlushType ==
  ASSUME AInv, NEW a \in Agent, NEW R \in Record, MoreMail(record[a], R), Flush(a, R),
         phase' \in [Run -> {"none", "claimed", "turn", "over", "again", "done"}],
         UNCHANGED <<sessions, queue, conflict, apart, closed, held, given, waived, calls>>
  PROVE  AInv'
<1>1. record' \in [Agent -> Record] /\ entries' \in [Agent -> Seq(Event)]
  <2>1. record' \in [Agent -> Record]
    BY DEF AInv, Filed, Flush
  <2>2. <<>> \in Seq(Event)
    OBVIOUS
  <2>3. entries' \in [Agent -> Seq(Event)]
    BY <2>2 DEF AInv, Filed, Flush
  <2> QED BY <2>1, <2>3
<1>2. /\ \A b \in Agent : turn'[b] = IF b = a THEN NoRun ELSE turn[b]
      /\ \A b \in Agent : entries'[b] = IF b = a THEN <<>> ELSE entries[b]
      /\ \A b \in Agent : record'[b] = record[b] \/ (b = a /\ record'[b] = R)
  BY DEF AInv, Filed, Small, Flush
<1>3. Filed'
  BY <1>1, <1>2 DEF AInv, Filed
<1>4. Listed'
  <2>1. \A c \in ToSet(sessions) : c \in Agent /\ record[c].last.state # "none"
    BY AgentFacts DEF AInv, Listed, ToSet
  <2>2. \A c \in ToSet(sessions) : record'[c].last.state # "none"
    BY <1>2, <2>1 DEF MoreMail
  <2> QED BY <2>2 DEF AInv, Listed
<1>5. Small'
  <2>1. turn' \in [Agent -> Run \cup {Root, NoRun}]
    BY DEF AInv, Small, Flush
  <2>2. /\ turn'[Root] \in {Root, NoRun}
        /\ \A c \in Child : turn'[c] # NoRun => turn'[c] \in Run /\ AgentOf(turn'[c]) = c
    BY <1>2, AgentFacts DEF AInv, Small
  <2> QED BY <2>1, <2>2 DEF AInv, Small
<1>6. QueueOK(queue') /\ HeldOK'
  BY DEF AInv, HeldOK, Waiting
<1> QED BY <1>3, <1>4, <1>5, <1>6 DEF AInv

LEMMA EndTurnType ==
  ASSUME AInv, NEW r \in Run, NEW st \in Outcome, EndTurn(r, st) PROVE AInv'
<1> DEFINE a == AgentOf(r)
           R == Seen(Ended(a, r, st), a)
<1>1. a \in Agent /\ st \in Terminal
  BY AgentFacts, CollaborationAssumption DEF Terminal
<1>2. R \in Record /\ MoreMail(record[a], R)
  BY <1>1, EndedType, EndedFacts
<1>3. /\ Flush(a, R) /\ phase' = [phase EXCEPT ![r] = "over"]
      /\ UNCHANGED <<sessions, queue, conflict, apart, closed, held, given, waived, calls>>
  BY DEF EndTurn, Ended, Flush
<1>4. phase' \in [Run -> {"none", "claimed", "turn", "over", "again", "done"}]
  BY <1>3 DEF AInv, Small
<1> HIDE DEF R, a
<1> QED BY <1>1, <1>2, <1>3, <1>4, FlushType

LEMMA RootTurnType ==
  ASSUME AInv, BeginRootTurn \/ EndRootTurn PROVE AInv'
<1>0. Root \in Agent
  BY AgentFacts
<1>1. CASE BeginRootTurn
  <2>1. /\ Call /\ turn' = [turn EXCEPT ![Root] = Root]
        /\ UNCHANGED <<sessions, queue, record, entries, phase, conflict, apart, closed, held, given, waived>>
    BY <1>1 DEF BeginRootTurn
  <2>2. calls' \in 0..MaxCalls
    BY <2>1, CollaborationAssumption DEF AInv, Small, Call
  <2>3. \A b \in Agent : turn'[b] = IF b = Root THEN Root ELSE turn[b]
    BY <2>1 DEF AInv, Small
  <2>4. turn' \in [Agent -> Run \cup {Root, NoRun}]
    BY <2>1 DEF AInv, Small
  <2>5. Root \notin Child /\ Root # NoRun
    BY CollaborationAssumption
  <2>6. \A c \in Child : turn'[c] = turn[c]
    BY <2>3, <2>5, AgentFacts
  <2>7. Small'
    BY <1>0, <2>1, <2>2, <2>3, <2>4, <2>6 DEF AInv, Small
  <2>8. Filed'
    BY <2>1, <2>3, <2>5 DEF AInv, Filed
  <2>9. Listed' /\ QueueOK(queue') /\ HeldOK'
    BY <2>1 DEF AInv, Listed, HeldOK, Waiting
  <2> QED BY <2>7, <2>8, <2>9 DEF AInv
<1>2. CASE EndRootTurn
  <2> DEFINE R == Seen(host, Root)
  <2>1. R \in Record /\ MoreMail(record[Root], R)
    BY <1>0, HostType, GrowsFacts, EndedFacts
  <2>2. /\ Flush(Root, R)
        /\ UNCHANGED <<sessions, queue, phase, conflict, apart, closed, held, given, waived, calls>>
    BY <1>2 DEF EndRootTurn, Flush
  <2>3. phase' \in [Run -> {"none", "claimed", "turn", "over", "again", "done"}]
    BY <2>2 DEF AInv, Small
  <2> HIDE DEF R
  <2> QED BY <1>0, <2>1, <2>2, <2>3, FlushType
<1> QED BY <1>1, <1>2

(* A settlement changes the queue and the record, then reports, then looks *)
(* for a follow-up; or it is refused, once or twice.                       *)
Marked(r, st) == LET a == AgentOf(r)
                 IN [host EXCEPT !.queue = Mark(queue, r, "settled"),
                                 !.record[a] = IF @.life[r] = st THEN @ ELSE Apply(@, Life(r, st))]
SettledDone(w, r, st, q, v) ==
  \/ \E m \in Drainable(Complete(w, r, st), AgentOf(r)) :
       /\ v = Started(Enqueue(Complete(w, r, st), m), m)
       /\ Replace(q, v.queue) /\ UNCHANGED sessions
  \/ /\ v = Complete(w, r, st)
     /\ (Waiting /\ Wake(q)) \/ (\E p \in {q, v.queue} : Replace(q, p) /\ UNCHANGED sessions)

LEMMA SettledMade ==
  ASSUME NEW w \in HostState, NEW r \in Run, NEW st \in Terminal, NEW q, sessions \in Seq(Child),
         Settled(w, r, st, q)
  PROVE  \E v \in HostState : SettledDone(w, r, st, q, v) /\ Write(v) /\ Grows(w, v)
<1> DEFINE u == Complete(w, r, st)
           a == AgentOf(r)
<1>1. u \in HostState /\ Calm(w, u)
  BY CompleteType, CompleteCalm
<1>2. CASE \E m \in Drainable(u, a) :
             /\ Write(Started(Enqueue(u, m), m)) /\ Replace(q, Enqueue(u, m).queue) /\ UNCHANGED sessions
  <2>1. PICK m \in Drainable(u, a) :
          /\ Write(Started(Enqueue(u, m), m)) /\ Replace(q, Enqueue(u, m).queue) /\ UNCHANGED sessions
    BY <1>2
  <2>2. m \in FollowUp /\ CanEnqueue(u, m) /\ m \in Run
    BY <2>1, AgentFacts DEF Drainable
  <2> DEFINE x == Enqueue(u, m)
             v == Started(x, m)
  <2> HIDE DEF u
  <2>3. x \in HostState /\ Grows(u, x)
    BY <1>1, <2>2, EnqueueSilent, SilentFacts
  <2> HIDE DEF x
  <2>4. v \in HostState /\ v.queue = x.queue /\ Grows(x, v)
    BY <2>2, <2>3, StartedGrows
  <2>5. Grows(w, v)
    BY <1>1, <2>3, <2>4, GrowsFacts
  <2>6. SettledDone(w, r, st, q, v)
    BY <2>1, <2>4 DEF SettledDone, u, x
  <2> QED BY <2>1, <2>4, <2>5, <2>6 DEF x
<1>3. CASE /\ Write(u)
           /\ IF Reports(w, r) /\ Known(a)
              THEN IF Wakes(ParentOf[a]) THEN Wake(q) ELSE Replace(q, u.queue) /\ UNCHANGED sessions
              ELSE Replace(q, q) /\ UNCHANGED sessions
  <2>1. (Waiting /\ Wake(q)) \/ (\E p \in {q, u.queue} : Replace(q, p) /\ UNCHANGED sessions)
    BY <1>3 DEF Wakes
  <2>2. SettledDone(w, r, st, q, u)
    BY <2>1 DEF SettledDone
  <2> QED BY <1>1, <1>3, <2>2, GrowsFacts
<1> QED BY <1>2, <1>3 DEF Settled

Closing(r, st) == IF record[AgentOf(r)].life[r] = st THEN host ELSE Recorded(host, AgentOf(r), r, st)

LEMMA MarkedFacts ==
  ASSUME AInv, NEW r \in Run, NEW st \in Terminal
  PROVE  /\ Closing(r, st) \in HostState /\ QueueOK(Mark(queue, r, "settled"))
         /\ Marked(r, st) = [Closing(r, st) EXCEPT !.queue = Mark(queue, r, "settled")]
         /\ Marked(r, st) \in HostState /\ Calm(host, Marked(r, st))
         /\ Marked(r, st).queue = Mark(queue, r, "settled") /\ Marked(r, st).entries = entries
         /\ Marked(r, st).record = Closing(r, st).record
         /\ \A b \in Agent : Seen(Marked(r, st), b) = Seen(Closing(r, st), b)
<1> DEFINE a == AgentOf(r)
           q == Mark(queue, r, "settled")
           x == Recorded(host, a, r, st)
           w == Closing(r, st)
           v == Marked(r, st)
<1>0. /\ a \in Agent /\ st \in LifeState \ {"none"} /\ host \in HostState /\ QueueOK(queue)
      /\ host.record = record /\ host.entries = entries /\ host.queue = queue
  BY AgentFacts, HostType DEF LifeState, Terminal, AInv
<1>1. QueueOK(q) /\ Runs(q) = Runs(queue)
  BY <1>0, MarkType, MarkRuns
<1>2. x \in HostState /\ Silent(host, x) /\ RecordedDone(host, x, a, r, st)
  BY <1>0, RecordedFacts
<1>3. w \in HostState /\ Silent(host, w) /\ w.entries = entries
  BY <1>0, <1>2, SilentFacts DEF Closing, RecordedDone
<1>4. v = [w EXCEPT !.queue = q]
  <2> DEFINE R == record[a]
             N == IF R.life[r] = st THEN R ELSE Apply(R, Life(r, st))
             F == [record EXCEPT ![a] = N]
  <2>1. host = [record |-> record, entries |-> entries, queue |-> queue]
    BY DEF host
  <2>2. v = [host EXCEPT !.queue = q, !.record = F]
    BY <2>1 DEF Marked
  <2>3. v = [record |-> F, entries |-> entries, queue |-> q]
    <3> HIDE DEF v, F, q
    <3> QED BY <2>1, <2>2
  <2>4. w.record = F
    <3>1. CASE R.life[r] = st
      <4>1. [record EXCEPT ![a] = record[a]] = record
        BY <1>0 DEF AInv, Filed
      <4> QED BY <1>0, <3>1, <4>1 DEF Closing
    <3>2. CASE R.life[r] # st
      <4>1. w = [host EXCEPT !.record = F]
        BY <1>0, <3>2 DEF Closing, Recorded
      <4> HIDE DEF w, F
      <4> QED BY <2>1, <4>1
    <3> QED BY <3>1, <3>2
  <2> HIDE DEF v, F, q, w
  <2>5. w = [record |-> F, entries |-> entries, queue |-> w.queue]
    BY <1>3, <2>4, HostFacts
  <2> QED BY <2>3, <2>5
<1> HIDE DEF w, q
<1>5. v \in HostState /\ v.queue = q /\ v.record = w.record /\ v.entries = w.entries
  BY <1>1, <1>3, <1>4, RequeueType
<1>6. \A b \in Agent : Seen(v, b) = Seen(w, b)
  BY <1>5 DEF Seen
<1>7. Calm(host, v)
  BY <1>0, <1>1, <1>3, <1>5, <1>6 DEF Calm, Silent
<1> QED BY <1>1, <1>3, <1>4, <1>5, <1>6, <1>7 DEF w, q

SettleCases(r, st) ==
  LET a == AgentOf(r)
      live == Status(r) \cap {"queued", "running"} # {}
  IN \/ /\ live /\ CanSettle(r, st) /\ phase' = [phase EXCEPT ![r] = "done"]
        /\ Settled(Marked(r, st), r, st, Mark(queue, r, "settled"))
     \/ /\ "settled" \in Status(r) /\ record[a].life[r] = st /\ phase' = [phase EXCEPT ![r] = "done"]
        /\ Settled(host, r, st, queue)
     \/ /\ queue' \in {queue, Mark(queue, r, "settled")}
        /\ phase' = [phase EXCEPT ![r] = IF @ = "over" THEN "again" ELSE "done"]
        /\ UNCHANGED <<record, entries, sessions, held>>

LEMMA SettleMade ==
  ASSUME NEW r, NEW st, Settle(r, st)
  PROVE  /\ SettleCases(r, st) /\ phase[r] \in {"over", "again"}
         /\ UNCHANGED <<turn, conflict, apart, closed, given, waived, calls>>
BY DEF Settle, SettleCases, Marked

LEMMA SettleType ==
  ASSUME AInv, NEW r \in Run, NEW st \in Outcome \cup {"failed"}, Settle(r, st) PROVE AInv'
<1> DEFINE q == Mark(queue, r, "settled")
<1>1. st \in Terminal /\ sessions \in Seq(Child) /\ host \in HostState /\ QueueOK(queue)
  BY HostType, CollaborationAssumption DEF Terminal, AInv
<1>2. SettleCases(r, st) /\ UNCHANGED <<turn, conflict, apart, closed, given, waived, calls>>
  BY SettleMade
<1>3. QueueOK(q) /\ Marked(r, st) \in HostState /\ Grows(host, Marked(r, st)) /\ Grows(host, host)
  BY <1>1, MarkedFacts, GrowsFacts
<1>4. phase' \in [Run -> {"none", "claimed", "turn", "over", "again", "done"}]
  BY <1>2 DEF SettleCases, AInv, Small
<1>5. Small'
  BY <1>2, <1>4 DEF AInv, Small
<1> HIDE DEF q
<1>6. ASSUME NEW w \in HostState, Grows(host, w), NEW p, QueueOK(p), Settled(w, r, st, p)
      PROVE  AInv'
  <2>1. PICK v \in HostState : SettledDone(w, r, st, p, v) /\ Write(v) /\ Grows(w, v)
    BY <1>1, <1>6, SettledMade
  <2>2. QueueOK(v.queue)
    BY HostFacts
  <2>3. Snapshot
    BY <1>6, <2>1, <2>2 DEF SettledDone, Snapshot
  <2> QED BY <1>2, <1>5, <1>6, <2>1, <2>3, GrowsFacts, HandlerType
<1>7. CASE queue' \in {queue, q} /\ UNCHANGED <<record, entries, sessions, held>>
  <2>1. Filed' /\ Listed'
    BY <1>2, <1>7 DEF AInv, Filed, Listed
  <2>2. QueueOK(queue') /\ HeldOK'
    BY <1>1, <1>3, <1>7 DEF AInv, HeldOK, Waiting
  <2> QED BY <1>5, <2>1, <2>2 DEF AInv
<1>8. \/ Settled(Marked(r, st), r, st, q)
      \/ Settled(host, r, st, queue)
      \/ queue' \in {queue, q} /\ UNCHANGED <<record, entries, sessions, held>>
  BY <1>2 DEF SettleCases, q
<1> QED BY <1>1, <1>3, <1>6, <1>7, <1>8

LEMMA AInvInit ==
  ASSUME Init PROVE AInv
<1> DEFINE R0 == [life |-> [r \in Run |-> "none"], last |-> [run |-> NoRun, state |-> "none"],
                  mail |-> [m \in Mail |-> "none"], started |-> {},
                  done |-> [r \in Run |-> {}], unread |-> {}, leased |-> FALSE, resolved |-> {}]
<1>1. R0 \in Record
  BY DEF Record, LifeState, MailState
<1>2. /\ record = [a \in Agent |-> R0] /\ entries = [a \in Agent |-> <<>>] /\ turn = [a \in Agent |-> NoRun]
      /\ sessions = <<>> /\ held = NoWait /\ given = [m \in FollowUp |-> {}] /\ calls = 0
      /\ phase = [r \in Run |-> "none"] /\ conflict = [c \in Child |-> NoRun]
      /\ apart = {} /\ closed = {} /\ waived = {}
      /\ queue \in {<<>>, <<[run |-> Other, agent |-> Other, status |-> "running"]>>}
  BY DEF Init
<1> HIDE DEF R0
<1>3. Filed
  <2>1. <<>> \in Seq(Event)
    OBVIOUS
  <2> QED BY <1>1, <1>2, <2>1 DEF Filed
<1>4. Listed
  BY <1>2 DEF Listed, IsInjective, ToSet
<1>5. HeldOK
  BY <1>2 DEF HeldOK, Waiting
<1>6. Small
  BY <1>2, AgentFacts, CollaborationAssumption DEF Small
<1>7. QueueOK(queue)
  <2> DEFINE e == [run |-> Other, agent |-> Other, status |-> "running"]
  <2>1. e \in Item /\ e.run = Other /\ e.agent = Other /\ Capacity \in Nat /\ Capacity >= 1
    BY CollaborationAssumption DEF Item
  <2>2. QueueOK(<<>>)
    <3>1. LiveItems(<<>>) = {}
      BY DEF LiveItems
    <3> QED BY <2>1, <3>1, FS_EmptySet DEF QueueOK
  <2>3. QueueOK(<<e>>)
    <3> DEFINE p == <<e>>
    <3>1. p \in Seq(Item) /\ DOMAIN p = {1} /\ p[1] = e
      BY <2>1
    <3> HIDE DEF p, e
    <3>2. LiveItems(p) \subseteq {1}
      BY <3>1 DEF LiveItems
    <3>3. IsFiniteSet({1}) /\ Cardinality({1}) = 1
      BY FS_Singleton
    <3>4. Cardinality(LiveItems(p)) <= 1 /\ Cardinality(LiveItems(p)) \in Nat
      BY <3>2, <3>3, FS_Subset, FS_CardinalityType
    <3>5. QueueOK(p)
      BY <2>1, <3>1, <3>4 DEF QueueOK
    <3> QED BY <3>5 DEF p
  <2> QED BY <1>2, <2>2, <2>3
<1> QED BY <1>3, <1>4, <1>5, <1>6, <1>7 DEF AInv

LEMMA AInvStep ==
  ASSUME AInv, [Next]_vars PROVE AInv'
<1>1. ASSUME NEW r \in Run PROVE Claim(r) \/ BeginTurn(r) \/ NoTurn(r) => AInv'
  BY ClaimType, BeginTurnType, NoTurnType
<1>2. ASSUME NEW c \in Child
      PROVE  /\ Spawn(c) \/ Interrupt(c) \/ Close(c) \/ Serialize(c) => AInv'
             /\ CancelBlocked(c) \/ MoveApart(c) \/ Narrow(c) \/ ReleaseOwner(c) => AInv'
  BY SpawnType, InterruptType, CloseType, SerializeType, CancelType, MoveApartType, NarrowType,
     ReleaseOwnerType
<1>3. ASSUME NEW m \in Mail PROVE Send(m) \/ SendFollowUp(m) \/ Ack(m) => AInv'
  BY SendType, SendFollowUpType, AckType
<1>4. ASSUME NEW a \in Agent PROVE Consume(a) \/ Wait(a) => AInv'
  BY ConsumeType, WaitType
<1>5. CASE UNCHANGED vars
  BY <1>5 DEF vars, agents, AInv, Filed, Listed, HeldOK, Waiting, Small
<1> QED
  BY <1>1, <1>2, <1>3, <1>4, <1>5, WaitTimesOutType, RootTurnType, EndTurnType, SettleType DEF Next

(* The snapshot and the records keep their types, an agent is in a turn of *)
(* its own run, a child is in the snapshot once, a run once in the queue,  *)
(* and its live runs fit into it.                                          *)
THEOREM ATypeCorrect == Spec => []ATypeOK
<1>1. AInv => ATypeOK
  BY DEF AInv, Filed, Listed, HeldOK, Small, ATypeOK
<1> QED BY <1>1, AInvInit, AInvStep, PTL DEF Spec

-----------------------------------------------------------------------------
(* Follow-ups.  One that was steered into a turn is sealed: its record, or *)
(* the recorder of the turn, says that it was started, or it was lost with *)
(* its session.  One that has begun as a run of its own is mail already.   *)

InQueue(m) == m \in Runs(queue) \/ (Waiting /\ held.queue # Live /\ m \in Runs(held.queue))
Begun(m) == InQueue(m) \/ phase[m] # "none" \/ "run" \in given[m] \/ turn[Receiver[m]] = m
Sealed(m) ==
  LET c == Receiver[m]
      S == Seen(host, c)
  IN \/ m \in record[c].started /\ record[c].mail[m] # "none"
     \/ /\ record[c].mail[m] = "none"
        /\ (turn[c] # NoRun /\ m \in S.started /\ S.mail[m] # "none") \/ ~Known(c)
GivenOnce(m) ==
  /\ "steered" \in given[m] => ~Begun(m) /\ record[Receiver[m]].last.state # "none" /\ Sealed(m)
  /\ Begun(m) => record[Receiver[m]].mail[m] # "none"

(* Mail that the record does not have does not enter it.                   *)
Mute(w, v, m) == w.record[Receiver[m]].mail[m] = "none" => v.record[Receiver[m]].mail[m] = "none"

LEMMA MuteFacts ==
  ASSUME NEW m \in FollowUp
  PROVE  /\ \A w, v : Silent(w, v) \/ Calm(w, v) => Mute(w, v, m)
         /\ \A w, v, u : Mute(w, v, m) /\ Mute(v, u, m) => Mute(w, u, m)
         /\ \A w \in HostState, a \in Agent, e \in Event :
              ~(e.type = "mail" /\ e.of = m) => Mute(w, Put(w, a, e), m)
<1>0. Receiver[m] \in Agent /\ m \in Mail
  BY AgentFacts
<1>1. \A w, v : Silent(w, v) \/ Calm(w, v) => Mute(w, v, m)
  BY <1>0 DEF Silent, Calm, SameMail, Mute
<1>2. \A w, v, u : Mute(w, v, m) /\ Mute(v, u, m) => Mute(w, u, m)
  BY DEF Mute
<1>3. ASSUME NEW w \in HostState, NEW a \in Agent, NEW e \in Event, ~(e.type = "mail" /\ e.of = m)
      PROVE  Mute(w, Put(w, a, e), m)
  <2> DEFINE v == Put(w, a, e)
             R == w.record[a]
  <2>1. PutDone(w, v, a, e) /\ R \in Record
    BY PutFacts, HostFacts
  <2> HIDE DEF v
  <2>2. Apply(R, e).mail = MailAfter(R, e)
    BY <2>1, ApplyFields
  <2>3. R.mail[m] = "none" => MailAfter(R, e)[m] = "none"
    <3>1. R.mail \in [Mail -> MailState]
      BY <2>1 DEF Record
    <3> QED BY <1>0, <1>3, <3>1 DEF MailAfter
  <2>4. v.record[a] = R \/ v.record[a] = Apply(R, e)
    BY <2>1 DEF PutDone
  <2>5. \A b \in Agent \ {a} : v.record[b] = w.record[b]
    BY <2>1 DEF PutDone, Elsewhere
  <2>6. Mute(w, v, m)
    BY <1>0, <2>2, <2>3, <2>4, <2>5 DEF Mute
  <2> QED BY <2>6 DEF v
<1> QED BY <1>1, <1>2, <1>3

(* What is in the queue after a step was there, or is one of the runs Q.   *)
Arrays(Q) ==
  \/ queue' = queue /\ held' = held
  \/ \E old, q : Runs(old) \subseteq Q /\ Runs(q) \subseteq Q /\ (Replace(old, q) \/ Commit(old, q))
  \/ \E old : Runs(old) \subseteq Q /\ Waiting /\ Wake(old)
  \/ Runs(queue') \subseteq Q /\ held' = NoWait

LEMMA ArraysFacts ==
  ASSUME AInv, NEW m, NEW Q, Arrays(Q), InQueue(m)'
  PROVE  InQueue(m) \/ m \in Q
<1>1. CASE queue' = queue /\ held' = held
  BY <1>1 DEF InQueue, Waiting
<1>2. ASSUME NEW old, NEW q, Runs(old) \subseteq Q, Runs(q) \subseteq Q, Replace(old, q) \/ Commit(old, q)
      PROVE  InQueue(m) \/ m \in Q
  <2>1. queue' = q /\ held' \in {held, [held EXCEPT !.queue = old]} /\ (held' # held => Waiting)
    BY <1>2 DEF Replace, Commit
  <2>2. held' # held => held'.queue = old
    BY <2>1 DEF AInv, HeldOK
  <2> QED BY <1>2, <2>1, <2>2 DEF InQueue, Waiting
<1>3. ASSUME NEW old, Runs(old) \subseteq Q, Waiting, Wake(old)
      PROVE  InQueue(m) \/ m \in Q
  BY <1>3 DEF InQueue, Waiting, Wake
<1>4. CASE Runs(queue') \subseteq Q /\ held' = NoWait
  BY <1>4 DEF InQueue, Waiting
<1> QED BY <1>1, <1>2, <1>3, <1>4 DEF Arrays

(* A step that starts nothing of a follow-up keeps what is known of it.    *)
LEMMA GivenKept ==
  ASSUME AInv, NEW m \in FollowUp, GivenOnce(m), NEW v \in HostState, Grows(host, v), Write(v),
         Mute(host, v, m), turn' = turn, given'[m] = given[m], Begun(m)' => Begun(m),
         record[Receiver[m]].last.state # "none" /\ ~Known(Receiver[m]) => ~Known(Receiver[m])'
  PROVE  GivenOnce(m)'
<1> DEFINE c == Receiver[m]
<1>1. c \in Agent /\ m \in Mail /\ host.record = record
  BY AgentFacts, HostType
<1>2. record' = v.record /\ entries' = v.entries
  BY DEF Write
<1>3. /\ MoreMail(record[c], record'[c]) /\ MoreMail(Seen(host, c), Seen(v, c))
      /\ (record[c].mail[m] = "none" => record'[c].mail[m] = "none")
  BY <1>1, <1>2 DEF Grows, Mute
<1>4. Seen(host, c)' = Seen(v, c)
  BY <1>2 DEF Seen, host
<1>5. Begun(m)' => record'[c].mail[m] # "none"
  BY <1>1, <1>3 DEF GivenOnce, MoreMail
<1>6. ASSUME "steered" \in given[m]
      PROVE  ~Begun(m)' /\ record'[c].last.state # "none" /\ Sealed(m)'
  <2>1. ~Begun(m) /\ record[c].last.state # "none" /\ Sealed(m)
    BY <1>6 DEF GivenOnce
  <2>2. record'[c].last.state # "none"
    BY <1>3, <2>1 DEF MoreMail
  <2>3. CASE m \in record[c].started /\ record[c].mail[m] # "none"
    BY <1>1, <1>3, <2>1, <2>2, <2>3 DEF MoreMail, Sealed
  <2>4. CASE ~Known(c) /\ record[c].mail[m] = "none"
    BY <1>3, <2>1, <2>2, <2>4 DEF Sealed
  <2>5. CASE /\ record[c].mail[m] = "none" /\ turn[c] # NoRun /\ m \in Seen(host, c).started
             /\ Seen(host, c).mail[m] # "none"
    <3>1. m \in Seen(v, c).started /\ Seen(v, c).mail[m] # "none"
      BY <1>1, <1>3, <2>5 DEF MoreMail
    <3> HIDE DEF c
    <3>2. Sealed(m)'
      BY <1>3, <1>4, <2>5, <3>1 DEF Sealed, c
    <3> QED BY <2>1, <2>2, <3>2
  <2> QED BY <2>1, <2>3, <2>4, <2>5 DEF Sealed
<1> QED BY <1>5, <1>6 DEF GivenOnce

Base == Runs(queue) \cup Child
LEMMA GivenHandler ==
  ASSUME AInv, NEW m \in FollowUp, GivenOnce(m), NEW v \in HostState, Grows(host, v), Write(v),
         Mute(host, v, m), turn' = turn, given'[m] = given[m], phase'[m] = phase[m] \/ Begun(m),
         NEW Q, Arrays(Q), m \in Q => m \in Base \/ Begun(m), Narrowed
  PROVE  GivenOnce(m)'
<1>1. m \in Base => InQueue(m)
  BY AgentFacts DEF Base, InQueue
<1>2. InQueue(m)' => Begun(m)
  BY <1>1, ArraysFacts DEF Begun
<1>3. Begun(m)' => Begun(m)
  BY <1>2 DEF Begun
<1>4. ~Known(Receiver[m]) => ~Known(Receiver[m])'
  BY DEF Known, Narrowed
<1> QED BY <1>3, <1>4, GivenKept

LEMMA SpawnGiven ==
  ASSUME AInv, NEW c \in Child, Spawn(c), NEW m \in FollowUp, GivenOnce(m) PROVE GivenOnce(m)'
<1>1. PICK v \in HostState :
        /\ SpawnCases(c, v) /\ Write(v) /\ Calm(Admitted(c), v) /\ sessions' = Append(sessions, c)
        /\ record[c].last.state = "none"
        /\ UNCHANGED <<turn, phase, apart, closed, given, waived, calls>>
  BY SpawnMade
<1>2. Calm(host, v)
  BY <1>1, AdmittedFacts, CalmFacts
<1>3. Arrays(Base)
  <2>1. Runs(v.queue) \subseteq Base /\ Runs(queue) \subseteq Base
    BY <1>2, HostType DEF Calm, Base
  <2>2. (queue' = queue /\ held' = held) \/ Commit(queue, v.queue)
    BY <1>1 DEF SpawnCases
  <2> QED BY <2>1, <2>2 DEF Arrays
<1>4. Begun(m)' => Begun(m)
  <2>1. InQueue(m)' => InQueue(m)
    BY <1>3, ArraysFacts, AgentFacts DEF Base, InQueue
  <2> QED BY <1>1, <2>1 DEF Begun
<1>5. record[Receiver[m]].last.state # "none" /\ ~Known(Receiver[m]) => ~Known(Receiver[m])'
  <2>1. ToSet(sessions') = ToSet(sessions) \cup {c}
    <3> DEFINE n == Len(sessions)
    <3>1. sessions \in Seq(Child) /\ DOMAIN sessions = 1..n /\ n \in Nat
      BY HostType
    <3>2. /\ DOMAIN sessions' = 1..(n + 1) /\ sessions'[n + 1] = c
          /\ \A i \in 1..n : sessions'[i] = sessions[i]
      BY <1>1, <3>1, AppendFacts
    <3>3. (\A i \in 1..(n + 1) : i \in 1..n \/ i = n + 1) /\ (\A i \in 1..n : i \in 1..(n + 1)) /\ n + 1 \in 1..(n + 1)
      BY <3>1
    <3> HIDE DEF n
    <3> QED BY <3>1, <3>2, <3>3, Zenon DEF ToSet
  <2> QED BY <1>1, <2>1 DEF Known
<1> QED BY <1>1, <1>2, <1>4, <1>5, MuteFacts, GrowsFacts, GivenKept

LEMMA MessageGiven ==
  ASSUME AInv, NEW m \in FollowUp, GivenOnce(m)
  PROVE  /\ \A n \in Mail : Send(n) => GivenOnce(m)'
         /\ \A n \in Mail : Ack(n) => GivenOnce(m)'
         /\ \A a \in Agent : Consume(a) => GivenOnce(m)'
<1>0. host \in HostState /\ Runs(queue) \subseteq Base
  BY HostType DEF Base
<1>1. ASSUME NEW n \in Mail, Send(n) PROVE GivenOnce(m)'
  <2> DEFINE a == Receiver[n]
             e == Note("mail", n)
             v == Put(host, a, e)
  <2>1. a \in Agent /\ e \in Event /\ e.of # m
    BY <1>1, AgentFacts, EventType DEF Send, Note
  <2>2. v \in HostState /\ Grows(host, v) /\ Mute(host, v, m)
    BY <1>0, <2>1, NoteGrows, MuteFacts
  <2>3. Write(v) /\ turn' = turn /\ phase' = phase /\ given' = given
    BY <1>1 DEF Send, agents
  <2>4. (Waiting /\ Wake(queue)) \/ UNCHANGED <<queue, sessions, held>>
    BY <1>1 DEF Send, Wakes
  <2>5. Arrays(Base)
    BY <1>0, <2>4 DEF Arrays
  <2>6. Narrowed
    BY <2>4, StayedNarrow, HeldWake DEF AInv
  <2> HIDE DEF v
  <2> QED BY <2>2, <2>3, <2>5, <2>6, GivenHandler
<1>2. ASSUME NEW n \in Mail, Ack(n) PROVE GivenOnce(m)'
  <2> DEFINE a == Receiver[n]
             e == Note("acked", n)
             v == Put(host, a, e)
  <2>1. a \in Agent /\ e \in Event /\ e.type # "mail"
    BY AgentFacts, EventType DEF Note
  <2>2. v \in HostState /\ Grows(host, v) /\ Mute(host, v, m)
    BY <1>0, <2>1, NoteGrows, MuteFacts
  <2>3. Write(v) /\ turn' = turn /\ phase' = phase /\ given' = given /\ UNCHANGED <<queue, sessions, held>>
    BY <1>2 DEF Ack, agents
  <2>4. Arrays(Base) /\ Narrowed
    BY <2>3, StayedNarrow DEF Arrays
  <2> HIDE DEF v
  <2> QED BY <2>2, <2>3, <2>4, GivenHandler
<1>3. ASSUME NEW a \in Agent, Consume(a) PROVE GivenOnce(m)'
  <2> DEFINE d == Note("consumed", Unread(a))
             e == Note("read", record[a].unread)
             u == Put(host, a, d)
             v == Put(u, a, e)
  <2>1. d \in Event /\ e \in Event /\ d.type # "mail" /\ e.type # "mail"
    BY EventType DEF AInv, Filed, Unread, Record, Note
  <2> HIDE DEF d, e
  <2>2. u \in HostState /\ Grows(host, u) /\ Mute(host, u, m)
    BY <1>0, <2>1, NoteGrows, MuteFacts
  <2> HIDE DEF u
  <2>3. v \in HostState /\ Grows(u, v) /\ Mute(u, v, m)
    BY <2>1, <2>2, NoteGrows, MuteFacts
  <2>4. Grows(host, v) /\ Mute(host, v, m)
    BY <2>2, <2>3, GrowsFacts, MuteFacts
  <2>5. Write(v) /\ turn' = turn /\ phase' = phase /\ given' = given /\ UNCHANGED <<queue, sessions, held>>
    BY <1>3 DEF Consume, agents, u, d, e
  <2>6. Arrays(Base) /\ Narrowed
    BY <2>5, StayedNarrow DEF Arrays
  <2> HIDE DEF v
  <2> QED BY <2>3, <2>4, <2>5, <2>6, GivenHandler
<1> QED BY <1>1, <1>2, <1>3

LEMMA CommandGiven ==
  ASSUME AInv, NEW m \in FollowUp, GivenOnce(m), NEW c \in Child,
         Interrupt(c) \/ Serialize(c) \/ CancelBlocked(c) \/ MoveApart(c) \/ Narrow(c)
           \/ ReleaseOwner(c)
  PROVE  GivenOnce(m)'
<1>1. ASSUME NEW v \in HostState, Calm(host, v), Write(v), Arrays(Base), sessions' = sessions,
             turn' = turn, phase' = phase, given' = given
      PROVE  GivenOnce(m)'
  <2>1. Narrowed
    BY <1>1, StayedNarrow
  <2> QED BY <1>1, <2>1, GrowsFacts, MuteFacts, GivenHandler
<1>2. \A v : Calm(host, v) => Runs(v.queue) \subseteq Base
  BY HostType DEF Calm, Base
<1>3. Runs(queue) \subseteq Base
  BY DEF Base
<1>4. CASE Interrupt(c)
  <2>1. PICK ts \in {<<c>>} \cup SetToSeqs(Targets(c)) : Stop(ts)
    BY <1>4 DEF Interrupt
  <2>2. ts \in Seq(Child)
    BY TargetsType
  <2>3. PICK v \in HostState : StopDone(ts, v) /\ Calm(host, v)
    BY <2>1, <2>2, StopMade
  <2>4. Runs(Cut(Reached(ts))) \subseteq Base
    BY CutType DEF Base
  <2>5. Arrays(Base)
    BY <1>2, <2>3, <2>4 DEF StopDone, Arrays
  <2> QED BY <1>1, <2>3, <2>5 DEF StopDone, agents
<1>5. CASE Serialize(c)
  <2> DEFINE v == Decide(host, c, "serialize")
  <2>1. v \in HostState /\ Calm(host, v)
    BY HostType, DecideType, DecideCalm DEF Choice
  <2>2. Write(v) /\ UNCHANGED <<queue, sessions, held, agents, given, waived>>
    BY <1>5 DEF Serialize
  <2> HIDE DEF v
  <2>3. Arrays(Base)
    BY <2>2 DEF Arrays
  <2> QED BY <1>1, <2>1, <2>2, <2>3 DEF agents
<1>6. CASE CancelBlocked(c)
  <2> DEFINE v == Complete(Cancelling(c), c, "cancelled")
  <2>1. v \in HostState /\ Calm(host, v) /\ Write(v)
    BY <1>6, CancelMade
  <2>2. /\ UNCHANGED <<sessions, agents, given>>
        /\ (queue' = v.queue /\ held' = NoWait) \/ Commit(queue, v.queue)
    BY <1>6 DEF CancelBlocked, Cancelling
  <2> HIDE DEF v
  <2>3. Arrays(Base)
    BY <1>2, <1>3, <2>1, <2>2 DEF Arrays
  <2> QED BY <1>1, <2>1, <2>2, <2>3 DEF agents
<1>7. CASE MoveApart(c)
  <2>1. PICK v \in HostState : MoveCases(host, c, "apart", v) /\ Write(v) /\ Calm(host, v)
    BY <1>7, MoveApartMade
  <2>2. UNCHANGED <<sessions, turn, phase, given>>
    BY <1>7 DEF MoveApart
  <2>3. Arrays(Base)
    BY <1>2, <1>3, <2>1 DEF MoveCases, Arrays
  <2> QED BY <1>1, <2>1, <2>2, <2>3
<1>8. CASE ReleaseOwner(c)
  <2>1. PICK v \in HostState : MoveCases(Loosed(c), c, "release", v) /\ Write(v) /\ Calm(host, v)
    BY <1>8, ReleaseOwnerMade
  <2>2. UNCHANGED <<sessions, agents, given>>
    BY <1>8 DEF ReleaseOwner
  <2>3. Arrays(Base)
    BY <1>2, <1>3, <2>1 DEF MoveCases, Arrays
  <2> QED BY <1>1, <2>1, <2>2, <2>3 DEF agents
<1>9. CASE Narrow(c)
  <2>1. PICK v \in HostState : MoveCases(host, c, "apart", v) /\ Write(v) /\ Calm(host, v)
    BY <1>9, NarrowMade
  <2>2. UNCHANGED <<sessions, agents, given>>
    BY <1>9 DEF Narrow
  <2>3. Arrays(Base)
    BY <1>2, <1>3, <2>1 DEF MoveCases, Arrays
  <2> QED BY <1>1, <2>1, <2>2, <2>3 DEF agents
<1> QED BY <1>4, <1>5, <1>6, <1>7, <1>8, <1>9

LEMMA SimpleGiven ==
  ASSUME AInv, NEW m \in FollowUp, GivenOnce(m)
  PROVE  /\ \A c \in Child : Close(c) => GivenOnce(m)'
         /\ \A a \in Agent : Wait(a) => GivenOnce(m)'
         /\ WaitTimesOut => GivenOnce(m)'
         /\ \A r \in Run : NoTurn(r) => GivenOnce(m)'
<1>0. /\ host \in HostState /\ Grows(host, host) /\ Mute(host, host, m) /\ Runs(queue) \subseteq Base
      /\ (UNCHANGED <<record, entries>> => Write(host))
  BY HostType, GrowsFacts, MuteFacts, SilentFacts DEF Base, Write
<1>1. ASSUME NEW c \in Child, Close(c) PROVE GivenOnce(m)'
  <2>1. UNCHANGED <<sessions, queue, record, entries, turn, phase, held, given>>
    BY <1>1 DEF Close
  <2>2. Arrays(Base) /\ Narrowed
    BY <2>1, StayedNarrow DEF Arrays
  <2> QED BY <1>0, <2>1, <2>2, GivenHandler
<1>2. ASSUME NEW a \in Agent, Wait(a) PROVE GivenOnce(m)'
  <2>1. /\ UNCHANGED <<sessions, queue, record, entries, agents, given>>
        /\ held' = [agent |-> a, sessions |-> sessions, queue |-> Live]
    BY <1>2 DEF Wait
  <2>2. InQueue(m)' => InQueue(m)
    BY <2>1 DEF InQueue
  <2>3. Begun(m)' => Begun(m)
    BY <2>1, <2>2 DEF Begun, agents
  <2>4. Known(Receiver[m])' = Known(Receiver[m])
    BY <2>1 DEF Known
  <2> QED BY <1>0, <2>1, <2>3, <2>4, GivenKept DEF agents
<1>3. ASSUME WaitTimesOut PROVE GivenOnce(m)'
  <2>1. Waiting /\ Wake(queue) /\ UNCHANGED <<record, entries, agents, given>>
    BY <1>3 DEF WaitTimesOut
  <2>2. Arrays(Base) /\ Narrowed
    BY <1>0, <2>1, HeldWake DEF Arrays, AInv
  <2> QED BY <1>0, <2>1, <2>2, GivenHandler DEF agents
<1>4. ASSUME NEW r \in Run, NoTurn(r) PROVE GivenOnce(m)'
  <2>1. /\ UNCHANGED <<sessions, queue, record, entries, turn, held, given>>
        /\ phase[r] = "claimed" /\ phase' = [phase EXCEPT ![r] = "over"]
    BY <1>4 DEF NoTurn
  <2>2. Arrays(Base) /\ Narrowed
    BY <2>1, StayedNarrow DEF Arrays
  <2>3. phase'[m] = phase[m] \/ Begun(m)
    BY <2>1, AgentFacts DEF Begun, AInv, Small
  <2> QED BY <1>0, <2>1, <2>2, <2>3, GivenHandler
<1> QED BY <1>1, <1>2, <1>3, <1>4

LEMMA TurnGiven ==
  ASSUME AInv, NEW m \in FollowUp, GivenOnce(m), NEW r \in Run, Claim(r) \/ BeginTurn(r)
  PROVE  GivenOnce(m)'
<1>0. m \in Run /\ AgentOf(m) = Receiver[m] /\ Receiver[m] \in Agent /\ AgentOf(r) \in Agent /\ AgentOf(r) \in Child
  BY AgentFacts
<1>1. CASE Claim(r)
  <2> DEFINE q == Mark(queue, r, "running")
             v == Recorded(host, AgentOf(r), r, "running")
  <2>1. ClaimDone(r) /\ v.entries = entries
    BY <1>1, ClaimMade
  <2>2. Runs(q) \subseteq Base /\ Runs(queue) \subseteq Base /\ Runs(q) = Runs(queue)
    BY MarkRuns DEF AInv, Base
  <2>3. QueuedRun(r) /\ UNCHANGED <<sessions, entries, turn, given>>
    BY <2>1 DEF ClaimDone
  <2>4. phase'[m] = phase[m] \/ Begun(m)
    <3>1. r = m => Begun(m)
      <4>1. QueuedRun(r) => r \in Runs(queue)
        BY DEF QueuedRun, ItemOf, Runs
      <4> QED BY <2>3, <4>1 DEF Begun, InQueue
    <3>2. phase' = phase \/ phase' = [phase EXCEPT ![r] = "claimed"]
      BY <2>1 DEF ClaimDone
    <3> QED BY <1>0, <3>1, <3>2 DEF AInv, Small
  <2>5. v \in HostState /\ Silent(host, v)
    BY <1>0, HostType, RecordedFacts DEF LifeState
  <2> HIDE DEF v, q
  <2>6. CASE record' = v.record /\ Replace(q, q)
    <3>1. Write(v) /\ Arrays(Base) /\ Narrowed
      BY <2>1, <2>2, <2>3, <2>6, StayedNarrow DEF Write, Arrays
    <3> QED BY <2>3, <2>4, <2>5, <3>1, SilentFacts, MuteFacts, GivenHandler
  <2>7. CASE queue' = q /\ UNCHANGED <<record, held, phase>>
    <3>1. InQueue(m)' => InQueue(m)
      BY <2>2, <2>7 DEF InQueue, Waiting
    <3>2. Begun(m)' => Begun(m)
      BY <2>3, <2>7, <3>1 DEF Begun
    <3>3. Write(host) /\ Known(Receiver[m])' = Known(Receiver[m])
      BY <2>3, <2>7, HostType DEF Write, Known
    <3>4. Grows(host, host) /\ Mute(host, host, m) /\ host \in HostState
      BY HostType, GrowsFacts, MuteFacts, SilentFacts
    <3> QED BY <2>3, <3>2, <3>3, <3>4, GivenKept
  <2> QED BY <2>1, <2>6, <2>7 DEF ClaimDone, v, q
<1>2. CASE BeginTurn(r)
  <2> DEFINE c == Receiver[m]
  <2>1. /\ phase[r] = "claimed" /\ turn[AgentOf(r)] = NoRun
        /\ phase' = [phase EXCEPT ![r] = "turn"] /\ turn' = [turn EXCEPT ![AgentOf(r)] = r]
        /\ given' = [n \in FollowUp |-> IF n = r THEN given[n] \cup {"run"} ELSE given[n]]
        /\ UNCHANGED <<sessions, queue, record, entries, held>>
    BY <1>2 DEF BeginTurn
  <2>2. phase'[m] = IF m = r THEN "turn" ELSE phase[m]
    BY <1>0, <2>1 DEF AInv, Small
  <2>3. turn'[c] = IF c = AgentOf(r) THEN r ELSE turn[c]
    BY <1>0, <2>1 DEF AInv, Small
  <2>4. given'[m] = IF m = r THEN given[m] \cup {"run"} ELSE given[m]
    BY <2>1
  <2>5. InQueue(m)' = InQueue(m) /\ Known(c)' = Known(c)
    BY <2>1 DEF InQueue, Waiting, Known
  <2>6. Begun(m)' => Begun(m)
    BY <2>1, <2>2, <2>3, <2>4, <2>5 DEF Begun
  <2>7. Seen(host, c)' = Seen(host, c) /\ r # NoRun
    BY <2>1, AgentFacts DEF Seen, host
  <2>8. "steered" \in given'[m] => "steered" \in given[m]
    BY <2>4
  <2>9. Sealed(m) => Sealed(m)'
    <3> HIDE DEF c
    <3> QED BY <2>1, <2>3, <2>5, <2>7 DEF Sealed, c
  <2> HIDE DEF c
  <2>10. record'[c].last.state = record[c].last.state /\ record'[c].mail = record[c].mail
    BY <2>1
  <2> QED BY <2>6, <2>8, <2>9, <2>10 DEF GivenOnce, c
<1> QED BY <1>1, <1>2

LEMMA FlushGiven ==
  ASSUME AInv, NEW m \in FollowUp, GivenOnce(m), NEW a \in Agent, NEW R \in Record,
         MoreMail(record[a], R), MoreMail(Seen(host, a), R), Flush(a, R),
         record' = IF Known(a) THEN [record EXCEPT ![a] = R] ELSE record,
         UNCHANGED <<sessions, queue, held, given>>, phase'[m] = phase[m] \/ Begun(m)
  PROVE  GivenOnce(m)'
<1> DEFINE c == Receiver[m]
<1>0. c \in Agent /\ m \in Mail /\ m # NoRun
  BY AgentFacts
<1>1. /\ turn'[c] = IF c = a THEN NoRun ELSE turn[c]
      /\ entries'[c] = IF c = a THEN <<>> ELSE entries[c]
      /\ record'[c] = IF c = a /\ Known(a) THEN R ELSE record[c]
  BY <1>0 DEF Flush, AInv, Filed, Small
<1>2. InQueue(m)' = InQueue(m) /\ Known(c)' = Known(c)
  BY DEF InQueue, Waiting, Known
<1>3. Begun(m)' => Begun(m)
  BY <1>0, <1>1, <1>2 DEF Begun
<1>4. MoreMail(record[c], record'[c])
  BY <1>1 DEF MoreMail
<1>5. c # a => Seen(host, c)' = Seen(host, c)
  BY <1>1 DEF Seen, host
<1>6. Sealed(m) => Sealed(m)'
  <2> HIDE DEF c
  <2>1. CASE m \in record[c].started /\ record[c].mail[m] # "none"
    BY <1>0, <1>4, <2>1 DEF Sealed, MoreMail, c
  <2>2. CASE record[c].mail[m] = "none" /\ ~Known(c)
    <3>1. record'[c] = record[c]
      BY <1>1, <2>2
    <3> QED BY <1>2, <2>2, <3>1 DEF Sealed, c
  <2>3. CASE /\ record[c].mail[m] = "none" /\ turn[c] # NoRun /\ m \in Seen(host, c).started
             /\ Seen(host, c).mail[m] # "none" /\ Known(c)
    <3>1. CASE c = a
      <4>1. m \in record'[c].started /\ record'[c].mail[m] # "none"
        BY <1>0, <1>1, <2>3, <3>1 DEF MoreMail
      <4> QED BY <4>1 DEF Sealed, c
    <3>2. CASE c # a
      <4>1. record'[c] = record[c] /\ turn'[c] = turn[c]
        BY <1>1, <3>2
      <4> QED BY <1>5, <2>3, <3>2, <4>1 DEF Sealed, c
    <3> QED BY <3>1, <3>2
  <2> QED BY <2>1, <2>2, <2>3 DEF Sealed, c
<1>7. record[c].last.state # "none" => record'[c].last.state # "none"
  BY <1>4 DEF MoreMail
<1>8. record[c].mail[m] # "none" => record'[c].mail[m] # "none"
  BY <1>0, <1>4 DEF MoreMail
<1> HIDE DEF c
<1> QED BY <1>3, <1>6, <1>7, <1>8 DEF GivenOnce, c

LEMMA EndGiven ==
  ASSUME AInv, NEW m \in FollowUp, GivenOnce(m)
  PROVE  /\ \A r \in Run, st \in Outcome : EndTurn(r, st) => GivenOnce(m)'
         /\ BeginRootTurn \/ EndRootTurn => GivenOnce(m)'
<1>1. ASSUME NEW r \in Run, NEW st \in Outcome, EndTurn(r, st) PROVE GivenOnce(m)'
  <2> DEFINE a == AgentOf(r)
             R == Seen(Ended(a, r, st), a)
  <2>1. a \in Agent /\ st \in Terminal /\ m \in Run /\ AgentOf(m) = Receiver[m]
    BY AgentFacts, CollaborationAssumption DEF Terminal
  <2>2. R \in Record /\ MoreMail(record[a], R) /\ MoreMail(Seen(host, a), R)
    BY <2>1, EndedType, EndedFacts
  <2>3. /\ Flush(a, R) /\ phase' = [phase EXCEPT ![r] = "over"] /\ turn[a] = r
        /\ record' = (IF Known(a) THEN [record EXCEPT ![a] = R] ELSE record)
        /\ UNCHANGED <<sessions, queue, held, given>>
    BY <1>1 DEF EndTurn, Ended, Flush
  <2>4. phase'[m] = phase[m] \/ Begun(m)
    BY <2>1, <2>3 DEF Begun, AInv, Small
  <2> HIDE DEF R, a
  <2> QED BY <2>1, <2>2, <2>3, <2>4, FlushGiven
<1>2. ASSUME EndRootTurn PROVE GivenOnce(m)'
  <2> DEFINE R == Seen(host, Root)
  <2>1. R \in Record /\ MoreMail(record[Root], R) /\ Root \in Agent
    BY AgentFacts, HostType, GrowsFacts, EndedFacts
  <2>2. /\ Flush(Root, R) /\ phase' = phase /\ record' = [record EXCEPT ![Root] = R]
        /\ UNCHANGED <<sessions, queue, held, given>>
    BY <1>2 DEF EndRootTurn, Flush
  <2>3. MoreMail(Seen(host, Root), R) /\ Known(Root)
    BY DEF MoreMail, Known
  <2> HIDE DEF R
  <2> QED BY <2>1, <2>2, <2>3, FlushGiven
<1>3. ASSUME BeginRootTurn PROVE GivenOnce(m)'
  <2> DEFINE c == Receiver[m]
  <2>1. /\ turn' = [turn EXCEPT ![Root] = Root]
        /\ UNCHANGED <<sessions, queue, record, entries, phase, held, given>>
    BY <1>3 DEF BeginRootTurn
  <2>2. c \in Child /\ c # Root /\ c \in Agent
    BY CollaborationAssumption DEF Agent
  <2>3. turn'[c] = turn[c]
    BY <2>1, <2>2 DEF AInv, Small
  <2>4. InQueue(m)' = InQueue(m) /\ Known(c)' = Known(c) /\ Seen(host, c)' = Seen(host, c)
    BY <2>1 DEF InQueue, Waiting, Known, Seen, host
  <2> HIDE DEF c
  <2>5. Begun(m)' = Begun(m) /\ Sealed(m)' = Sealed(m)
    BY <2>1, <2>3, <2>4 DEF Begun, Sealed, c
  <2> QED BY <2>1, <2>5 DEF GivenOnce
<1> QED BY <1>1, <1>2, <1>3

LEMMA StartedMute ==
  ASSUME NEW w \in HostState, NEW n \in FollowUp, NEW m \in FollowUp
  PROVE  Mute(w, Started(w, n), m)
<1> DEFINE d == Note("started", n)
           e == Note("consumed", {n})
           u == Put(w, Receiver[n], d)
<1>1. Receiver[n] \in Agent /\ d \in Event /\ e \in Event /\ d.type # "mail" /\ e.type # "mail"
  BY AgentFacts, EventType DEF Note
<1>2. Started(w, n) = Put(u, Receiver[n], e)
  BY DEF Started
<1> HIDE DEF d, e
<1>3. u \in HostState /\ Mute(w, u, m)
  BY <1>1, PutFacts, MuteFacts
<1> HIDE DEF u
<1>4. Mute(u, Put(u, Receiver[n], e), m)
  BY <1>1, <1>3, MuteFacts
<1> QED BY <1>2, <1>3, <1>4, MuteFacts

LEMMA SettledGiven ==
  ASSUME AInv, NEW m \in FollowUp, GivenOnce(m), NEW w \in HostState, Calm(host, w),
         NEW r \in Run, NEW st \in Terminal, NEW p, QueueOK(p), Runs(p) \subseteq Runs(queue),
         Settled(w, r, st, p), turn' = turn, given' = given, phase'[m] = phase[m] \/ Begun(m)
  PROVE  GivenOnce(m)'
<1> DEFINE u == Complete(w, r, st)
           c == Receiver[m]
<1>1. PICK v \in HostState : SettledDone(w, r, st, p, v) /\ Write(v) /\ Grows(w, v)
  BY HostType, SettledMade
<1>2. u \in HostState /\ Calm(host, u)
  BY HostType, CompleteType, CompleteCalm, CalmFacts
<1>3. Runs(u.queue) \subseteq Base /\ Runs(p) \subseteq Base /\ Grows(host, v) /\ c \in Agent /\ m \in Mail
  BY <1>1, <1>2, HostType, GrowsFacts, AgentFacts DEF Calm, Base
<1>4. CASE v = u /\ ((Waiting /\ Wake(p)) \/ (\E q \in {p, v.queue} : Replace(p, q) /\ UNCHANGED sessions))
  <2>1. Arrays(Base)
    BY <1>3, <1>4 DEF Arrays
  <2>2. Narrowed
    BY <1>4, HeldWake, StayedNarrow
  <2>3. Mute(host, v, m)
    BY <1>2, <1>4, MuteFacts
  <2> HIDE DEF u, c
  <2> QED BY <1>1, <1>3, <2>1, <2>2, <2>3, GivenHandler
<1>5. ASSUME NEW n \in Drainable(u, AgentOf(r)), v = Started(Enqueue(u, n), n),
             Replace(p, v.queue), UNCHANGED sessions
      PROVE  GivenOnce(m)'
  <2> DEFINE x == Enqueue(u, n)
  <2>1. /\ n \in FollowUp /\ n \in Run /\ CanEnqueue(u, n) /\ Receiver[n] = AgentOf(r)
        /\ u.record[Receiver[n]].mail[n] # "none" /\ n \notin u.record[Receiver[n]].started
    BY AgentFacts DEF Drainable
  <2> HIDE DEF u, c
  <2>2. x \in HostState /\ Silent(u, x) /\ Runs(x.queue) = Runs(u.queue) \cup {n}
    BY <1>2, <2>1, EnqueueSilent
  <2> HIDE DEF x
  <2>3. v.queue = x.queue /\ Mute(x, v, m)
    BY <1>5, <2>1, <2>2, StartedGrows, StartedMute DEF x
  <2>4. Mute(host, v, m)
    BY <1>2, <2>2, <2>3, MuteFacts
  <2>5. CASE n # m
    <3>1. Arrays(Base \cup {n})
      <4>1. Runs(v.queue) \subseteq Base \cup {n} /\ Runs(p) \subseteq Base \cup {n}
        BY <1>3, <2>2, <2>3
      <4> QED BY <1>5, <4>1 DEF Arrays
    <3>2. Narrowed
      BY <1>5, StayedNarrow
    <3> QED BY <1>1, <1>3, <2>4, <2>5, <3>1, <3>2, GivenHandler
  <2>6. CASE n = m
    <3>1. record[c].mail[m] # "none" /\ m \notin record[c].started
      BY <1>2, <1>3, <2>1, <2>6, HostType DEF Calm, Silent, SameMail, c
    <3>2. "steered" \notin given[m]
      BY <3>1 DEF GivenOnce, Sealed, c
    <3>3. record'[c].mail[m] # "none"
      BY <1>1, <1>3, <3>1, HostType DEF Write, Grows, MoreMail
    <3> QED BY <3>2, <3>3 DEF GivenOnce, c
  <2> QED BY <2>5, <2>6
<1> HIDE DEF c
<1> QED BY <1>1, <1>4, <1>5 DEF SettledDone

LEMMA SettleGiven ==
  ASSUME AInv, NEW m \in FollowUp, GivenOnce(m), NEW r \in Run, NEW st \in Outcome \cup {"failed"}, Settle(r, st)
  PROVE  GivenOnce(m)'
<1>1. st \in Terminal /\ m \in Run
  BY AgentFacts, CollaborationAssumption DEF Terminal
<1>2. /\ SettleCases(r, st) /\ phase[r] \in {"over", "again"}
      /\ UNCHANGED <<turn, conflict, apart, closed, given, waived, calls>>
  BY SettleMade
<1>3. phase'[m] = phase[m] \/ Begun(m)
  <2>1. phase' = [phase EXCEPT ![r] = "done"] \/ phase' = [phase EXCEPT ![r] = IF @ = "over" THEN "again" ELSE "done"]
    BY <1>2 DEF SettleCases
  <2>2. CASE m = r
    BY <1>2, <2>2 DEF Begun
  <2>3. CASE m # r
    BY <1>1, <2>1, <2>3 DEF AInv, Small
  <2> QED BY <2>2, <2>3
<1> DEFINE q == Mark(queue, r, "settled")
<1>4. QueueOK(q) /\ QueueOK(queue) /\ Runs(q) = Runs(queue)
  BY <1>1, MarkedFacts, MarkRuns DEF AInv
<1>5. Marked(r, st) \in HostState /\ Calm(host, Marked(r, st)) /\ host \in HostState /\ Calm(host, host)
  BY <1>1, MarkedFacts, HostType, CalmFacts
<1> HIDE DEF q
<1>6. CASE Settled(Marked(r, st), r, st, q)
  BY <1>1, <1>2, <1>3, <1>4, <1>5, <1>6, SettledGiven
<1>7. CASE Settled(host, r, st, queue)
  BY <1>1, <1>2, <1>3, <1>4, <1>5, <1>7, SettledGiven
<1>8. CASE queue' \in {queue, q} /\ UNCHANGED <<record, entries, sessions, held>>
  <2>1. InQueue(m)' => InQueue(m)
    BY <1>4, <1>8 DEF InQueue, Waiting
  <2>2. Begun(m)' => Begun(m)
    BY <1>2, <1>3, <2>1 DEF Begun
  <2>3. Write(host) /\ Known(Receiver[m])' = Known(Receiver[m])
    BY <1>8, HostType DEF Write, Known
  <2>4. Grows(host, host) /\ Mute(host, host, m)
    BY GrowsFacts, MuteFacts, SilentFacts
  <2> QED BY <1>2, <1>5, <2>2, <2>3, <2>4, GivenKept
<1> QED BY <1>2, <1>6, <1>7, <1>8 DEF SettleCases, q

LEMMA SendFollowUpGiven ==
  ASSUME AInv, NEW m \in FollowUp, GivenOnce(m), NEW n \in Mail, SendFollowUp(n)
  PROVE  GivenOnce(m)'
<1>1. PICK v \in HostState : Given(n, v) /\ Write(v) /\ Grows(host, v)
  BY SendFollowUpMade
<1>2. n \in FollowUp /\ n \in Run /\ Mailed(n) \in HostState
  BY SendFollowUpMade
<1>3. Known(Receiver[n]) /\ record[Receiver[n]].mail[n] = "none" /\ UNCHANGED <<sessions, agents, waived>>
  BY DEF SendFollowUp
<1>4. turn' = turn /\ phase' = phase /\ Narrowed /\ host \in HostState
  BY <1>3, StayedNarrow, HostType DEF agents
<1>5. /\ Receiver[n] \in Agent /\ Note("mail", n) \in Event /\ Mailed(n).queue = queue
      /\ Receiver[n] \in Child /\ Receiver[n] # Root
  <2>1. n \in Mail /\ AgentOf(n) = Receiver[n] /\ AgentOf(n) \in Child
    BY <1>2, AgentFacts
  <2>2. Receiver[n] \in Agent /\ Receiver[n] \in Child /\ Receiver[n] # Root
    BY <2>1, CollaborationAssumption DEF Agent
  <2>3. Note("mail", n) \in Event
    BY <2>1, EventType
  <2>4. Mailed(n).queue = queue
    BY <1>4, <2>2, <2>3, HostType, NoteGrows DEF Mailed
  <2> QED BY <2>2, <2>3, <2>4
<1>6. CASE n # m
  <2>1. Mute(host, Mailed(n), m)
    <3>1. Note("mail", n).of # m
      BY <1>6 DEF Note
    <3> QED BY <1>4, <1>5, <3>1, MuteFacts DEF Mailed
  <2>2. CanEnqueue(Mailed(n), n) =>
          LET x == Enqueue(Mailed(n), n)
          IN x \in HostState /\ Silent(Mailed(n), x) /\ Runs(x.queue) = Runs(queue) \cup {n}
    BY <1>2, <1>5, EnqueueSilent
  <2>3. Mute(host, v, m)
    BY <1>1, <1>2, <2>1, <2>2, StartedMute, MuteFacts DEF Given
  <2>4. Arrays(Base \cup {n})
    <3>1. (queue' = queue /\ held' = held) \/ (v = Started(Enqueue(Mailed(n), n), n) /\ CanEnqueue(Mailed(n), n) /\ Commit(queue, v.queue))
      BY <1>1 DEF Given
    <3>2. CASE v = Started(Enqueue(Mailed(n), n), n) /\ CanEnqueue(Mailed(n), n) /\ Commit(queue, v.queue)
      <4>1. Runs(v.queue) = Runs(queue) \cup {n}
        BY <1>2, <2>2, <3>2, StartedGrows
      <4> QED BY <3>2, <4>1 DEF Arrays, Base
    <3> QED BY <3>1, <3>2 DEF Arrays
  <2>5. given'[m] = given[m]
    BY <1>1, <1>6 DEF Given, AInv, Small
  <2> QED BY <1>1, <1>4, <1>6, <2>3, <2>4, <2>5, GivenHandler
<1>7. CASE n = m
  <2> DEFINE c == Receiver[m]
  <2>1. c \in Agent /\ m \in Mail /\ ~Begun(m) /\ record[c].mail[m] = "none" /\ Known(c) /\ c # Root
    BY <1>3, <1>5, <1>7 DEF GivenOnce
  <2>2. "steered" \in given[m] => turn[c] # NoRun
    BY <2>1 DEF GivenOnce, Sealed
  <2>3. record[c].last.state # "none"
    BY <2>1 DEF Known, AInv, Listed
  <2>4. PutDone(host, Mailed(m), c, Note("mail", m)) /\ host.record = record
    BY <1>4, <1>5, <1>7, PutFacts, HostType DEF Mailed
  <2>5. \A R \in Record : Apply(R, Note("mail", m)).mail[m] # "none"
    <3>1. Note("mail", m).type = "mail" /\ Note("mail", m).of = m /\ Note("mail", m) \in Event
      BY <1>5, <1>7 DEF Note
    <3>2. ASSUME NEW R \in Record PROVE Apply(R, Note("mail", m)).mail[m] # "none"
      <4> DEFINE e == Note("mail", m)
      <4>1. e \in Event /\ e.type = "mail" /\ e.of = m /\ m \in Mail
        BY <2>1, <3>1
      <4> HIDE DEF e
      <4>2. Apply(R, e).mail = MailAfter(R, e) /\ R.mail \in [Mail -> MailState]
        BY <4>1, ApplyFields DEF Record
      <4>3. MailAfter(R, e)[m] = "queued"
        BY <4>1, <4>2 DEF MailAfter
      <4> QED BY <4>2, <4>3 DEF e
    <3> QED BY <3>2
  <2> HIDE DEF c
  <2>6. CASE /\ v = Started(Mailed(m), m) /\ turn[c] # NoRun
             /\ given' = [given EXCEPT ![m] = @ \cup {"steered"}] /\ UNCHANGED <<queue, held>>
    <3>1. given'[m] = given[m] \cup {"steered"}
      BY <2>6 DEF AInv, Small
    <3>2. InQueue(m)' = InQueue(m)
      BY <2>6 DEF InQueue, Waiting
    <3>3. ~Begun(m)'
      BY <1>4, <2>1, <3>1, <3>2 DEF Begun, c
    <3>4. record'[c].mail[m] = "none" /\ record'[c].last.state # "none"
      <4>1. SameMail(record[c], record'[c])
        BY <1>1, <2>1, <2>4, <2>6 DEF Grows, Write
      <4> QED BY <2>1, <2>3, <4>1 DEF SameMail
    <3>5. m \in Seen(v, c).started /\ Seen(v, c).mail[m] # "none"
      <4>1. Seen(Mailed(m), c).mail[m] # "none"
        <5>1. Seen(Mailed(m), c) = Apply(Seen(host, c), Note("mail", m)) /\ Seen(host, c) \in Record
          BY <1>4, <2>1, <2>4, HostFacts DEF PutDone
        <5> QED BY <2>5, <5>1
      <4>2. Grows(Mailed(m), v)
        BY <1>2, <1>7, <2>6, StartedGrows
      <4>3. Seen(v, c).mail[m] # "none"
        BY <2>1, <4>1, <4>2 DEF Grows, MoreMail
      <4>4. m \in Seen(v, c).started
        <5> DEFINE d == Note("started", m)
                   e == Note("consumed", {m})
                   u == Put(Mailed(m), c, d)
        <5>1. d \in Event /\ e \in Event /\ d.type = "started" /\ d.of = m
          BY <1>2, <1>7, EventType DEF Note
        <5>2. v = Put(u, c, e)
          BY <2>6 DEF Started, c
        <5> HIDE DEF d, e
        <5>3. u \in HostState /\ PutDone(Mailed(m), u, c, d)
          BY <1>2, <1>7, <2>1, <5>1, PutFacts
        <5> HIDE DEF u
        <5>4. Seen(u, c) = Apply(Seen(Mailed(m), c), d) /\ Seen(Mailed(m), c) \in Record
          BY <1>2, <1>7, <2>1, <5>3, HostFacts DEF PutDone
        <5>5. m \in Seen(u, c).started
          BY <5>1, <5>4, ApplyFields
        <5>6. Grows(u, v)
          BY <2>1, <5>1, <5>2, <5>3, NoteGrows
        <5> QED BY <2>1, <5>5, <5>6 DEF Grows, MoreMail
      <4> QED BY <4>3, <4>4
    <3>6. Seen(host, c)' = Seen(v, c)
      BY <1>1 DEF Write, Seen, host
    <3>7. Sealed(m)'
      BY <1>4, <2>6, <3>4, <3>5, <3>6 DEF Sealed, c
    <3> QED BY <3>3, <3>4, <3>7 DEF GivenOnce, c
  <2>7. CASE v = Mailed(m) /\ UNCHANGED <<queue, held, given>>
    <3>1. Arrays(Base) /\ given'[m] = given[m]
      BY <2>7 DEF Arrays
    <3>2. CASE turn[c] # NoRun
      <4>1. Mute(host, v, m)
        <5>1. v.record[c] = record[c]
          BY <2>4, <2>7, <3>2 DEF PutDone
        <5> QED BY <2>4, <5>1 DEF Mute, c
      <4> QED BY <1>1, <1>4, <3>1, <4>1, GivenHandler
    <3>3. CASE turn[c] = NoRun
      <4>1. "steered" \notin given'[m]
        BY <2>2, <2>7, <3>3
      <4>2. ~Begun(m)'
        <5>1. InQueue(m)' = InQueue(m)
          BY <2>7 DEF InQueue, Waiting
        <5> QED BY <1>4, <2>1, <2>7, <5>1 DEF Begun
      <4> QED BY <4>1, <4>2 DEF GivenOnce
    <3> QED BY <3>2, <3>3
  <2>8. CASE /\ v = Started(Enqueue(Mailed(m), m), m) /\ turn[c] = NoRun /\ CanEnqueue(Mailed(m), m)
             /\ UNCHANGED given
    <3>1. "steered" \notin given'[m]
      BY <2>2, <2>8
    <3>2. Mailed(m).record[c].mail[m] # "none"
      <4>1. Mailed(m).record[c] = Apply(record[c], Note("mail", m)) /\ record[c] \in Record
        BY <1>4, <2>1, <2>4, <2>8, HostFacts DEF PutDone
      <4> QED BY <2>5, <4>1
    <3>3. Grows(Mailed(m), v)
      <4> DEFINE x == Enqueue(Mailed(m), m)
      <4>1. x \in HostState /\ Grows(Mailed(m), x)
        BY <1>2, <1>7, <2>8, EnqueueSilent, SilentFacts
      <4> HIDE DEF x
      <4>2. Grows(x, v)
        BY <1>2, <1>7, <2>8, <4>1, StartedGrows DEF x
      <4> QED BY <4>1, <4>2, GrowsFacts
    <3>4. record'[c].mail[m] # "none"
      BY <1>1, <2>1, <3>2, <3>3 DEF Grows, MoreMail, Write
    <3> QED BY <3>1, <3>4 DEF GivenOnce, c
  <2> QED BY <1>1, <1>7, <2>6, <2>7, <2>8 DEF Given, c
<1> QED BY <1>6, <1>7

LEMMA GivenStep ==
  ASSUME AInv, \A m \in FollowUp : GivenOnce(m), [Next]_vars, NEW m \in FollowUp
  PROVE  GivenOnce(m)'
<1>1. CASE UNCHANGED vars
  BY <1>1 DEF vars, agents, GivenOnce, Begun, InQueue, Waiting, Sealed, Seen, host, Known
<1>2. ASSUME NEW c \in Child
      PROVE  /\ Spawn(c) \/ Close(c) => GivenOnce(m)'
             /\ Interrupt(c) \/ Serialize(c) \/ CancelBlocked(c) \/ MoveApart(c) \/ Narrow(c) \/ ReleaseOwner(c) => GivenOnce(m)'
  BY SpawnGiven, SimpleGiven, CommandGiven
<1>3. ASSUME NEW n \in Mail PROVE Send(n) \/ SendFollowUp(n) \/ Ack(n) => GivenOnce(m)'
  BY MessageGiven, SendFollowUpGiven
<1>4. ASSUME NEW a \in Agent PROVE Consume(a) \/ Wait(a) => GivenOnce(m)'
  BY MessageGiven, SimpleGiven
<1>5. ASSUME NEW r \in Run PROVE Claim(r) \/ BeginTurn(r) \/ NoTurn(r) => GivenOnce(m)'
  BY TurnGiven, SimpleGiven
<1> QED
  BY <1>1, <1>2, <1>3, <1>4, <1>5, SimpleGiven, EndGiven, SettleGiven DEF Next

(* A follow-up is steered into the turn in progress or becomes a run of    *)
(* its own, never both: once steered, it is in no queue, its own turn does *)
(* not begin, and neither the drain nor a repeated call can enqueue it.    *)
THEOREM FollowUpOnceHolds == Spec => []FollowUpOnce
<1> DEFINE GInv == AInv /\ \A m \in FollowUp : GivenOnce(m)
<1>1. Init => GInv
  <2> HAVE Init
  <2>1. ASSUME NEW m \in FollowUp PROVE GivenOnce(m)
    <3>1. m \in Run /\ Receiver[m] \in Agent /\ m # Other /\ m # NoRun
      BY AgentFacts
    <3>2. m \notin Runs(queue)
      <4>1. queue \in {<<>>, <<[run |-> Other, agent |-> Other, status |-> "running"]>>}
        BY DEF Init
      <4>2. Runs(<<>>) = {}
        BY DEF Runs
      <4>3. Runs(<<[run |-> Other, agent |-> Other, status |-> "running"]>>) \subseteq {Other}
        BY DEF Runs
      <4> QED BY <3>1, <4>1, <4>2, <4>3
    <3>3. given[m] = {} /\ phase[m] = "none" /\ turn[Receiver[m]] = NoRun /\ held = NoWait
      BY <3>1 DEF Init
    <3>4. ~Begun(m)
      BY <3>1, <3>2, <3>3 DEF Begun, InQueue, Waiting
    <3> QED BY <3>3, <3>4 DEF GivenOnce
  <2> QED BY <2>1, AInvInit
<1>2. GInv /\ [Next]_vars => GInv'
  <2> SUFFICES ASSUME GInv, [Next]_vars PROVE GInv'
    OBVIOUS
  <2>1. AInv'
    BY AInvStep
  <2>2. \A m \in FollowUp : GivenOnce(m)'
    BY GivenStep
  <2> QED BY <2>1, <2>2
<1>3. GInv => FollowUpOnce
  <2> SUFFICES ASSUME GInv PROVE FollowUpOnce
    OBVIOUS
  <2>1. ASSUME NEW m \in FollowUp, given[m] = {"steered", "run"} PROVE FALSE
    BY <2>1 DEF GivenOnce, Begun
  <2> QED BY <2>1 DEF FollowUpOnce
<1> HIDE DEF GInv
<1> QED BY <1>1, <1>2, <1>3, PTL DEF Spec

-----------------------------------------------------------------------------
(* Leases.  A child is at work from the first event of its first run until *)
(* the run is over; while it is, it has the lease of its write scope,      *)
(* unless it is one of those nothing is said of.                           *)
Exempt == {c \in Child : c \in apart \cup waived \/ FollowUpFirst(c)}
Ran == {"running"} \cup Terminal

Working(w, c) ==
  w.record[c].life[c] \notin Terminal \cup {"none"} /\ phase[c] \in {"none", "claimed", "turn"}
Holds(w, c) == Known(c) /\ Working(w, c)

(* The recorder of the agent's turn has its run begin and end, no more.    *)
Underway(w, c) ==
  \A i \in DOMAIN w.entries[c] :
    w.entries[c][i].type = "life" /\ w.entries[c][i].of = c => w.entries[c][i].what \in Ran

Lone(w, c) ==
  /\ Writer(c) /\ Working(w, c) => HasLease(w, c)
  /\ w.record[c].last.state \in Terminal \/ c \in closed => w.record[c].life[c] # "none"
  /\ w.record[c].last.state = "none" => w.record[c].life[c] = "none" /\ conflict[c] = NoRun
  /\ phase[c] # "none" => w.record[c].life[c] \in Ran
  /\ phase[c] \in {"claimed", "turn"} => w.record[c].life[c] = "running"
  /\ InQueue(c) \/ c \in Runs(w.queue) => w.record[c].life[c] # "none"
  /\ Underway(w, c)

(* A child whose lease is in conflict does not work before the decision.   *)
Ruled(w, c) == conflict[c] # NoRun /\ Working(w, c) => Decided(w.record[c], c)

(* Of two children with overlapping scopes one does not work.              *)
Alone(w, c, Y) == \A d \in Child \ Y : <<c, d>> \in Overlap => ~Holds(w, d)
Pairs(w, Y) == \A c \in Child \ Y : Holds(w, c) => Alone(w, c, Y)
Order(w, Y) == Pairs(w, Y) /\ \A c \in Child \ Y : Lone(w, c)
Rules(w, Y) == \A c \in Child \ Y : Ruled(w, c)

(* A run is in its turn when the pump says so.                             *)
TurnPhases == \A r \in Run : phase[r] = "turn" <=> turn[AgentOf(r)] = r

LeaseInv == TurnPhases /\ Order(host, Exempt) /\ Rules(host, Exempt)

(* What changes nothing of the work and the lease of a child.              *)
Keen(w, v, c) ==
  /\ v.record[c].life[c] = w.record[c].life[c]
  /\ v.record[c].last.state \in Terminal => w.record[c].last.state \in Terminal
  /\ v.record[c].last.state = "none" => w.record[c].last.state = "none"
  /\ w.record[c].leased => v.record[c].leased
  /\ w.record[c].resolved \subseteq v.record[c].resolved
  /\ c \in Runs(v.queue) => c \in Runs(w.queue)
  /\ Underway(w, c) => Underway(v, c)

LEMMA KeenFacts ==
  ASSUME NEW c
  PROVE  /\ \A w : Keen(w, w, c)
         /\ \A w, v, u : Keen(w, v, c) /\ Keen(v, u, c) => Keen(w, u, c)
BY DEF Keen

LEMMA KeenLone ==
  ASSUME NEW w, NEW v, NEW c, Keen(w, v, c)
  PROVE  /\ Lone(w, c) => Lone(v, c)
         /\ Working(v, c) = Working(w, c) /\ Holds(v, c) = Holds(w, c)
         /\ Ruled(w, c) => Ruled(v, c)
<1>1. Working(v, c) = Working(w, c)
  BY DEF Keen, Working
<1>2. Holds(v, c) = Holds(w, c)
  BY <1>1 DEF Holds
<1>3. HasLease(w, c) => HasLease(v, c)
  BY DEF Keen, HasLease
<1>4. Decided(w.record[c], c) => Decided(v.record[c], c)
  BY DEF Keen, Decided
<1>5. Ruled(w, c) => Ruled(v, c)
  BY <1>1, <1>4, Zenon DEF Ruled
<1>6. Lone(w, c) => Lone(v, c)
  BY <1>1, <1>3 DEF Keen, Lone
<1> QED BY <1>1, <1>2, <1>5, <1>6

LEMMA OrderOne ==
  ASSUME NEW w, NEW v, NEW Y, NEW c \in Child, Order(w, Y), \A d \in Child \ (Y \cup {c}) : Keen(w, v, d),
         c \in Y \/ (Lone(v, c) /\ (Holds(v, c) => Alone(w, c, Y)))
  PROVE  Order(v, Y)
<1>1. \A d \in Child \ Y : Lone(v, d)
  BY KeenLone, Zenon DEF Order
<1>2. \A d \in Child \ (Y \cup {c}) : Holds(v, d) = Holds(w, d)
  BY KeenLone
<1>3. ASSUME NEW d \in Child \ Y, Holds(v, d), NEW e \in Child \ Y, <<d, e>> \in Overlap, Holds(v, e)
      PROVE  FALSE
  <2>1. d # e /\ <<e, d>> \in Overlap
    BY <1>3, CollaborationAssumption
  <2>2. CASE d = c
    <3>1. Alone(w, c, Y) /\ Holds(w, e)
      BY <1>2, <1>3, <2>1, <2>2
    <3> QED BY <1>3, <2>2, <3>1 DEF Alone
  <2>3. CASE e = c
    <3>1. Alone(w, c, Y) /\ Holds(w, d)
      BY <1>2, <1>3, <2>1, <2>3
    <3> QED BY <1>3, <2>1, <2>3, <3>1 DEF Alone
  <2>4. CASE d # c /\ e # c
    <3>1. Holds(w, d) /\ Holds(w, e)
      BY <1>2, <1>3, <2>4
    <3> QED BY <1>3, <3>1 DEF Order, Pairs, Alone
  <2> QED BY <2>2, <2>3, <2>4
<1>4. Pairs(v, Y)
  BY <1>3 DEF Pairs, Alone
<1> QED BY <1>1, <1>4 DEF Order

LEMMA OrderKept ==
  ASSUME NEW w, NEW v, NEW Y, Order(w, Y), \A d \in Child \ Y : Keen(w, v, d)
  PROVE  Order(v, Y) /\ (Rules(w, Y) => Rules(v, Y))
<1>1. \A d \in Child \ Y : Lone(v, d) /\ Holds(v, d) = Holds(w, d) /\ (Ruled(w, d) => Ruled(v, d))
  BY KeenLone, Zenon DEF Order
<1>2. Pairs(v, Y)
  BY <1>1 DEF Order, Pairs, Alone
<1> QED BY <1>1, <1>2 DEF Order, Rules

(* The more children are left out, the less is said.                       *)
LEMMA OrderMore ==
  ASSUME NEW w, NEW Y, NEW Z, Order(w, Y), Y \subseteq Z
  PROVE  Order(w, Z) /\ (Rules(w, Y) => Rules(w, Z))
BY DEF Order, Pairs, Alone, Rules

(* The recorder of a run that has begun leaves it so.                      *)
LEMMA FlushedRan ==
  ASSUME NEW R \in Record, NEW es \in Seq(Event), NEW c \in Child, R.life[c] \in Ran,
         \A i \in DOMAIN es : es[i].type = "life" /\ es[i].of = c => es[i].what \in Ran
  PROVE  Flushed(R, es).life[c] \in Ran
<1> DEFINE n == Len(es)
<1>0. n \in Nat /\ \A i \in 1..n : es[i] \in Event /\ i \in DOMAIN es
  OBVIOUS
<1>1. PICK A \in [0..n -> Record] :
        /\ A[0] = R /\ \A i \in 1..n : A[i] = Apply(A[i - 1], es[i])
        /\ Flushed(R, es) = A[n]
  BY FlushedSteps DEF Flushing
<1> DEFINE G == {i \in 0..n : A[i].life[c] \in Ran}
<1> HIDE DEF n
<1>2. 0 \in G
  BY <1>0, <1>1
<1>3. ASSUME NEW i \in 0..n, i # n, i \in G PROVE i + 1 \in G
  <2>1. i + 1 \in 1..n /\ (i + 1) - 1 = i /\ i + 1 \in 0..n
    BY <1>0, <1>3
  <2>2. A[i + 1] = Apply(A[i], es[i + 1]) /\ A[i] \in Record /\ es[i + 1] \in Event /\ i + 1 \in DOMAIN es
    BY <1>0, <1>1, <2>1
  <2> DEFINE S == A[i]
             e == es[i + 1]
  <2>3. Apply(S, e).life = IF e.type = "life" THEN [x \in Run |-> IF x = e.of THEN e.what ELSE S.life[x]]
                                              ELSE S.life
    <3> HIDE DEF S, e
    <3> QED BY <2>2, ApplyFields DEF S, e
  <2>4. A[i].life[c] \in Ran /\ c \in Run
    BY <1>3, AgentFacts
  <2>5. A[i + 1].life[c] \in Ran
    BY <2>2, <2>3, <2>4
  <2> QED BY <2>1, <2>5
<1> HIDE DEF G
<1>4. \A i \in 0..n : i \in G
  BY <1>0, <1>2, <1>3, AlongArray
<1>5. n \in G
  BY <1>0, <1>4
<1> QED BY <1>1, <1>5 DEF G

LEMMA UntouchedKeen ==
  ASSUME NEW w, NEW v, NEW c, v.record[c] = w.record[c], v.entries[c] = w.entries[c],
         c \in Runs(v.queue) => c \in Runs(w.queue)
  PROVE  Keen(w, v, c)
BY DEF Keen, Underway

(* An event that says nothing of a child's first run and releases no lease *)
(* of the child.                                                           *)
Harmless(e, c) == (e.type = "life" => e.of # c /\ e.what \notin Terminal) /\ e.type # "release"

LEMMA ApplyHarmless ==
  ASSUME NEW R \in Record, NEW e \in Event, NEW c \in Child, Harmless(e, c)
  PROVE  /\ Apply(R, e).life[c] = R.life[c]
         /\ Apply(R, e).last.state \in Terminal => R.last.state \in Terminal
         /\ Apply(R, e).last.state = "none" => R.last.state = "none"
         /\ R.leased => Apply(R, e).leased
         /\ R.resolved \subseteq Apply(R, e).resolved
<1> DEFINE T == Apply(R, e)
<1>1. /\ T.life = IF e.type = "life" THEN [x \in Run |-> IF x = e.of THEN e.what ELSE R.life[x]] ELSE R.life
      /\ T.last = IF e.type = "life" THEN [run |-> e.of, state |-> e.what] ELSE R.last
      /\ T.leased = IF e.type = "lease" THEN TRUE ELSE IF e.type = "release" THEN FALSE ELSE R.leased
      /\ T.resolved = IF e.type = "resolved" THEN R.resolved \cup {<<e.of, e.what>>} ELSE R.resolved
  BY ApplyFields
<1>2. e.type = "life" => e.what # "none"
  BY DEF Event
<1> HIDE DEF T
<1>3. T.life[c] = R.life[c]
  BY <1>1, AgentFacts DEF Harmless
<1>4. /\ T.last.state \in Terminal => R.last.state \in Terminal
      /\ T.last.state = "none" => R.last.state = "none"
  BY <1>1, <1>2 DEF Harmless
<1>5. R.leased => T.leased
  BY <1>1 DEF Harmless
<1>6. R.resolved \subseteq T.resolved
  BY <1>1
<1> QED BY <1>3, <1>4, <1>5, <1>6 DEF T

LEMMA PutHereKeen ==
  ASSUME NEW w \in HostState, NEW v, NEW e \in Event, NEW c \in Child, PutHere(w, v, c, e), Harmless(e, c),
         c \in Runs(v.queue) => c \in Runs(w.queue)
  PROVE  Keen(w, v, c)
<1>0. w.record[c] \in Record /\ w.entries[c] \in Seq(Event) /\ c \in Agent
  BY HostFacts, AgentFacts
<1>1. CASE turn[c] = NoRun
  <2>1. v.record[c] = Apply(w.record[c], e) /\ v.entries[c] = w.entries[c]
    BY <1>1 DEF PutHere
  <2>2. Underway(w, c) => Underway(v, c)
    BY <2>1 DEF Underway
  <2> QED BY <1>0, <2>1, <2>2, ApplyHarmless DEF Keen
<1>2. CASE turn[c] # NoRun
  <2>1. v.record[c] = w.record[c] /\ v.entries[c] = Append(w.entries[c], e)
    BY <1>2 DEF PutHere
  <2>2. Underway(w, c) => Underway(v, c)
    BY <1>0, <2>1 DEF Underway, Harmless
  <2> QED BY <2>1, <2>2 DEF Keen
<1> QED BY <1>1, <1>2

LEMMA PutKeen ==
  ASSUME NEW w \in HostState, NEW v, NEW a \in Agent, NEW e \in Event, PutDone(w, v, a, e), NEW c \in Child,
         a # c \/ Harmless(e, c)
  PROVE  Keen(w, v, c)
<1>1. CASE a # c
  <2>1. v.record[c] = w.record[c] /\ v.entries[c] = w.entries[c] /\ v.queue = w.queue
    BY <1>1, AgentFacts DEF PutDone, Elsewhere
  <2> QED BY <2>1, UntouchedKeen
<1>2. CASE a = c
  <2>1. PutHere(w, v, c, e) /\ v.queue = w.queue
    BY <1>2 DEF PutDone, PutHere
  <2> QED BY <1>2, <2>1, PutHereKeen
<1> QED BY <1>1, <1>2

LEMMA PutLifeKeen ==
  ASSUME NEW w \in HostState, NEW v, NEW a \in Agent, NEW r \in Run \cup {NoRun}, NEW st \in LifeState \ {"none"},
         LifeDone(w, v, a, r, st), NEW c \in Child, a # c \/ (r # c /\ st \notin Terminal)
  PROVE  Keen(w, v, c)
<1>1. CASE v = w
  BY <1>1, KeenFacts
<1>2. CASE PutDone(w, v, a, Life(r, st))
  <2>1. Life(r, st) \in Event /\ (r # c /\ st \notin Terminal => Harmless(Life(r, st), c))
    BY EventType DEF Life, Harmless
  <2> QED BY <1>2, <2>1, PutKeen
<1>3. CASE Beneath(w, v, a, r, st) /\ v.queue = w.queue /\ Elsewhere(w, v, a)
  <2>1. CASE a # c
    <3>1. v.record[c] = w.record[c] /\ v.entries[c] = w.entries[c]
      BY <1>3, <2>1, AgentFacts DEF Elsewhere
    <3> QED BY <1>3, <3>1, UntouchedKeen
  <2>2. CASE a = c /\ r # c /\ st \notin Terminal
    <3>1. Life(r, st) \in Event /\ Harmless(Life(r, st), c) /\ w.record[c] \in Record
      BY <2>2, EventType, HostFacts DEF Life, Harmless
    <3>2. v.record[c] = Apply(w.record[c], Life(r, st)) /\ v.entries = w.entries
      BY <1>3, <2>2 DEF Beneath
    <3>3. Underway(w, c) => Underway(v, c)
      BY <3>2 DEF Underway
    <3> QED BY <1>3, <3>1, <3>2, <3>3, ApplyHarmless DEF Keen
  <2> QED BY <2>1, <2>2
<1> QED BY <1>1, <1>2, <1>3 DEF LifeDone

LEMMA EnqueueKeen ==
  ASSUME NEW w \in HostState, NEW r \in Run, CanEnqueue(w, r), NEW c \in Child, c # r
  PROVE  Keen(w, Enqueue(w, r), c)
<1> DEFINE u == PutLife(w, AgentOf(r), r, "queued")
           v == Enqueue(w, r)
<1>1. AgentOf(r) \in Agent /\ "queued" \in LifeState \ {"none"} /\ "queued" \notin Terminal
  BY AgentFacts DEF LifeState, Terminal
<1>2. u \in HostState /\ LifeDone(w, u, AgentOf(r), r, "queued")
  BY <1>1, PutLifeFacts
<1>3. EnqueueDone(w, v, r)
  BY EnqueueFacts
<1>4. v.record = u.record /\ v.entries = u.entries /\ Runs(v.queue) = Runs(w.queue) \cup {r}
  BY <1>3, EnqueueSilent DEF EnqueueDone
<1> HIDE DEF u, v
<1>5. Keen(w, u, c) /\ u.queue = w.queue
  BY <1>1, <1>2, PutLifeKeen DEF LifeDone
<1>6. Keen(u, v, c)
  BY <1>4, <1>5, UntouchedKeen
<1>7. Keen(w, v, c)
  BY <1>5, <1>6, KeenFacts
<1> QED BY <1>7 DEF v

(* Notes, other than that a lease is released.                             *)
LEMMA NoteKeen ==
  ASSUME NEW w \in HostState, NEW a \in Agent, NEW e \in Event, e.type \notin {"life", "release"}, NEW c \in Child
  PROVE  Put(w, a, e) \in HostState /\ Keen(w, Put(w, a, e), c)
<1>1. Harmless(e, c)
  BY DEF Harmless
<1> QED BY <1>1, PutFacts, PutKeen

LEMMA StartedKeen ==
  ASSUME NEW w \in HostState, NEW m \in FollowUp, NEW c \in Child
  PROVE  Keen(w, Started(w, m), c)
<1>1. Receiver[m] \in Agent /\ Note("started", m) \in Event /\ Note("consumed", {m}) \in Event
  BY AgentFacts, EventType
<1>2. Note("started", m).type = "started" /\ Note("consumed", {m}).type = "consumed"
  BY DEF Note
<1> DEFINE u == Put(w, Receiver[m], Note("started", m))
<1>3. u \in HostState /\ Keen(w, u, c)
  BY <1>1, <1>2, NoteKeen
<1> HIDE DEF u
<1>4. Keen(u, Put(u, Receiver[m], Note("consumed", {m})), c)
  BY <1>1, <1>2, <1>3, NoteKeen
<1> QED BY <1>3, <1>4, KeenFacts DEF Started, u

LEMMA LeaseKeen ==
  ASSUME NEW w \in HostState, NEW x \in Child, NEW c \in Child
  PROVE  /\ Keen(w, Acquire(w, x), c)
         /\ c # x => Keen(w, Release(w, x), c) /\ Keen(w, QueueBlocked(w, x), c)
<1>1. x \in Agent /\ x \in Run /\ Note("lease", x) \in Event /\ Note("release", x) \in Event
  BY AgentFacts, EventType
<1>2. Keen(w, Acquire(w, x), c)
  <2>1. Note("lease", x).type = "lease"
    BY DEF Note
  <2> QED BY <1>1, <2>1, NoteKeen, KeenFacts DEF Acquire
<1>3. c # x => Keen(w, Release(w, x), c)
  BY <1>1, PutFacts, PutKeen, KeenFacts DEF Release
<1>4. ASSUME c # x PROVE Keen(w, QueueBlocked(w, x), c)
  <2>1. Acquire(w, x) \in HostState
    BY LeaseType
  <2>2. CanEnqueue(Acquire(w, x), x) => Keen(Acquire(w, x), Enqueue(Acquire(w, x), x), c)
    BY <1>1, <1>4, <2>1, EnqueueKeen
  <2> QED BY <1>2, <2>2, KeenFacts DEF QueueBlocked
<1> QED BY <1>2, <1>3, <1>4

LEMMA DecideKeen ==
  ASSUME NEW w \in HostState, NEW x \in Child, NEW act \in Choice, NEW c \in Child
  PROVE  Keen(w, Decide(w, x, act), c)
<1> DEFINE v == Decide(w, x, act)
<1>1. v \in HostState /\ DecideDone(w, v, x, act) /\ v.queue = w.queue
  BY DecideType, DecideFacts
<1>2. Resolved(x, act) \in Event /\ Harmless(Resolved(x, act), c) /\ c \in Agent
  BY EventType, AgentFacts DEF Resolved, Harmless
<1> HIDE DEF v
<1>3. PutHere(w, v, c, Resolved(x, act)) \/ Unmoved(w, v, c)
  BY <1>1, <1>2 DEF DecideDone
<1>4. Keen(w, v, c)
  BY <1>1, <1>2, <1>3, PutHereKeen, UntouchedKeen DEF Unmoved
<1> QED BY <1>4 DEF v

(* A child of whom something is said is in no turn but its first.          *)
LEMMA OwnTurn ==
  ASSUME AInv, TurnPhases, NEW c \in Child \ Exempt, turn[c] # NoRun
  PROVE  turn[c] = c /\ phase[c] = "turn"
<1>1. turn[c] \in Run /\ AgentOf(turn[c]) = c /\ c \in Run /\ AgentOf(c) = c
  BY AgentFacts DEF AInv, Small
<1>2. phase[turn[c]] = "turn"
  BY <1>1 DEF TurnPhases
<1>3. turn[c] \notin FollowUp
  BY <1>1, <1>2, AgentFacts DEF Exempt, FollowUpFirst
<1>4. turn[c] = c
  BY <1>1, <1>3 DEF Run, AgentOf
<1> QED BY <1>2, <1>4

(* After the first run's own events the table says what may follow.        *)
LEMMA LegalFirst ==
  ASSUME NEW R \in Record, NEW c \in Child, NEW st, R.life[c] # "none", Legal(R, c, st)
  PROVE  st \in SameRunTransitions[R.life[c]]
<1>1. c # NoRun
  BY AgentFacts
<1> DEFINE prev == [run |-> c, state |-> R.life[c]]
<1>2. prev.run = c /\ prev.state = R.life[c]
  OBVIOUS
<1>3. (CASE c # NoRun /\ prev.run # NoRun /\ c # prev.run ->
              st = "queued" \/ (st = "running" /\ prev.state \in Terminal)
         [] c # NoRun /\ prev.run = NoRun /\ prev.state = "admitted" -> st \in {"queued", "running"}
         [] OTHER -> st \in SameRunTransitions[prev.state])
  BY <1>1 DEF Legal
<1> HIDE DEF prev
<1> QED BY <1>1, <1>2, <1>3

LEMMA RanRefuses ==
  ASSUME NEW R \in Record, NEW c \in Child, NEW st \in {"queued", "running"}, Legal(R, c, st)
  PROVE  R.life[c] = "none" \/ (R.life[c] \notin Ran /\ R.life[c] \notin Terminal)
<1>1. CASE R.life[c] # "none"
  <2>1. st \in SameRunTransitions[R.life[c]] /\ R.life[c] \in LifeState
    BY <1>1, LegalFirst, AgentFacts DEF Record
  <2> QED BY <2>1 DEF SameRunTransitions, Ran, Terminal, LifeState
<1> QED BY <1>1

LEMMA NotAgain ==
  ASSUME AInv, TurnPhases, NEW w \in HostState, NEW c \in Child \ Exempt, Lone(w, c), turn[c] # NoRun
  PROVE  ~CanEnqueue(w, c) /\ w.record[c].life[c] = "running"
<1>0. w.record[c] \in Record /\ w.entries[c] \in Seq(Event) /\ Seen(w, c) \in Record /\ AgentOf(c) = c
  BY HostFacts, AgentFacts
<1>1. w.record[c].life[c] = "running" /\ Underway(w, c)
  BY OwnTurn DEF Lone
<1>2. w.record[c].life[c] \in Ran
  BY <1>1 DEF Ran
<1>3. Seen(w, c).life[c] \in Ran
  BY <1>0, <1>1, <1>2, FlushedRan DEF Seen, Underway
<1>4. "none" \notin Ran
  BY DEF Ran, Terminal
<1>5. ~Legal(w.record[c], c, "queued")
  BY <1>0, <1>2, <1>4, RanRefuses
<1>6. ~Legal(Seen(w, c), c, "queued")
  BY <1>0, <1>3, <1>4, RanRefuses
<1> QED BY <1>0, <1>1, <1>5, <1>6 DEF CanEnqueue, CanPutLife, InTurn

LEMMA EnqueuedLone ==
  ASSUME NEW w \in HostState, NEW c \in Child \ Exempt, CanEnqueue(w, c), turn[c] = NoRun, Lone(w, c),
         Writer(c) => w.record[c].leased
  PROVE  /\ Lone(Enqueue(w, c), c)
         /\ Enqueue(w, c).record[c].resolved = w.record[c].resolved
         /\ Enqueue(w, c).record[c].life[c] = "queued"
<1> DEFINE u == PutLife(w, c, c, "queued")
           v == Enqueue(w, c)
           R == w.record[c]
           T == v.record[c]
<1>0. c \in Agent /\ c \in Run /\ AgentOf(c) = c /\ R \in Record /\ Seen(w, c) = R
  BY HostFacts, AgentFacts
<1>1. "queued" \in LifeState \ {"none"} /\ "queued" \notin Terminal
  BY DEF LifeState, Terminal
<1>2. LifeDone(w, u, c, c, "queued")
  BY <1>0, <1>1, PutLifeFacts
<1>3. v.record = u.record /\ v.entries = u.entries
  BY <1>0, EnqueueFacts DEF EnqueueDone
<1>4. PutDone(w, u, c, Life(c, "queued")) /\ Legal(R, c, "queued")
  BY <1>0, <1>2 DEF LifeDone, Beneath, CanEnqueue
<1>5. T = Apply(R, Life(c, "queued")) /\ v.entries[c] = w.entries[c]
  BY <1>3, <1>4 DEF PutDone
<1> HIDE DEF u, v, T
<1>6. Lived(R, T, c, "queued")
  BY <1>0, <1>1, <1>5, ApplyLived
<1>7. /\ T.leased = R.leased /\ T.resolved = R.resolved /\ T.last.state = "queued" /\ T.life[c] = "queued"
  BY <1>0, <1>6 DEF Lived, SameBut
<1> HIDE DEF R
<1>8. R.life[c] = "none" \/ (R.life[c] \notin Ran /\ R.life[c] \notin Terminal)
  BY <1>0, <1>4, RanRefuses
<1>9. phase[c] = "none"
  BY <1>8 DEF Lone, Ran, Terminal, R
<1>10. Writer(c) => c \notin closed
  BY <1>8, <1>9 DEF Lone, Working, HasLease, R
<1>11. Writer(c) => HasLease(v, c)
  BY <1>1, <1>7, <1>10 DEF HasLease, Exempt, T, R
<1>12. Underway(v, c)
  BY <1>5 DEF Lone, Underway
<1>13. Lone(v, c)
  BY <1>1, <1>7, <1>9, <1>11, <1>12 DEF Lone, T
<1> QED BY <1>7, <1>13 DEF T, v, R

(* Where no owner is found, no known child holds an overlapping lease.     *)
LEMMA NoOwnersAlone ==
  ASSUME AInv, NEW w, NEW Y, Order(w, Y), NEW c \in Child, Owners(w, c) = {}
  PROVE  Alone(w, c, Y)
<1> SUFFICES ASSUME NEW d \in Child \ Y, <<c, d>> \in Overlap, Holds(w, d) PROVE FALSE
  BY DEF Alone
<1>1. Writer(d)
  <2>1. <<d, c>> \in Overlap /\ <<d, c>>[1] = d
    BY CollaborationAssumption
  <2> QED BY <2>1 DEF Writer
<1>2. HasLease(w, d)
  BY <1>1 DEF Order, Lone, Holds
<1>3. d \in ToSet(sessions)
  BY CollaborationAssumption DEF Holds, Known
<1>4. PICK i \in DOMAIN sessions : sessions[i] = d
  BY <1>3 DEF ToSet
<1>5. i \in Owners(w, c)
  BY <1>2, <1>4 DEF Owners
<1> QED BY <1>5

LEMMA QueueBlockedOrder ==
  ASSUME AInv, TurnPhases, NEW Y, Exempt \subseteq Y, NEW w \in HostState, Order(w, Y), NEW c \in Child,
         c \in Y \/ Owners(w, c) = {}
  PROVE  /\ Order(QueueBlocked(w, c), Y)
         /\ c \notin Y => w.record[c].resolved \subseteq QueueBlocked(w, c).record[c].resolved
<1> DEFINE u == Acquire(w, c)
           v == QueueBlocked(w, c)
<1>1. u \in HostState /\ \A d \in Child : Keen(w, u, d)
  BY LeaseType, LeaseKeen
<1>2. \A d \in Child \ (Y \cup {c}) : Keen(w, v, d)
  BY LeaseKeen
<1>3. Order(u, Y)
  BY <1>1, OrderKept
<1>4. CASE c \in Y
  BY <1>2, <1>4, OrderOne
<1>5. CASE c \notin Y /\ ~CanEnqueue(u, c)
  <2>1. v = u
    BY <1>5 DEF QueueBlocked
  <2> QED BY <1>1, <1>3, <1>5, <2>1 DEF Keen
<1>6. CASE c \notin Y /\ CanEnqueue(u, c)
  <2>0. c \in Child \ Exempt /\ v = Enqueue(u, c)
    BY <1>6 DEF QueueBlocked
  <2>1. Lone(u, c)
    BY <1>3, <1>6 DEF Order
  <2> HIDE DEF v
  <2>2. turn[c] = NoRun
    <3> HIDE DEF u
    <3> QED BY <1>1, <1>6, <2>0, <2>1, NotAgain
  <2>3. Writer(c) => u.record[c].leased
    <3> SUFFICES ASSUME Writer(c) PROVE u.record[c].leased
      OBVIOUS
    <3>1. c \in Agent /\ Note("lease", c) \in Event /\ Note("lease", c).type = "lease" /\ w.record[c] \in Record
      BY AgentFacts, EventType, HostFacts DEF Note
    <3>2. u.record[c] = Apply(w.record[c], Note("lease", c))
      BY <2>2, <3>1, PutFacts DEF Acquire, PutDone
    <3> DEFINE R == w.record[c]
               e == Note("lease", c)
    <3> HIDE DEF R, e
    <3>3. Apply(R, e).leased = TRUE
      BY <3>1, ApplyFields DEF R, e
    <3> HIDE DEF u
    <3> QED BY <3>2, <3>3 DEF R, e
  <2>4. Alone(w, c, Y)
    BY <1>6, NoOwnersAlone
  <2> HIDE DEF u
  <2>5. Lone(v, c) /\ v.record[c].resolved = u.record[c].resolved
    BY <1>1, <1>6, <2>0, <2>1, <2>2, <2>3, EnqueuedLone
  <2>6. Order(v, Y)
    BY <1>2, <2>4, <2>5, OrderOne
  <2> QED BY <1>1, <2>5, <2>6 DEF Keen, v
<1> QED BY <1>4, <1>5, <1>6

(* Hosts in which leases are in order.                                     *)
Orderly(Y) == {w \in HostState : Order(w, Y) /\ Rules(w, Y)}

LEMMA OrderlyKept ==
  ASSUME NEW Y, NEW w \in Orderly(Y), NEW v \in HostState, \A d \in Child \ Y : Keen(w, v, d)
  PROVE  v \in Orderly(Y)
BY OrderKept DEF Orderly

LEMMA OrderlyOne ==
  ASSUME NEW Y, NEW w \in Orderly(Y), NEW v \in HostState, NEW c \in Child, Order(v, Y),
         \A d \in Child \ (Y \cup {c}) : Keen(w, v, d), c \in Y \/ Ruled(v, c)
  PROVE  v \in Orderly(Y)
BY KeenLone DEF Orderly, Rules

LEMMA ResumeOneOrder ==
  ASSUME AInv, TurnPhases, NEW Y, Exempt \subseteq Y, NEW w \in Orderly(Y), NEW c \in Child, NEW o \in Child
  PROVE  ResumeOne(w, c, o) \in Orderly(Y)
<1>1. w \in HostState /\ Order(w, Y)
  BY DEF Orderly
<1>2. CASE ~(Waits(w.record[c], c, o) /\ Free(w, c))
  BY <1>2 DEF ResumeOne
<1>3. CASE Waits(w.record[c], c, o) /\ Free(w, c)
  <2> DEFINE v == QueueBlocked(w, c)
  <2>1. c \in Y \/ Owners(w, c) = {}
    BY <1>3 DEF Free, Exempt
  <2>2. Order(v, Y) /\ (c \notin Y => w.record[c].resolved \subseteq v.record[c].resolved)
    BY <1>1, <2>1, QueueBlockedOrder
  <2>3. c \notin Y => Decided(v.record[c], c)
    <3>1. <<c, "serialize">> \in w.record[c].resolved /\ <<c, "serialize">>[1] = c
      BY <1>3 DEF Waits
    <3> HIDE DEF v
    <3> QED BY <2>2, <3>1 DEF Decided
  <2>4. v \in HostState /\ \A d \in Child \ (Y \cup {c}) : Keen(w, v, d)
    BY <1>1, LeaseType, LeaseKeen
  <2>5. v \in Orderly(Y)
    <3> HIDE DEF v
    <3> QED BY <2>2, <2>3, <2>4, OrderlyOne DEF Ruled
  <2> QED BY <1>3, <2>5 DEF ResumeOne
<1> QED BY <1>2, <1>3

(* A lease is released when its child's first run is over.                 *)
LEMMA ReleaseOrder ==
  ASSUME NEW Y, NEW w \in Orderly(Y), NEW c \in Child, c \in Y \/ ~Working(w, c)
  PROVE  Release(w, c) \in Orderly(Y)
<1> DEFINE v == Release(w, c)
           e == Note("release", c)
<1>1. w \in HostState /\ v \in HostState /\ \A d \in Child \ (Y \cup {c}) : Keen(w, v, d)
  BY LeaseType, LeaseKeen DEF Orderly
<1>2. CASE ~w.record[c].leased
  BY <1>2 DEF Release
<1>3. CASE w.record[c].leased
  <2>0. c \in Agent /\ e \in Event /\ e.type = "release" /\ w.record[c] \in Record /\ w.entries[c] \in Seq(Event)
    BY ZenonT(60), <1>1, AgentFacts, EventType, HostFacts DEF Note
  <2>1. PutDone(w, v, c, e)
    BY <1>1, <1>3, <2>0, PutFacts DEF Release
  <2> HIDE DEF v, e
  <2>2. /\ Apply(w.record[c], e).life = w.record[c].life /\ Apply(w.record[c], e).last = w.record[c].last
        /\ Apply(w.record[c], e).resolved = w.record[c].resolved
    BY <2>0, ApplyFields
  <2>3. v.record[c].life = w.record[c].life /\ v.record[c].last = w.record[c].last
        /\ v.record[c].resolved = w.record[c].resolved
    BY <2>1, <2>2 DEF PutDone
  <2>4. Underway(w, c) => Underway(v, c)
    <3>1. v.entries[c] = w.entries[c] \/ v.entries[c] = Append(w.entries[c], e)
      BY <2>1 DEF PutDone
    <3>2. v.entries[c] = w.entries[c] => (Underway(w, c) => Underway(v, c))
      BY DEF Underway
    <3>3. ASSUME v.entries[c] = Append(w.entries[c], e), Underway(w, c) PROVE Underway(v, c)
      BY <2>0, <3>3 DEF Underway
    <3> QED BY <3>1, <3>2, <3>3
  <2>5. Working(v, c) = Working(w, c)
    BY <2>3 DEF Working
  <2>6. c \in Y \/ (Lone(v, c) /\ ~Holds(v, c) /\ Ruled(v, c))
    <3>1. c \in Y \/ Lone(w, c)
      BY DEF Orderly, Order
    <3> QED BY <2>1, <2>3, <2>4, <2>5, <3>1 DEF Lone, Ruled, Holds, PutDone
  <2>7. Order(v, Y)
    BY <1>1, <2>6, OrderOne DEF Orderly
  <2>8. v \in Orderly(Y)
    BY <1>1, <2>6, <2>7, OrderlyOne
  <2> QED BY <2>8 DEF v
<1> QED BY <1>2, <1>3

LEMMA CompleteOrder ==
  ASSUME AInv, TurnPhases, NEW Y, Exempt \subseteq Y, NEW w \in Orderly(Y), NEW r \in Run, NEW st \in Terminal,
         AgentOf(r) \in Y \/ ~Working(w, AgentOf(r))
  PROVE  Complete(w, r, st) \in Orderly(Y)
<1> DEFINE c == AgentOf(r)
           u == Release(w, c)
           v == Resume(u, c)
<1>0. c \in Child /\ sessions \in Seq(Child) /\ ParentOf[c] \in Agent /\ Completion(r, st) \in Event
  BY AgentFacts, EventType DEF AInv, Listed
<1>1. u \in Orderly(Y)
  BY <1>0, ReleaseOrder
<1> HIDE DEF u
<1>2. v \in Orderly(Y)
  <2>1. \A x \in Orderly(Y), d \in Child : ResumeOne(x, d, c) \in Orderly(Y)
    BY <1>0, ResumeOneOrder
  <2> DEFINE G == Orderly(Y)
  <2> HIDE DEF G, c
  <2>2. \A x \in G, d \in Child : ResumeOne(x, d, c) \in G
    BY <2>1 DEF G
  <2>3. u \in G
    BY <1>1 DEF G
  <2>4. Resume(u, c) \in G
    BY <1>0, <2>2, <2>3, ResumeInduction
  <2> QED BY <2>4 DEF G
<1> HIDE DEF v
<1>3. Put(v, ParentOf[c], Completion(r, st)) \in Orderly(Y)
  <2>1. Completion(r, st).type = "completion" /\ v \in HostState
    BY <1>2 DEF Completion, Orderly
  <2>2. /\ Put(v, ParentOf[c], Completion(r, st)) \in HostState
        /\ \A d \in Child : Keen(v, Put(v, ParentOf[c], Completion(r, st)), d)
    BY <1>0, <2>1, NoteKeen
  <2> QED BY <1>2, <2>2, OrderlyKept
<1> QED BY <1>2, <1>3 DEF Complete, u, v

LEMMA StoppedOrder ==
  ASSUME AInv, TurnPhases, NEW Y, Exempt \subseteq Y, NEW w \in Orderly(Y), NEW d \in Child, d \in Y
  PROVE  Stopped(w, d) \in Orderly(Y)
<1> DEFINE r == CurrentRun(d)
           u == PutLife(w, d, r, "interrupted")
<1>1. d \in Agent /\ r \in Run \cup {NoRun} /\ (r # NoRun => r \in Run /\ AgentOf(r) = d) /\ w \in HostState
  BY CurrentRunFacts, AgentFacts DEF AInv, Orderly
<1>2. "interrupted" \in LifeState \ {"none"} /\ "interrupted" \in Terminal
  BY DEF LifeState, Terminal
<1> HIDE DEF r
<1>3. u \in HostState /\ LifeDone(w, u, d, r, "interrupted")
  BY <1>1, <1>2, PutLifeFacts
<1> HIDE DEF u
<1>4. \A c \in Child \ Y : Keen(w, u, c)
  BY <1>1, <1>2, <1>3, PutLifeKeen
<1>5. u \in Orderly(Y)
  BY <1>3, <1>4, OrderlyKept
<1>6. r # NoRun => Complete(u, r, "interrupted") \in Orderly(Y)
  BY <1>1, <1>2, <1>5, CompleteOrder
<1> QED BY <1>5, <1>6 DEF Stopped, u, r

LEMMA StopEachOrder ==
  ASSUME AInv, TurnPhases, NEW Y, Exempt \subseteq Y, NEW ts \in Seq(Child), NEW go, go \subseteq Y,
         NEW w \in Orderly(Y)
  PROVE  StopEach(w, ts, go) \in Orderly(Y)
<1>1. \A v \in Orderly(Y), d \in Child : StopOne(v, d, go) \in Orderly(Y)
  BY StoppedOrder DEF StopOne
<1> DEFINE G == Orderly(Y)
<1>2. w \in G /\ \A v \in G, d \in Child : StopOne(v, d, go) \in G
  BY <1>1
<1> HIDE DEF G
<1>3. StopEach(w, ts, go) \in G
  BY <1>2, StopInduction
<1> QED BY <1>3 DEF G

(* What a handler makes of the host is in order, so it is after the step.  *)
SameWork(c) ==
  phase'[c] = phase[c] \/ {phase[c], phase'[c]} \cap {"none", "claimed", "turn"} = {}

LEMMA LeaseKept ==
  ASSUME AInv, NEW v, Order(v, Exempt'), Rules(v, Exempt'), Write(v),
         conflict' = conflict, closed' = closed, ToSet(sessions') \subseteq ToSet(sessions),
         \A c \in Child : SameWork(c),
         \A c \in Child : InQueue(c)' => c \in Runs(v.queue) \/ InQueue(c)
  PROVE  Order(host, Exempt)' /\ Rules(host, Exempt)'
<1> DEFINE Y == Exempt'
<1>0. host'.record = v.record /\ host'.entries = v.entries /\ host'.queue = queue'
  BY DEF host, Write
<1>1. ASSUME NEW c \in Child \ Y
      PROVE  /\ Lone(host, c)' /\ Ruled(host, c)' /\ (Holds(host, c)' => Holds(v, c))
  <2>1. Lone(v, c) /\ Ruled(v, c) /\ SameWork(c)
    BY DEF Order, Rules
  <2>2. c \notin apart'
    BY DEF Exempt
  <2>3. Working(host, c)' = Working(v, c)
    BY <1>0, <2>1 DEF SameWork, Working
  <2>4. HasLease(v, c) => HasLease(host, c)'
    BY <1>0, <2>2 DEF HasLease
  <2>5. InQueue(c)' => InQueue(c) \/ c \in Runs(v.queue)
    OBVIOUS
  <2>6. c \in Runs(host.queue)' => InQueue(c)'
    BY <1>0 DEF InQueue
  <2>7. Underway(host, c)'
    BY <1>0, <2>1 DEF Lone, Underway
  <2>8. Lone(host, c)'
    <3>1. (Writer(c) /\ Working(host, c) => HasLease(host, c))'
      BY <2>1, <2>3, <2>4 DEF Lone, Writer
    <3>2. /\ (host.record[c].last.state \in Terminal \/ c \in closed => host.record[c].life[c] # "none")'
          /\ (host.record[c].last.state = "none" => host.record[c].life[c] = "none" /\ conflict[c] = NoRun)'
      BY <1>0, <2>1 DEF Lone
    <3>3. /\ (phase[c] # "none" => host.record[c].life[c] \in Ran)'
          /\ (phase[c] \in {"claimed", "turn"} => host.record[c].life[c] = "running")'
      BY <1>0, <2>1 DEF Lone, SameWork
    <3>4. (InQueue(c) \/ c \in Runs(host.queue) => host.record[c].life[c] # "none")'
      BY <1>0, <2>1, <2>5, <2>6 DEF Lone
    <3> QED BY <2>7, <3>1, <3>2, <3>3, <3>4 DEF Lone
  <2>9. Ruled(host, c)'
    BY <1>0, <2>1, <2>3 DEF Ruled, Decided
  <2>10. Holds(host, c)' => Holds(v, c)
    BY <2>3 DEF Holds, Known
  <2> QED BY <2>8, <2>9, <2>10
<1>2. Pairs(host, Exempt)'
  BY <1>1 DEF Pairs, Alone, Order
<1> QED BY <1>1, <1>2 DEF Order, Rules

(* A step that concerns one child.                                         *)
Aside(d) ==
  /\ record'[d] = record[d] /\ entries'[d] = entries[d] /\ phase'[d] = phase[d] /\ conflict'[d] = conflict[d]
  /\ (d \in closed' <=> d \in closed) /\ (InQueue(d)' => InQueue(d)) /\ (Known(d)' => Known(d))

LEMMA LeaseOne ==
  ASSUME AInv, Order(host, Exempt), Rules(host, Exempt), Exempt \subseteq Exempt', NEW c \in Child,
         \A d \in Child \ {c} : Aside(d),
         c \in Exempt' \/ (Lone(host, c)' /\ Ruled(host, c)' /\ (Holds(host, c)' => Alone(host, c, Exempt)))
  PROVE  Order(host, Exempt)' /\ Rules(host, Exempt)'
<1>0. /\ host'.record = record' /\ host'.entries = entries' /\ host'.queue = queue'
      /\ host.record = record /\ host.entries = entries /\ host.queue = queue
  BY DEF host
<1>1. ASSUME NEW d \in Child \ Exempt', d # c
      PROVE  /\ Lone(host, d)' /\ Ruled(host, d)' /\ (Holds(host, d)' => Holds(host, d))
  <2>1. Lone(host, d) /\ Ruled(host, d) /\ Aside(d)
    BY <1>1 DEF Order, Rules
  <2>2. d \notin apart'
    BY DEF Exempt
  <2>3. Working(host, d)' = Working(host, d)
    BY <1>0, <2>1 DEF Aside, Working
  <2>4. HasLease(host, d) => HasLease(host, d)'
    BY <1>0, <2>1, <2>2 DEF HasLease, Aside
  <2>5. (InQueue(d) \/ d \in Runs(host.queue))' => InQueue(d)
    BY <1>0, <2>1 DEF Aside, InQueue
  <2>6. (Writer(d) /\ Working(host, d) => HasLease(host, d))'
    BY <2>1, <2>3, <2>4 DEF Lone, Writer
  <2>7. /\ (host.record[d].last.state \in Terminal \/ d \in closed => host.record[d].life[d] # "none")'
        /\ (host.record[d].last.state = "none" => host.record[d].life[d] = "none" /\ conflict[d] = NoRun)'
        /\ (phase[d] # "none" => host.record[d].life[d] \in Ran)'
        /\ (phase[d] \in {"claimed", "turn"} => host.record[d].life[d] = "running")'
    BY <1>0, <2>1 DEF Lone, Aside
  <2>8. (InQueue(d) \/ d \in Runs(host.queue) => host.record[d].life[d] # "none")'
    BY <1>0, <2>1, <2>5 DEF Lone, Aside
  <2>9. Underway(host, d)'
    BY <1>0, <2>1 DEF Lone, Underway, Aside
  <2>10. Lone(host, d)'
    BY <2>6, <2>7, <2>8, <2>9 DEF Lone
  <2>11. Ruled(host, d)'
    BY <1>0, <2>1, <2>3 DEF Ruled, Decided, Aside
  <2>12. Holds(host, d)' => Holds(host, d)
    BY <2>1, <2>3 DEF Holds, Aside
  <2> QED BY <2>10, <2>11, <2>12
<1>2. ASSUME NEW d \in Child \ Exempt', Holds(host, d)', NEW e \in Child \ Exempt', <<d, e>> \in Overlap,
             Holds(host, e)'
      PROVE  FALSE
  <2>1. d # e /\ <<e, d>> \in Overlap /\ d \notin Exempt /\ e \notin Exempt
    BY <1>2, CollaborationAssumption
  <2>2. CASE d = c
    <3>1. Alone(host, c, Exempt) /\ Holds(host, e)
      BY <1>1, <1>2, <2>1, <2>2
    <3> QED BY <1>2, <2>1, <2>2, <3>1 DEF Alone
  <2>3. CASE e = c
    <3>1. Alone(host, c, Exempt) /\ Holds(host, d)
      BY <1>1, <1>2, <2>1, <2>3
    <3> QED BY <1>2, <2>1, <2>3, <3>1 DEF Alone
  <2>4. CASE d # c /\ e # c
    <3>1. Holds(host, d) /\ Holds(host, e)
      BY <1>1, <1>2, <2>4
    <3> QED BY <1>2, <2>1, <3>1 DEF Order, Pairs, Alone
  <2> QED BY <2>2, <2>3, <2>4
<1>3. Pairs(host, Exempt)'
  <2> SUFFICES ASSUME NEW d \in Child \ Exempt', Holds(host, d)', NEW e \in Child \ Exempt',
                      <<d, e>> \in Overlap, Holds(host, e)'
               PROVE  FALSE
    BY DEF Pairs, Alone
  <2> QED BY <1>2
<1>4. \A d \in Child \ Exempt' : Lone(host, d)' /\ Ruled(host, d)'
  BY <1>1
<1>5. Order(host, Exempt)'
  BY <1>3, <1>4 DEF Order
<1>6. Rules(host, Exempt)'
  BY <1>4 DEF Rules
<1> QED BY <1>5, <1>6

LEMMA HostOrderly ==
  ASSUME AInv, LeaseInv, NEW Y, Exempt \subseteq Y
  PROVE  host \in Orderly(Y)
BY HostType, OrderMore DEF LeaseInv, Orderly

LEMMA ExemptStays ==
  ASSUME AInv, apart' = apart, waived \subseteq waived', phase' = phase
  PROVE  Exempt \subseteq Exempt' /\ \A c \in Child : SameWork(c)
BY DEF Exempt, FollowUpFirst, SameWork

(* A handler that changes neither turns nor phases.                        *)
LEMMA LeaseHandler ==
  ASSUME AInv, LeaseInv, NEW v \in Orderly(Exempt'), Write(v), turn' = turn, phase' = phase, conflict' = conflict,
         closed' = closed, ToSet(sessions') \subseteq ToSet(sessions),
         NEW Q, Arrays(Q), \A c \in Child : c \in Q => c \in Runs(v.queue) \/ InQueue(c)
  PROVE  LeaseInv'
<1>1. Order(v, Exempt') /\ Rules(v, Exempt')
  BY DEF Orderly
<1>2. \A c \in Child : SameWork(c)
  BY DEF SameWork
<1>3. \A c \in Child : InQueue(c)' => c \in Runs(v.queue) \/ InQueue(c)
  BY ArraysFacts
<1>4. Order(host, Exempt)' /\ Rules(host, Exempt)'
  BY <1>1, <1>2, <1>3, LeaseKept
<1>5. TurnPhases'
  BY DEF LeaseInv, TurnPhases, AgentOf
<1> QED BY <1>4, <1>5 DEF LeaseInv

LEMMA QueuedHere ==
  ASSUME NEW c, c \in Runs(queue) PROVE InQueue(c)
BY DEF InQueue

LEMMA NoteOrderly ==
  ASSUME NEW Y, NEW w \in Orderly(Y), NEW a \in Agent, NEW e \in Event, e.type \notin {"life", "release"}
  PROVE  Put(w, a, e) \in Orderly(Y)
<1>1. w \in HostState
  BY DEF Orderly
<1>2. Put(w, a, e) \in HostState
  BY <1>1, PutFacts
<1>3. ASSUME NEW c \in Child PROVE Keen(w, Put(w, a, e), c)
  BY <1>1, NoteKeen
<1> QED BY <1>2, <1>3, OrderlyKept

LEMMA MessageLease ==
  ASSUME AInv, LeaseInv
  PROVE  /\ \A n \in Mail : Send(n) => LeaseInv'
         /\ \A n \in Mail : Ack(n) => LeaseInv'
         /\ \A a \in Agent : Consume(a) => LeaseInv'
<1> DEFINE Q == Runs(queue)
<1>0. \A c \in Child : c \in Q => InQueue(c)
  BY QueuedHere
<1>1. ASSUME NEW n \in Mail, Send(n) PROVE LeaseInv'
  <2> DEFINE a == Receiver[n]
             e == Note("mail", n)
             v == Put(host, a, e)
  <2>1. a \in Agent /\ e \in Event /\ e.type = "mail"
    BY AgentFacts, EventType DEF Note
  <2>2. Write(v) /\ UNCHANGED <<agents, waived>>
    BY <1>1 DEF Send
  <2>3. (Waiting /\ Wake(queue)) \/ UNCHANGED <<queue, sessions, held>>
    BY <1>1 DEF Send, Wakes
  <2>4. Arrays(Q)
    BY <2>3 DEF Arrays
  <2>5. ToSet(sessions') \subseteq ToSet(sessions)
    BY <2>3, HeldWake DEF AInv, Narrowed
  <2>6. host \in Orderly(Exempt')
    BY <2>2, ExemptStays, HostOrderly DEF agents
  <2> HIDE DEF a, e
  <2>8. v \in Orderly(Exempt')
    BY <2>1, <2>6, NoteOrderly
  <2> HIDE DEF v, Q
  <2> QED BY <1>0, <2>2, <2>4, <2>5, <2>8, LeaseHandler DEF agents
<1>2. ASSUME NEW n \in Mail, Ack(n) PROVE LeaseInv'
  <2> DEFINE a == Receiver[n]
             e == Note("acked", n)
             v == Put(host, a, e)
  <2>1. a \in Agent /\ e \in Event /\ e.type = "acked"
    BY AgentFacts, EventType DEF Note
  <2>2. Write(v) /\ UNCHANGED <<queue, sessions, held, agents, waived>>
    BY <1>2 DEF Ack
  <2>3. Arrays(Q)
    BY <2>2 DEF Arrays
  <2>6. host \in Orderly(Exempt')
    BY <2>2, ExemptStays, HostOrderly DEF agents
  <2> HIDE DEF a, e
  <2>8. v \in Orderly(Exempt')
    BY <2>1, <2>6, NoteOrderly
  <2> HIDE DEF v, Q
  <2> QED BY <1>0, <2>2, <2>3, <2>8, LeaseHandler DEF agents
<1>3. ASSUME NEW a \in Agent, Consume(a) PROVE LeaseInv'
  <2> DEFINE d == Note("consumed", Unread(a))
             e == Note("read", record[a].unread)
             u == Put(host, a, d)
             v == Put(u, a, e)
  <2>1. d \in Event /\ e \in Event /\ d.type = "consumed" /\ e.type = "read"
    BY EventType DEF AInv, Filed, Unread, Record, Note
  <2>2. Write(v) /\ UNCHANGED <<queue, sessions, held, agents, waived>>
    BY <1>3 DEF Consume
  <2>3. Arrays(Q)
    BY <2>2 DEF Arrays
  <2>6. host \in Orderly(Exempt')
    BY <2>2, ExemptStays, HostOrderly DEF agents
  <2> HIDE DEF d, e
  <2>7. u \in Orderly(Exempt')
    BY <2>1, <2>6, NoteOrderly
  <2> HIDE DEF u
  <2>9. v \in Orderly(Exempt')
    BY <2>1, <2>7, NoteOrderly
  <2> HIDE DEF v, Q
  <2> QED BY <1>0, <2>2, <2>3, <2>9, LeaseHandler DEF agents
<1> QED BY <1>1, <1>2, <1>3

(* A follow-up that is enqueued says nothing of the first run.             *)
LEMMA FollowUpKeen ==
  ASSUME NEW w \in HostState, NEW m \in FollowUp, CanEnqueue(w, m)
  PROVE  /\ Started(Enqueue(w, m), m) \in HostState
         /\ \A c \in Child : Keen(w, Started(Enqueue(w, m), m), c)
<1> DEFINE u == Enqueue(w, m)
           v == Started(u, m)
<1>1. m \in Run /\ \A c \in Child : c # m
  BY AgentFacts
<1>2. u \in HostState /\ \A c \in Child : Keen(w, u, c)
  BY <1>1, EnqueueSilent, EnqueueKeen
<1> HIDE DEF u
<1>3. v \in HostState /\ \A c \in Child : Keen(u, v, c)
  BY <1>2, StartedType, StartedKeen
<1> QED BY <1>2, <1>3, KeenFacts DEF u

LEMMA SendFollowUpLease ==
  ASSUME AInv, LeaseInv, NEW m \in Mail, SendFollowUp(m)
  PROVE  LeaseInv'
<1>1. PICK v \in HostState : Given(m, v) /\ Write(v)
  BY SendFollowUpMade
<1>2. m \in FollowUp /\ Mailed(m) \in HostState /\ UNCHANGED <<sessions, agents, waived>>
  BY SendFollowUpMade DEF SendFollowUp
<1>3. \A c \in Child : Keen(host, Mailed(m), c)
  <2>1. Receiver[m] \in Agent /\ Note("mail", m) \in Event /\ Note("mail", m).type = "mail"
    BY AgentFacts, EventType DEF Note
  <2> QED BY <2>1, HostType, NoteKeen DEF Mailed
<1>4. \A c \in Child : Keen(Mailed(m), v, c)
  BY <1>1, <1>2, StartedKeen, FollowUpKeen, KeenFacts DEF Given
<1>5. v \in Orderly(Exempt')
  <2>1. host \in Orderly(Exempt')
    BY <1>2, ExemptStays, HostOrderly DEF agents
  <2> QED BY <1>2, <1>3, <1>4, <2>1, OrderlyKept
<1> DEFINE Q == Runs(queue) \cup Runs(v.queue)
<1>6. Arrays(Q)
  BY <1>1 DEF Given, Arrays
<1>7. \A c \in Child : c \in Q => c \in Runs(v.queue) \/ InQueue(c)
  BY QueuedHere
<1> HIDE DEF Q
<1> QED BY <1>1, <1>2, <1>5, <1>6, <1>7, LeaseHandler DEF agents

(* Before its conflict is decided a child has not begun.                   *)
LEMMA UndecidedIdle ==
  ASSUME AInv, LeaseInv, NEW c \in Child \ Exempt, Undecided(c)
  PROVE  ~Working(host, c) /\ turn[c] = NoRun
<1>1. Lone(host, c) /\ Ruled(host, c) /\ TurnPhases /\ c \in Agent
  BY AgentFacts DEF LeaseInv, Order, Rules
<1>2. conflict[c] # NoRun /\ ~Decided(record[c], c) /\ host.record = record
  BY <1>1, HostType DEF Undecided
<1>3. ~Working(host, c)
  BY <1>1, <1>2 DEF Ruled
<1>4. ASSUME turn[c] # NoRun PROVE FALSE
  <2>1. phase[c] = "turn"
    BY <1>1, <1>4, OwnTurn
  <2>2. host.record[c].life[c] = "running"
    BY <1>1, <2>1 DEF Lone
  <2> QED BY <1>3, <2>1, <2>2 DEF Working, Terminal
<1> QED BY <1>3, <1>4

LEMMA DecideOrderly ==
  ASSUME NEW Y, NEW w \in Orderly(Y), NEW c \in Child, NEW act \in Choice
  PROVE  Decide(w, c, act) \in Orderly(Y)
BY DecideType, DecideKeen, OrderlyKept DEF Orderly

LEMMA CancellingOrder ==
  ASSUME AInv, LeaseInv, NEW c \in Child, Undecided(c)
  PROVE  /\ Cancelling(c) \in Orderly(Exempt)
         /\ c \in Exempt \/ ~Working(Cancelling(c), c)
<1> DEFINE u == Decide(host, c, "cancel")
           w == PutLife(u, c, c, "cancelled")
<1>0. /\ c \in Agent /\ c \in Run \cup {NoRun} /\ c \in Run /\ "cancelled" \in LifeState \ {"none"}
      /\ "cancelled" \in Terminal /\ "cancel" \in Choice /\ "none" \notin Terminal
  BY AgentFacts DEF LifeState, Terminal, Choice
<1>1. u \in Orderly(Exempt) /\ u \in HostState /\ Keen(host, u, c)
  BY <1>0, HostOrderly, DecideOrderly, DecideType, DecideKeen, HostType
<1> HIDE DEF u
<1>2. w \in HostState /\ LifeDone(u, w, c, c, "cancelled")
  BY <1>0, <1>1, PutLifeFacts
<1> HIDE DEF w
<1>3. \A d \in Child \ (Exempt \cup {c}) : Keen(u, w, d)
  BY <1>0, <1>1, <1>2, PutLifeKeen
<1>4. c \in Exempt \/ (Lone(w, c) /\ ~Working(w, c))
  <2> SUFFICES ASSUME c \notin Exempt PROVE Lone(w, c) /\ ~Working(w, c)
    OBVIOUS
  <2>1. ~Working(u, c) /\ turn[c] = NoRun /\ Lone(u, c)
    BY <1>1, UndecidedIdle, KeenLone DEF Orderly, Order
  <2>2. CASE w = u
    BY <2>1, <2>2
  <2>3. CASE PutDone(u, w, c, Life(c, "cancelled"))
    <3> DEFINE R == u.record[c]
               T == w.record[c]
    <3>1. T = Apply(R, Life(c, "cancelled")) /\ w.entries[c] = u.entries[c] /\ R \in Record
      BY <1>0, <1>1, <2>1, <2>3, HostFacts DEF PutDone
    <3>2. Lived(R, T, c, "cancelled")
      <4> HIDE DEF R, T
      <4> QED BY <1>0, <3>1, ApplyLived
    <3>3. T.life[c] = "cancelled" /\ T.last.state = "cancelled"
      <4> HIDE DEF R, T
      <4> QED BY <1>0, <3>2 DEF Lived
    <3>4. ~Working(w, c)
      BY <1>0, <3>3 DEF Working
    <3>5. phase[c] \notin {"claimed", "turn"}
      BY <2>1 DEF Lone, Working, Terminal
    <3>6. Underway(w, c)
      BY <2>1, <3>1 DEF Lone, Underway
    <3> QED BY <1>0, <3>3, <3>4, <3>5, <3>6 DEF Lone, Ran
  <2> QED BY <1>2, <2>1, <2>2, <2>3 DEF LifeDone, Beneath
<1>5. Order(w, Exempt)
  BY <1>1, <1>3, <1>4, OrderOne DEF Orderly, Holds
<1>6. w \in Orderly(Exempt)
  BY <1>1, <1>2, <1>3, <1>4, <1>5, OrderlyOne DEF Ruled
<1> QED BY <1>4, <1>6 DEF Cancelling, w, u

LEMMA InterruptLease ==
  ASSUME AInv, LeaseInv, NEW c \in Child, Interrupt(c)
  PROVE  LeaseInv'
<1>1. PICK ts \in {<<c>>} \cup SetToSeqs(Targets(c)) : Stop(ts)
  BY DEF Interrupt
<1>2. ts \in Seq(Child)
  BY TargetsType
<1>3. PICK v \in HostState : StopDone(ts, v)
  BY <1>1, <1>2, StopMade
<1> DEFINE go == Reached(ts)
           w == Cutted(go)
           Q == Runs(queue) \cup Runs(v.queue)
<1>4. /\ v = StopEach(w, ts, go) /\ Write(v) /\ waived' = waived \cup go /\ UNCHANGED <<sessions, agents>>
      /\ (queue' = v.queue /\ held' = NoWait) \/ Commit(Cut(go), v.queue)
  BY <1>3 DEF StopDone
<1>5. go \subseteq Child
  BY <1>1, <1>2, StopMade
<1>6. /\ w \in HostState /\ w.record = record /\ w.entries = entries /\ Runs(w.queue) = Runs(queue)
      /\ Runs(Cut(go)) = Runs(queue)
  BY CutType
<1> HIDE DEF go, w
<1>7. Exempt \subseteq Exempt' /\ go \subseteq Exempt'
  <2>1. phase' = phase /\ apart' = apart
    BY <1>4 DEF agents
  <2>2. Exempt \subseteq Exempt'
    BY <1>4, <2>1, ExemptStays
  <2>3. go \subseteq Exempt'
    BY <1>4, <1>5 DEF Exempt
  <2> QED BY <2>2, <2>3
<1>8. w \in Orderly(Exempt')
  <2>1. host \in Orderly(Exempt') /\ host.record = record /\ host.entries = entries /\ host.queue = queue
    BY <1>7, HostOrderly, HostType
  <2>2. \A d \in Child : Keen(host, w, d)
    BY <1>6, <2>1, UntouchedKeen
  <2> QED BY <1>6, <2>1, <2>2, OrderlyKept
<1>9. v \in Orderly(Exempt')
  BY <1>2, <1>4, <1>7, <1>8, StopEachOrder DEF LeaseInv
<1>10. Arrays(Q)
  BY <1>4, <1>6 DEF Arrays
<1>11. \A d \in Child : d \in Q => d \in Runs(v.queue) \/ InQueue(d)
  BY QueuedHere
<1> HIDE DEF Q
<1> QED BY <1>4, <1>9, <1>10, <1>11, LeaseHandler DEF agents

LEMMA SerializeLease ==
  ASSUME AInv, LeaseInv, NEW c \in Child, Serialize(c)
  PROVE  LeaseInv'
<1> DEFINE v == Decide(host, c, "serialize")
           Q == Runs(queue)
<1>1. Write(v) /\ UNCHANGED <<queue, sessions, held, agents, waived>>
  BY DEF Serialize
<1>2. host \in Orderly(Exempt') /\ "serialize" \in Choice
  BY <1>1, ExemptStays, HostOrderly DEF agents, Choice
<1>3. v \in Orderly(Exempt')
  BY <1>2, DecideOrderly
<1> HIDE DEF v
<1>4. Arrays(Q) /\ \A d \in Child : d \in Q => InQueue(d)
  BY <1>1, QueuedHere DEF Arrays
<1> HIDE DEF Q
<1> QED BY <1>1, <1>3, <1>4, LeaseHandler DEF agents

LEMMA CancelLease ==
  ASSUME AInv, LeaseInv, NEW c \in Child, CancelBlocked(c)
  PROVE  LeaseInv'
<1> DEFINE v == Complete(Cancelling(c), c, "cancelled")
           Q == Runs(queue) \cup Runs(v.queue)
<1>1. Undecided(c) /\ Write(v) /\ UNCHANGED <<sessions, agents, waived>>
  BY CancelMade DEF CancelBlocked
<1>2. (queue' = v.queue /\ held' = NoWait) \/ Commit(queue, v.queue)
  BY DEF CancelBlocked, Cancelling
<1>3. Exempt' = Exempt
  BY <1>1 DEF Exempt, FollowUpFirst, agents
<1>4. c \in Run /\ AgentOf(c) = c /\ "cancelled" \in Terminal /\ TurnPhases
  BY AgentFacts DEF Terminal, LeaseInv
<1>5. v \in Orderly(Exempt)
  BY <1>1, <1>4, CancellingOrder, CompleteOrder
<1> HIDE DEF v
<1>6. Arrays(Q)
  BY <1>2 DEF Arrays
<1>7. \A d \in Child : d \in Q => d \in Runs(v.queue) \/ InQueue(d)
  BY QueuedHere
<1> HIDE DEF Q
<1>8. v \in Orderly(Exempt')
  BY <1>3, <1>5
<1> QED BY <1>1, <1>6, <1>7, <1>8, LeaseHandler DEF agents

LEMMA MoveApartLease ==
  ASSUME AInv, LeaseInv, NEW c \in Child, MoveApart(c)
  PROVE  LeaseInv'
<1>1. PICK v \in HostState : MoveCases(host, c, "apart", v) /\ Write(v)
  BY MoveApartMade
<1>2. apart' = apart \cup {c} /\ UNCHANGED <<sessions, turn, phase, conflict, closed, waived>>
  BY DEF MoveApart
<1>3. Exempt \subseteq Exempt' /\ c \in Exempt'
  BY <1>2 DEF Exempt, FollowUpFirst
<1>4. host \in Orderly(Exempt') /\ "apart" \in Choice
  BY <1>3, HostOrderly DEF Choice
<1>5. \A d \in Child \ Exempt' : Keen(host, v, d)
  <2> SUFFICES ASSUME NEW d \in Child \ Exempt' PROVE Keen(host, v, d)
    OBVIOUS
  <2>1. host \in HostState /\ QueueBlocked(host, c) \in HostState
    BY HostType, LeaseType
  <2>2. Keen(host, QueueBlocked(host, c), d) /\ Keen(host, Relet(host, c), d)
    BY <1>3, <2>1, LeaseKeen DEF Relet
  <2>3. Keen(QueueBlocked(host, c), Decide(QueueBlocked(host, c), c, "apart"), d)
    BY <1>4, <2>1, DecideKeen
  <2> QED BY <1>1, <2>2, <2>3, KeenFacts DEF MoveCases
<1>6. v \in Orderly(Exempt')
  BY <1>4, <1>5, OrderlyKept
<1> DEFINE Q == Runs(queue) \cup Runs(v.queue)
<1>7. Arrays(Q)
  BY <1>1 DEF MoveCases, Arrays
<1>8. \A d \in Child : d \in Q => d \in Runs(v.queue) \/ InQueue(d)
  BY QueuedHere
<1> HIDE DEF Q
<1> QED BY <1>1, <1>2, <1>6, <1>7, <1>8, LeaseHandler

(* The decision comes after the lease and the place in the queue.          *)
LEMMA ResolvedOrder ==
  ASSUME AInv, LeaseInv, NEW c \in Child, Undecided(c), NEW Y, Exempt \subseteq Y,
         NEW w \in Orderly(Y), Free(w, c), NEW act \in Choice
  PROVE  Decide(QueueBlocked(w, c), c, act) \in Orderly(Y)
<1> DEFINE u == QueueBlocked(w, c)
           v == Decide(u, c, act)
<1>0. TurnPhases /\ w \in HostState /\ c \in Agent
  BY AgentFacts DEF LeaseInv, Orderly
<1>1. u \in HostState /\ \A d \in Child \ (Y \cup {c}) : Keen(w, u, d)
  BY <1>0, LeaseType, LeaseKeen
<1>2. c \in Y \/ Owners(w, c) = {}
  BY DEF Free, Exempt
<1>3. Order(u, Y)
  BY <1>0, <1>2, QueueBlockedOrder DEF Orderly
<1> HIDE DEF u
<1>4. v \in HostState /\ DecideDone(u, v, c, act) /\ \A d \in Child : Keen(u, v, d)
  BY <1>0, <1>1, DecideType, DecideFacts, DecideKeen
<1> HIDE DEF v
<1>5. Order(v, Y)
  BY <1>3, <1>4, OrderKept
<1>6. \A d \in Child \ (Y \cup {c}) : Keen(w, v, d)
  BY <1>1, <1>4, KeenFacts
<1>7. ASSUME c \notin Y PROVE Decided(v.record[c], c)
  <2>1. turn[c] = NoRun
    BY <1>7, UndecidedIdle
  <2>2. CASE c \in Told(u, c)
    <3> DEFINE e == Resolved(c, act)
    <3>1. v.record[c] = Apply(u.record[c], e) /\ u.record[c] \in Record /\ e \in Event
      BY <1>0, <1>1, <1>4, <2>1, <2>2, HostFacts, EventType DEF DecideDone, PutHere
    <3>2. e.type = "resolved" /\ <<e.of, e.what>>[1] = c
      BY DEF Resolved
    <3> HIDE DEF e
    <3>3. v.record[c].resolved = u.record[c].resolved \cup {<<e.of, e.what>>}
      <4>1. \A R \in Record : Apply(R, e).resolved = R.resolved \cup {<<e.of, e.what>>}
        BY <3>1, <3>2, ApplyFields
      <4> QED BY <3>1, <4>1
    <3> QED BY <3>2, <3>3 DEF Decided
  <2>3. CASE c \notin Told(u, c)
    <3>1. Decided(u.record[c], c)
      BY <2>3 DEF Told
    <3> QED BY <1>4, <3>1 DEF Keen, Decided
  <2> QED BY <2>2, <2>3
<1>8. v \in Orderly(Y)
  BY <1>4, <1>5, <1>6, <1>7, OrderlyOne DEF Ruled
<1> QED BY <1>8 DEF v, u

LEMMA NarrowLease ==
  ASSUME AInv, LeaseInv, NEW c \in Child, Narrow(c)
  PROVE  LeaseInv'
<1>1. PICK v \in HostState : MoveCases(host, c, "apart", v) /\ Write(v) /\ (v = host \/ Free(host, c))
  BY NarrowMade
<1>2. Undecided(c) /\ UNCHANGED <<sessions, agents, waived>>
  BY DEF Narrow
<1>3. Exempt' = Exempt /\ "apart" \in Choice
  BY <1>2 DEF Exempt, FollowUpFirst, agents, Choice
<1>4. host \in Orderly(Exempt')
  BY <1>3, HostOrderly
<1>5. v \in Orderly(Exempt')
  <2>1. CASE v = host
    BY <1>4, <2>1
  <2>2. CASE v = Relet(host, c)
    <3>1. \A d \in Child : Keen(host, v, d)
      BY <1>4, <2>2, LeaseKeen DEF Relet, Orderly
    <3> QED BY <1>4, <3>1, OrderlyKept
  <2>3. CASE v = Decide(QueueBlocked(host, c), c, "apart") /\ Free(host, c)
    BY <1>2, <1>3, <1>4, <2>3, ResolvedOrder
  <2> QED BY <1>1, <2>1, <2>2, <2>3 DEF MoveCases
<1> DEFINE Q == Runs(queue) \cup Runs(v.queue)
<1>6. Arrays(Q)
  BY <1>1 DEF MoveCases, Arrays
<1>7. \A d \in Child : d \in Q => d \in Runs(v.queue) \/ InQueue(d)
  BY QueuedHere
<1> HIDE DEF Q
<1> QED BY <1>1, <1>2, <1>5, <1>6, <1>7, LeaseHandler DEF agents

LEMMA ReleaseOwnerLease ==
  ASSUME AInv, LeaseInv, NEW c \in Child, ReleaseOwner(c)
  PROVE  LeaseInv'
<1> DEFINE o == conflict[c]
           w == Loosed(c)
<1>1. PICK v \in HostState : MoveCases(w, c, "release", v) /\ Write(v)
  BY ReleaseOwnerMade
<1>2. o \in Child /\ Undecided(c) /\ waived' = waived \cup {o} /\ UNCHANGED <<sessions, agents>>
  BY ReleaseOwnerMade DEF ReleaseOwner
<1>3. Exempt \subseteq Exempt' /\ o \in Exempt'
  <2>1. phase' = phase /\ apart' = apart
    BY <1>2 DEF agents
  <2>2. Exempt \subseteq Exempt'
    BY <1>2, <2>1, ExemptStays
  <2>3. o \in Exempt'
    BY <1>2 DEF Exempt
  <2> QED BY <2>2, <2>3
<1>4. w \in Orderly(Exempt')
  BY <1>2, <1>3, HostOrderly, ReleaseOrder DEF Loosed
<1> HIDE DEF w
<1>5. v \in Orderly(Exempt')
  <2>1. CASE v = w
    BY <1>4, <2>1
  <2>2. CASE v = Relet(w, c)
    <3>1. \A d \in Child : Keen(w, v, d)
      BY <1>4, <2>2, LeaseKeen DEF Relet, Orderly
    <3> QED BY <1>4, <3>1, OrderlyKept
  <2>3. CASE v = Decide(QueueBlocked(w, c), c, "release") /\ Free(w, c)
    <3>1. "release" \in Choice
      BY DEF Choice
    <3> QED BY <1>2, <1>3, <1>4, <2>3, <3>1, ResolvedOrder
  <2> QED BY <1>1, <2>1, <2>2, <2>3 DEF MoveCases
<1> DEFINE Q == Runs(queue) \cup Runs(v.queue)
<1>6. Arrays(Q)
  BY <1>1 DEF MoveCases, Arrays
<1>7. \A d \in Child : d \in Q => d \in Runs(v.queue) \/ InQueue(d)
  BY QueuedHere
<1> HIDE DEF Q
<1> QED BY <1>1, <1>2, <1>5, <1>6, <1>7, LeaseHandler DEF agents

LEMMA SimpleLease ==
  ASSUME AInv, LeaseInv
  PROVE  /\ \A a \in Agent : Wait(a) => LeaseInv'
         /\ WaitTimesOut => LeaseInv'
         /\ \A c \in Child : Close(c) => LeaseInv'
<1>0. /\ host.record = record /\ host.entries = entries /\ host.queue = queue
      /\ \A c \in Child : c \in Runs(queue) => InQueue(c)
  BY QueuedHere DEF host
<1>1. ASSUME NEW a \in Agent, Wait(a) PROVE LeaseInv'
  <2>1. /\ UNCHANGED <<sessions, queue, record, entries, agents, waived>> /\ held = NoWait
        /\ held' = [agent |-> a, sessions |-> sessions, queue |-> Live]
    BY <1>1 DEF Wait
  <2>2. host \in Orderly(Exempt') /\ \A c \in Child : SameWork(c)
    BY <2>1, ExemptStays, HostOrderly DEF agents
  <2>3. \A c \in Child : InQueue(c)' => InQueue(c)
    BY <2>1 DEF InQueue
  <2>4. TurnPhases'
    BY <2>1 DEF LeaseInv, TurnPhases, AgentOf, agents
  <2>5. Write(host)
    BY <1>0, <2>1 DEF Write
  <2> QED BY <2>1, <2>2, <2>3, <2>4, <2>5, LeaseKept DEF LeaseInv, Orderly, agents
<1>2. ASSUME WaitTimesOut PROVE LeaseInv'
  <2>1. Waiting /\ Wake(queue) /\ UNCHANGED <<record, entries, agents, waived>>
    BY <1>2 DEF WaitTimesOut
  <2>2. host \in Orderly(Exempt')
    BY <2>1, ExemptStays, HostOrderly DEF agents
  <2>3. Arrays(Runs(queue)) /\ ToSet(sessions') \subseteq ToSet(sessions)
    BY <2>1, HeldWake DEF Arrays, AInv, Narrowed
  <2>4. Write(host)
    BY <1>0, <2>1 DEF Write
  <2> QED BY <1>0, <2>1, <2>2, <2>3, <2>4, LeaseHandler DEF agents
<1>3. ASSUME NEW c \in Child, Close(c) PROVE LeaseInv'
  <2>1. /\ record[c].last.state \in Terminal /\ closed' = closed \cup {c}
        /\ UNCHANGED <<sessions, queue, record, entries, turn, phase, conflict, apart, held, waived>>
    BY <1>3 DEF Close
  <2>2. Exempt' = Exempt /\ TurnPhases'
    BY <2>1 DEF Exempt, FollowUpFirst, LeaseInv, TurnPhases, AgentOf
  <2>3. \A d \in Child : InQueue(d)' = InQueue(d) /\ Known(d)' = Known(d)
    BY <2>1 DEF Known, InQueue, Waiting
  <2>4. \A d \in Child \ {c} : Aside(d)
    BY <2>1, <2>3 DEF Aside
  <2>5. host' = host
    BY <2>1 DEF host
  <2>6. ASSUME c \notin Exempt
        PROVE  Lone(host, c)' /\ Ruled(host, c)' /\ (Holds(host, c)' => Alone(host, c, Exempt))
    <3>1. Lone(host, c) /\ Ruled(host, c) /\ (Holds(host, c) => Alone(host, c, Exempt))
      BY <2>6 DEF LeaseInv, Order, Rules, Pairs
    <3>2. Working(host, c)' = Working(host, c) /\ Holds(host, c)' = Holds(host, c) /\ Underway(host, c)' = Underway(host, c)
      BY <2>1, <2>3, <2>5 DEF Working, Holds, Underway
    <3>3. Writer(c) => ~Working(host, c)
      BY <1>0, <2>1, <3>1 DEF Lone, HasLease
    <3>4. host.record[c].life[c] # "none"
      BY <1>0, <2>1, <3>1 DEF Lone
    <3>5. Lone(host, c)'
      BY <2>1, <2>5, <3>1, <3>2, <3>3, <3>4 DEF Lone, Writer
    <3>6. Ruled(host, c)'
      BY <2>1, <2>5, <3>1, <3>2 DEF Ruled, Decided
    <3> QED BY <3>1, <3>2, <3>5, <3>6
  <2> QED BY <2>2, <2>4, <2>6, LeaseOne DEF LeaseInv
<1> QED BY <1>1, <1>2, <1>3

LEMMA SettledLease ==
  ASSUME AInv, LeaseInv, Exempt \subseteq Exempt', \A c \in Child : SameWork(c), NEW w \in Orderly(Exempt'),
         NEW r \in Run, NEW st \in Terminal, AgentOf(r) \in Exempt' \/ ~Working(w, AgentOf(r)),
         NEW p, QueueOK(p), Runs(p) \subseteq Runs(queue), Settled(w, r, st, p),
         conflict' = conflict, closed' = closed
  PROVE  Order(host, Exempt)' /\ Rules(host, Exempt)'
<1> DEFINE u == Complete(w, r, st)
<1>0. w \in HostState /\ TurnPhases
  BY DEF Orderly, LeaseInv
<1>1. PICK v \in HostState : SettledDone(w, r, st, p, v) /\ Write(v)
  BY <1>0, HostType, SettledMade
<1>2. u \in Orderly(Exempt') /\ u \in HostState
  BY <1>0, CompleteOrder DEF Orderly
<1> HIDE DEF u
<1>3. v \in Orderly(Exempt')
  <2>1. ASSUME NEW m \in Drainable(u, AgentOf(r)), v = Started(Enqueue(u, m), m) PROVE v \in Orderly(Exempt')
    <3>1. m \in FollowUp /\ CanEnqueue(u, m)
      BY DEF Drainable
    <3>2. \A c \in Child : Keen(u, v, c)
      BY <1>2, <2>1, <3>1, FollowUpKeen
    <3> QED BY <1>2, <3>2, OrderlyKept
  <2> QED BY <1>1, <1>2, <2>1 DEF SettledDone, u
<1> DEFINE Q == Runs(queue) \cup Runs(v.queue)
<1>4. \/ Waiting /\ Wake(p)
      \/ (\E q \in {p, v.queue} : Replace(p, q)) /\ UNCHANGED sessions
  BY <1>1 DEF SettledDone
<1>5. Arrays(Q)
  BY <1>4 DEF Arrays
<1>6. ToSet(sessions') \subseteq ToSet(sessions)
  BY <1>4, HeldWake DEF Narrowed
<1>7. \A c \in Child : c \in Q => c \in Runs(v.queue) \/ InQueue(c)
  BY QueuedHere
<1> HIDE DEF Q
<1>8. \A c \in Child : InQueue(c)' => c \in Runs(v.queue) \/ InQueue(c)
  BY <1>5, <1>7, ArraysFacts
<1> QED BY <1>1, <1>3, <1>6, <1>8, LeaseKept DEF Orderly

(* The item that is settled is that of a first run that is over, or of a   *)
(* follow-up.                                                              *)
LEMMA MarkedOrder ==
  ASSUME AInv, LeaseInv, NEW r \in Run, NEW st \in Terminal, phase[r] \in {"over", "again"}
  PROVE  /\ AgentOf(r) \in Exempt \/ (r = AgentOf(r) /\ \A w : ~Working(w, AgentOf(r)))
         /\ Marked(r, st) \in Orderly(Exempt)
<1> DEFINE c == AgentOf(r)
           w == Marked(r, st)
           v == Closing(r, st)
<1>0. c \in Child /\ c \in Agent /\ st \in LifeState \ {"none"} /\ r \in Run \cup {NoRun} /\ "none" \notin Terminal
  BY AgentFacts DEF LifeState, Terminal
<1>1. c \in Exempt \/ r = c
  <2>1. CASE r \in Child
    BY <2>1 DEF AgentOf
  <2>2. CASE r \in FollowUp
    <3>1. Receiver[r] = c
      BY <2>2, AgentFacts
    <3> QED BY <1>0, <2>2, <3>1 DEF Exempt, FollowUpFirst
  <2> QED BY <2>1, <2>2 DEF Run
<1>2. r = c => \A x : ~Working(x, c)
  BY DEF Working
<1>3. host \in Orderly(Exempt) /\ host \in HostState /\ host.record = record /\ host.entries = entries
      /\ host.queue = queue
  BY HostOrderly, HostType
<1>4. /\ w \in HostState /\ w.entries = entries /\ w.record = v.record /\ Runs(w.queue) = Runs(queue)
      /\ v \in HostState
  BY MarkedFacts, MarkRuns DEF AInv
<1>5. v = host \/ (v = Recorded(host, c, r, st) /\ RecordedDone(host, v, c, r, st))
  BY <1>0, <1>3, RecordedFacts DEF Closing
<1> HIDE DEF w, v, c
<1>6. \A d \in Child \ {c} : Keen(host, w, d)
  <2> SUFFICES ASSUME NEW d \in Child \ {c} PROVE Keen(host, w, d)
    OBVIOUS
  <2>1. w.record[d] = host.record[d]
    BY <1>4, <1>5, AgentFacts DEF RecordedDone, Elsewhere
  <2> QED BY <1>3, <1>4, <2>1, UntouchedKeen
<1>7. CASE v = host
  <2>1. \A d \in Child : Keen(host, w, d)
    BY <1>3, <1>4, <1>7, UntouchedKeen
  <2> QED BY <1>1, <1>2, <1>3, <1>4, <2>1, OrderlyKept DEF w, c
<1>8. CASE c \in Exempt
  <2>1. w \in Orderly(Exempt)
    BY <1>3, <1>4, <1>6, <1>8, OrderlyKept
  <2> QED BY <1>8, <2>1 DEF w, c
<1>9. CASE RecordedDone(host, v, c, r, st) /\ c \notin Exempt /\ r = c
  <2>1. Lone(host, c)
    BY <1>0, <1>9 DEF LeaseInv, Order
  <2>2. w.record[c].life[c] = st /\ w.record[c].last.state = st
    <3>1. Lived(host.record[c], w.record[c], c, st)
      BY <1>4, <1>9 DEF RecordedDone
    <3> QED BY <1>0, <1>9, <3>1 DEF Lived
  <2>3. Underway(w, c)
    BY <1>3, <1>4, <2>1 DEF Lone, Underway
  <2>4. phase[c] \notin {"claimed", "turn"}
    BY <1>9
  <2>5. Lone(w, c) /\ Ruled(w, c) /\ ~Holds(w, c)
    BY <1>0, <1>2, <1>9, <2>2, <2>3, <2>4 DEF Lone, Ran, Ruled, Holds
  <2>6. Order(w, Exempt)
    BY <1>0, <1>3, <1>6, <2>5, OrderOne DEF Orderly
  <2>7. w \in Orderly(Exempt)
    BY <1>0, <1>3, <1>4, <1>6, <2>5, <2>6, OrderlyOne
  <2> QED BY <1>2, <1>9, <2>7 DEF w, c
<1> QED BY <1>1, <1>5, <1>7, <1>8, <1>9

LEMMA SettleLease ==
  ASSUME AInv, LeaseInv, NEW r \in Run, NEW st \in Outcome \cup {"failed"}, Settle(r, st)
  PROVE  LeaseInv'
<1> DEFINE c == AgentOf(r)
           q == Mark(queue, r, "settled")
<1>1. st \in Terminal
  BY CollaborationAssumption DEF Terminal
<1>2. /\ SettleCases(r, st) /\ phase[r] \in {"over", "again"}
      /\ UNCHANGED <<turn, conflict, apart, closed, waived>>
  BY SettleMade
<1>3. phase' = [phase EXCEPT ![r] = "done"] \/ phase' = [phase EXCEPT ![r] = IF @ = "over" THEN "again" ELSE "done"]
  BY <1>2 DEF SettleCases
<1>4. \A x \in Run : phase'[x] = phase[x] \/ (x = r /\ phase'[x] \in {"again", "done"})
  BY <1>3 DEF AInv, Small
<1>5. Exempt \subseteq Exempt' /\ \A d \in Child : SameWork(d)
  <2>1. \A m \in FollowUp : phase[m] # "none" => phase'[m] # "none"
    BY <1>4, AgentFacts
  <2>2. Exempt \subseteq Exempt'
    BY <1>2, <2>1 DEF Exempt, FollowUpFirst
  <2>3. \A d \in Child : SameWork(d)
    BY <1>2, <1>4, AgentFacts DEF SameWork
  <2> QED BY <2>2, <2>3
<1>6. TurnPhases'
  <2>1. \A x \in Run : phase'[x] = "turn" <=> phase[x] = "turn"
    BY <1>2, <1>4
  <2> QED BY <1>2, <2>1 DEF LeaseInv, TurnPhases, AgentOf
<1>7. /\ Marked(r, st) \in Orderly(Exempt') /\ host \in Orderly(Exempt')
      /\ c \in Exempt' \/ \A w : ~Working(w, c)
  <2>1. Marked(r, st) \in Orderly(Exempt) /\ (c \in Exempt \/ \A w : ~Working(w, c))
    BY <1>1, <1>2, MarkedOrder
  <2>2. Marked(r, st) \in Orderly(Exempt')
    BY <1>5, <2>1, OrderMore DEF Orderly
  <2> QED BY <1>5, <2>1, <2>2, HostOrderly
<1>8. QueueOK(q) /\ QueueOK(queue) /\ Runs(q) = Runs(queue)
  BY <1>1, MarkedFacts, MarkRuns DEF AInv
<1> HIDE DEF q
<1>9. CASE Settled(Marked(r, st), r, st, q)
  BY <1>1, <1>2, <1>5, <1>6, <1>7, <1>8, <1>9, SettledLease DEF LeaseInv
<1>10. CASE Settled(host, r, st, queue)
  BY <1>1, <1>2, <1>5, <1>6, <1>7, <1>8, <1>10, SettledLease DEF LeaseInv
<1>11. CASE queue' \in {queue, q} /\ UNCHANGED <<record, entries, sessions, held>>
  <2>1. Write(host)
    BY <1>11, HostType DEF Write
  <2>2. \A d \in Child : InQueue(d)' => InQueue(d)
    BY <1>8, <1>11 DEF InQueue, Waiting
  <2> QED BY <1>2, <1>5, <1>6, <1>7, <1>11, <2>1, <2>2, LeaseKept DEF LeaseInv, Orderly
<1> QED BY <1>2, <1>9, <1>10, <1>11 DEF SettleCases, q

(* Only one agent's record and recorder are written.                       *)
LEMMA ElsewhereFacts ==
  ASSUME NEW w \in HostState, NEW c \in Child
  PROVE  /\ Elsewhere(w, Acquire(w, c), c) /\ Elsewhere(w, Release(w, c), c)
         /\ CanEnqueue(w, c) => Elsewhere(w, Enqueue(w, c), c)
<1>1. /\ c \in Agent /\ c \in Run /\ c \in Run \cup {NoRun} /\ AgentOf(c) = c /\ "queued" \in LifeState \ {"none"}
      /\ Note("lease", c) \in Event /\ Note("release", c) \in Event
  BY AgentFacts, EventType DEF LifeState
<1>2. Elsewhere(w, w, c)
  BY DEF Elsewhere
<1>3. Elsewhere(w, Acquire(w, c), c)
  BY <1>1, <1>2, PutFacts DEF Acquire, PutDone
<1>4. Elsewhere(w, Release(w, c), c)
  BY <1>1, <1>2, PutFacts DEF Release, PutDone
<1>5. ASSUME CanEnqueue(w, c) PROVE Elsewhere(w, Enqueue(w, c), c)
  <2> DEFINE u == PutLife(w, c, c, "queued")
  <2>1. Elsewhere(w, u, c)
    BY <1>1, PutLifeFacts DEF LifeDone
  <2>2. EnqueueDone(w, Enqueue(w, c), c)
    BY <1>1, <1>5, EnqueueFacts
  <2> QED BY <1>1, <2>1, <2>2 DEF EnqueueDone, Elsewhere
<1> QED BY <1>3, <1>4, <1>5

(* A new child: nothing of its first run is recorded yet.                  *)
LEMMA AdmittedLone ==
  ASSUME AInv, LeaseInv, NEW c \in Child \ Exempt, record[c].last.state = "none"
  PROVE  /\ turn[c] = NoRun /\ phase[c] = "none" /\ ~InQueue(c) /\ c \notin closed /\ conflict[c] = NoRun
         /\ Lone(Admitted(c), c) /\ Admitted(c).record[c].life[c] = "none"
         /\ Admitted(c).record[c].last.state = "admitted"
<1> DEFINE w == Admitted(c)
<1>0. c \in Agent /\ c \in Run /\ c # NoRun /\ host.record = record /\ host \in HostState /\ host.queue = queue
      /\ host.entries = entries
  BY HostType, AgentFacts
<1>1. Lone(host, c) /\ TurnPhases
  BY DEF LeaseInv, Order
<1>2. record[c].life[c] = "none" /\ conflict[c] = NoRun
  BY <1>0, <1>1 DEF Lone
<1>3. phase[c] = "none" /\ ~InQueue(c) /\ c \notin closed /\ c \notin Runs(queue)
  BY <1>0, <1>1, <1>2 DEF Lone, Ran, Terminal
<1>4. turn[c] = NoRun
  BY <1>1, <1>3, OwnTurn
<1>5. RecordedDone(host, w, c, NoRun, "admitted") /\ w.record[c].last.state = "admitted"
  BY AdmittedFacts
<1> HIDE DEF w
<1>6. w.queue = queue /\ w.entries = entries /\ w.record[c].life[c] = "none"
  BY <1>0, <1>2, <1>5 DEF RecordedDone, Lived, SameBut
<1>7. ~Working(w, c)
  BY <1>6 DEF Working
<1>8. Underway(w, c)
  BY <1>0, <1>1, <1>6 DEF Lone, Underway
<1>9. Lone(w, c)
  BY <1>3, <1>5, <1>6, <1>7, <1>8 DEF Lone, Terminal
<1> QED BY <1>2, <1>3, <1>4, <1>5, <1>6, <1>9 DEF w

LEMMA SpawnedIdle ==
  ASSUME AInv, LeaseInv, NEW c \in Child \ Exempt, record[c].last.state = "none", NEW v \in HostState,
         v = PutLife(Admitted(c), c, NoRun, "blocked") \/ v = Release(Fresh(c), c)
  PROVE  v.record[c].life[c] = "none" /\ v.record[c].last.state \in {"admitted", "blocked"}
<1> DEFINE w == Admitted(c)
<1>0. c \in Agent /\ NoRun \in Run \cup {NoRun} /\ "blocked" \in LifeState \ {"none"} /\ c \in Run /\ c # NoRun
  BY AgentFacts DEF LifeState
<1>1. w \in HostState /\ turn[c] = NoRun /\ w.record[c].life[c] = "none" /\ w.record[c].last.state = "admitted"
  BY AdmittedLone, AdmittedFacts
<1>2. CASE v = PutLife(Admitted(c), c, NoRun, "blocked")
  <2> HIDE DEF w
  <2>1. LifeDone(w, v, c, NoRun, "blocked")
    BY <1>0, <1>1, <1>2, PutLifeFacts DEF w
  <2>2. CASE v = w
    BY <1>1, <2>2
  <2>3. CASE PutDone(w, v, c, Life(NoRun, "blocked"))
    <3>1. v.record[c] = Apply(w.record[c], Life(NoRun, "blocked")) /\ w.record[c] \in Record
      BY <1>0, <1>1, <2>3, HostFacts DEF PutDone
    <3>2. Lived(w.record[c], v.record[c], NoRun, "blocked")
      BY <1>0, <3>1, ApplyLived
    <3> QED BY <1>0, <1>1, <3>2 DEF Lived, SameBut
  <2> QED BY <1>1, <2>1, <2>2, <2>3 DEF LifeDone, Beneath
<1>3. CASE v = Release(Fresh(c), c)
  <2>1. \A x \in HostState, t \in {"lease", "release"} :
          /\ Put(x, c, Note(t, c)) \in HostState
          /\ Put(x, c, Note(t, c)).record[c].life = x.record[c].life
          /\ Put(x, c, Note(t, c)).record[c].last = x.record[c].last
    <3> SUFFICES ASSUME NEW x \in HostState, NEW t \in {"lease", "release"}
                 PROVE  /\ Put(x, c, Note(t, c)) \in HostState
                        /\ Put(x, c, Note(t, c)).record[c].life = x.record[c].life
                        /\ Put(x, c, Note(t, c)).record[c].last = x.record[c].last
      OBVIOUS
    <3> DEFINE e == Note(t, c)
               y == Put(x, c, e)
               R == x.record[c]
    <3>1. e \in Event /\ e.type # "life" /\ R \in Record
      BY <1>0, HostFacts, EventType DEF Note
    <3>2. y \in HostState /\ y.record[c] = Apply(R, e)
      <4> HIDE DEF e
      <4> QED BY <1>0, <1>1, <3>1, PutFacts DEF PutDone
    <3>3. Apply(R, e).life = R.life /\ Apply(R, e).last = R.last
      <4> HIDE DEF R, e
      <4> QED BY <3>1, ApplyFields
    <3> QED BY <3>2, <3>3
  <2>2. /\ Fresh(c) \in HostState /\ Fresh(c).record[c].life = w.record[c].life
        /\ Fresh(c).record[c].last = w.record[c].last
    BY <1>1, <2>1 DEF Fresh, Acquire
  <2>3. v.record[c].life = w.record[c].life /\ v.record[c].last = w.record[c].last
    BY <1>3, <2>1, <2>2 DEF Release
  <2> QED BY <1>1, <2>3
<1> QED BY <1>2, <1>3

LEMMA SpawnElsewhere ==
  ASSUME AInv, NEW c \in Child, NEW v \in HostState, SpawnCases(c, v)
  PROVE  Elsewhere(host, v, c) /\ Runs(v.queue) \subseteq Runs(queue) \cup {c}
<1> DEFINE w == Admitted(c)
           x == Fresh(c)
<1>0. c \in Agent /\ c \in Run /\ NoRun \in Run \cup {NoRun} /\ "blocked" \in LifeState \ {"none"}
  BY AgentFacts DEF LifeState
<1>1. w \in HostState /\ Elsewhere(host, w, c) /\ w.queue = queue
  BY AdmittedFacts, HostType DEF RecordedDone
<1>2. x = Acquire(w, c)
  BY DEF Fresh
<1> HIDE DEF w, x
<1>3. x \in HostState /\ Elsewhere(w, x, c) /\ x.queue = w.queue
  <2>1. Note("lease", c) \in Event
    BY EventType
  <2>2. x.queue = w.queue
    BY <1>0, <1>1, <1>2, <2>1, PutFacts DEF Acquire, PutDone
  <2> QED BY <1>1, <1>2, <2>2, LeaseType, ElsewhereFacts
<1>4. CASE v = PutLife(w, c, NoRun, "blocked")
  <2>1. Elsewhere(w, v, c) /\ v.queue = w.queue
    BY <1>0, <1>1, <1>4, PutLifeFacts DEF LifeDone
  <2> QED BY <1>1, <2>1 DEF Elsewhere
<1>5. CASE v = Enqueue(x, c) /\ CanEnqueue(x, c)
  <2>1. Elsewhere(x, v, c) /\ Runs(v.queue) = Runs(x.queue) \cup {c}
    BY <1>0, <1>3, <1>5, ElsewhereFacts, EnqueueSilent
  <2> QED BY <1>1, <1>3, <2>1 DEF Elsewhere
<1>6. CASE v = Release(x, c)
  <2>1. Note("release", c) \in Event
    BY EventType
  <2>2. Elsewhere(x, v, c) /\ v.queue = x.queue
    BY <1>0, <1>3, <1>6, <2>1, ElsewhereFacts, PutFacts DEF Release, PutDone
  <2> QED BY <1>1, <1>3, <2>2 DEF Elsewhere
<1> QED BY <1>4, <1>5, <1>6 DEF SpawnCases, w, x

LEMMA SpawnLease ==
  ASSUME AInv, LeaseInv, NEW c \in Child, Spawn(c)
  PROVE  LeaseInv'
<1>1. PICK v \in HostState :
        /\ SpawnCases(c, v) /\ Write(v) /\ sessions' = Append(sessions, c) /\ record[c].last.state = "none"
        /\ UNCHANGED <<turn, phase, apart, closed, waived>>
  BY SpawnMade
<1>2. Elsewhere(host, v, c) /\ Runs(v.queue) \subseteq Runs(queue) \cup {c}
  BY <1>1, SpawnElsewhere
<1>3. Exempt' = Exempt /\ TurnPhases'
  BY <1>1 DEF Exempt, FollowUpFirst, LeaseInv, TurnPhases, AgentOf
<1>4. /\ host'.record = v.record /\ host'.entries = v.entries /\ host'.queue = queue'
      /\ host.record = record /\ host.entries = entries /\ host.queue = queue /\ host \in HostState
  BY <1>1, HostType DEF host, Write
<1>5. /\ (queue' = queue /\ held' = held) \/ Commit(queue, v.queue)
      /\ v = Enqueue(Fresh(c), c) \/ (queue' = queue /\ held' = held)
      /\ v = PutLife(Admitted(c), c, NoRun, "blocked") \/ conflict' = conflict
      /\ conflict' = conflict \/ \E o : conflict' = [conflict EXCEPT ![c] = o]
  BY <1>1 DEF SpawnCases
<1>6. ASSUME NEW d \in Child \ {c} PROVE Aside(d)
  <2>1. record'[d] = record[d] /\ entries'[d] = entries[d]
    BY <1>1, <1>2, <1>4, AgentFacts DEF Elsewhere, Write
  <2>2. conflict'[d] = conflict[d]
    BY <1>5 DEF AInv, Small
  <2>3. InQueue(d)' => InQueue(d)
    <3> DEFINE Q == Runs(queue) \cup {c}
    <3>1. Arrays(Q)
      BY <1>2, <1>5 DEF Arrays
    <3>2. d \in Q => InQueue(d)
      BY <1>6, QueuedHere
    <3> HIDE DEF Q
    <3> QED BY <3>1, <3>2, ArraysFacts
  <2>4. Known(d)' => Known(d)
    BY <1>1, <1>6 DEF Known, ToSet, AInv, Listed
  <2> QED BY <1>1, <2>1, <2>2, <2>3, <2>4 DEF Aside
<1>7. ASSUME c \notin Exempt
      PROVE  Lone(host, c)' /\ Ruled(host, c)' /\ (Holds(host, c)' => Alone(host, c, Exempt))
  <2>1. /\ turn[c] = NoRun /\ phase[c] = "none" /\ ~InQueue(c) /\ c \notin closed /\ conflict[c] = NoRun
        /\ Lone(Admitted(c), c) /\ c \in Agent
    BY <1>1, <1>7, AdmittedLone, AgentFacts
  <2>2. CASE (v = PutLife(Admitted(c), c, NoRun, "blocked") \/ v = Release(Fresh(c), c)) /\ UNCHANGED <<queue, held>>
    <3>1. v.record[c].life[c] = "none" /\ v.record[c].last.state \in {"admitted", "blocked"}
      BY <1>1, <1>7, <2>2, SpawnedIdle
    <3>2. v.entries[c] = <<>>
      BY <2>1, HostFacts
    <3>3. ~Working(host, c)'
      BY <1>4, <3>1 DEF Working
    <3>4. queue' = queue /\ held' = held
      BY <2>2
    <3>5. ~InQueue(c)' /\ c \notin Runs(host.queue)'
      BY <1>4, <2>1, <3>4 DEF InQueue, Waiting
    <3>6. Underway(host, c)'
      BY <1>4, <3>2 DEF Underway
    <3>7. Lone(host, c)'
      BY <1>1, <1>4, <2>1, <3>1, <3>3, <3>5, <3>6 DEF Lone, Terminal
    <3> QED BY <3>3, <3>7 DEF Ruled, Holds
  <2>3. CASE v = Enqueue(Fresh(c), c) /\ CanEnqueue(Fresh(c), c) /\ Owners(host, c) = {} /\ conflict' = conflict
    <3> DEFINE w == Admitted(c)
               x == Fresh(c)
    <3>1. w \in HostState /\ x = Acquire(w, c)
      BY AdmittedFacts DEF Fresh
    <3>2. x \in HostState /\ Lone(x, c)
      BY <2>1, <3>1, LeaseType, LeaseKeen, KeenLone
    <3>3. Writer(c) => x.record[c].leased
      <4> DEFINE e == Note("lease", c)
      <4>1. e \in Event /\ e.type = "lease" /\ w.record[c] \in Record
        BY <2>1, <3>1, EventType, HostFacts DEF Note
      <4> HIDE DEF e
      <4>2. \A R \in Record : Apply(R, e).leased
        BY <4>1, ApplyFields
      <4> HIDE DEF w
      <4>3. PutDone(w, Put(w, c, e), c, e)
        BY <2>1, <3>1, <4>1, PutFacts
      <4>4. Put(w, c, e).record[c] = Apply(w.record[c], e)
        BY <2>1, <4>3 DEF PutDone
      <4> QED BY <3>1, <4>1, <4>2, <4>4 DEF Acquire, e
    <3> HIDE DEF w, x
    <3>4. Lone(v, c) /\ v.record[c].life[c] = "queued"
      BY <1>7, <2>1, <2>3, <3>2, <3>3, EnqueuedLone DEF x
    <3>5. Working(host, c)' = Working(v, c) /\ HasLease(host, c)' = HasLease(v, c)
      BY <1>1, <1>4 DEF Working, HasLease
    <3>6. Underway(host, c)'
      BY <1>4, <3>4 DEF Lone, Underway
    <3>7. Lone(host, c)'
      <4>1. (Writer(c) /\ Working(host, c) => HasLease(host, c))'
        BY <3>4, <3>5 DEF Lone, Writer
      <4> QED BY <1>1, <1>4, <2>3, <3>4, <3>6, <4>1 DEF Lone
    <3>8. Ruled(host, c)'
      BY <2>1, <2>3 DEF Ruled
    <3>9. Alone(host, c, Exempt)
      BY <2>3, NoOwnersAlone DEF LeaseInv
    <3> QED BY <3>7, <3>8, <3>9
  <2> QED BY <1>1, <2>2, <2>3 DEF SpawnCases
<1> QED BY <1>3, <1>6, <1>7, LeaseOne DEF LeaseInv

(* Claims.  The child's own run has been in the queue, so it was at work   *)
(* before; the claim of a follow-up makes the child one of which nothing   *)
(* is said.                                                                *)
LEMMA ClaimLease ==
  ASSUME AInv, LeaseInv, NEW r \in Run, Claim(r)
  PROVE  LeaseInv'
<1> DEFINE c == AgentOf(r)
           v == Recorded(host, c, r, "running")
           q == Mark(queue, r, "running")
<1>1. /\ ClaimDone(r) /\ c \in Child /\ c \in Agent /\ v.entries = entries /\ host \in HostState
      /\ "running" \in LifeState \ {"none"} /\ r \in Run \cup {NoRun}
  BY ClaimMade, AgentFacts, HostType DEF LifeState
<1>2. /\ QueuedRun(r) /\ turn[c] = NoRun
      /\ UNCHANGED <<sessions, entries, turn, conflict, apart, closed, waived>>
  BY <1>1 DEF ClaimDone
<1>3. Runs(q) = Runs(queue) /\ r \in Runs(queue) /\ \A d \in Child : d \in Runs(queue) => InQueue(d)
  BY <1>2, MarkRuns, QueuedHere DEF AInv, QueuedRun, ItemOf, Runs
<1>4. host.record = record /\ host.entries = entries /\ host.queue = queue
  BY HostType
<1>5. RecordedDone(host, v, c, r, "running")
  BY <1>1, RecordedFacts
<1>6. Replace(q, q) \/ (queue' = q /\ held' = held)
  BY <1>1 DEF ClaimDone
<1> HIDE DEF q, v
<1>7. \A d \in Child : InQueue(d)' => InQueue(d)
  <2>1. CASE Replace(q, q)
    <3>1. Arrays(Runs(queue))
      BY <1>3, <2>1 DEF Arrays
    <3> QED BY <1>3, <3>1, ArraysFacts
  <2>2. CASE queue' = q /\ held' = held
    BY <1>3, <2>2 DEF InQueue, Waiting
  <2> QED BY <1>6, <2>1, <2>2
<1>8. CASE UNCHANGED <<record, held, phase>>
  <2>1. host \in Orderly(Exempt') /\ \A d \in Child : SameWork(d)
    BY <1>2, <1>8, ExemptStays, HostOrderly
  <2>2. Write(host)
    BY <1>2, <1>4, <1>8 DEF Write
  <2>3. TurnPhases'
    BY <1>2, <1>8 DEF LeaseInv, TurnPhases, AgentOf
  <2> QED BY <1>2, <1>7, <2>1, <2>2, <2>3, LeaseKept DEF LeaseInv, Orderly
<1>9. CASE record' = v.record /\ Legal(record[c], r, "running") /\ phase' = [phase EXCEPT ![r] = "claimed"]
  <2>1. \A x \in Run : phase'[x] = IF x = r THEN "claimed" ELSE phase[x]
    BY <1>9 DEF AInv, Small
  <2>2. Exempt \subseteq Exempt'
    BY <1>2, <2>1, AgentFacts DEF Exempt, FollowUpFirst
  <2>3. TurnPhases'
    <3>1. turn[c] # r
      BY <1>2, AgentFacts
    <3> QED BY <1>2, <2>1, <3>1 DEF LeaseInv, TurnPhases, AgentOf
  <2>4. ASSUME NEW d \in Child \ {c} PROVE Aside(d)
    <3>1. record'[d] = record[d]
      BY <1>4, <1>5, <1>9, AgentFacts DEF RecordedDone, Elsewhere
    <3>2. d # r /\ d \in Run
      BY <2>4, AgentFacts DEF AgentOf
    <3> QED BY <1>2, <1>7, <2>1, <3>1, <3>2 DEF Aside, Known
  <2>5. r \in FollowUp => c \in Exempt'
    BY <1>1, <2>1, AgentFacts DEF Exempt, FollowUpFirst
  <2>6. ASSUME c \notin Exempt'
        PROVE  Lone(host, c)' /\ Ruled(host, c)' /\ (Holds(host, c)' => Alone(host, c, Exempt))
    <3>1. r = c /\ c \notin Exempt
      BY <2>2, <2>5, <2>6 DEF Run, AgentOf
    <3>2. Lone(host, c) /\ Ruled(host, c) /\ (Holds(host, c) => Alone(host, c, Exempt))
      BY <1>1, <3>1 DEF LeaseInv, Order, Rules, Pairs
    <3>3. record[c] \in Record /\ record[c].life[c] # "none"
      BY <1>1, <1>3, <1>4, <3>1, <3>2, HostFacts DEF Lone
    <3>4. record[c].life[c] \notin Ran /\ record[c].life[c] \notin Terminal
      BY <1>1, <1>9, <3>1, <3>3, RanRefuses
    <3>5. phase[c] = "none" /\ Working(host, c)
      BY <1>4, <3>2, <3>3, <3>4 DEF Lone, Working
    <3>6. /\ record'[c].life[c] = "running" /\ record'[c].last.state = "running"
          /\ record'[c].leased = record[c].leased /\ record'[c].resolved = record[c].resolved
      <4>1. Lived(record[c], record'[c], c, "running")
        BY <1>4, <1>5, <1>9, <3>1 DEF RecordedDone
      <4> QED BY <3>1, <4>1 DEF Lived, SameBut
    <3>7. host'.record = record' /\ host'.entries = entries' /\ host'.queue = queue'
      BY DEF host
    <3>8. HasLease(host, c) => HasLease(host, c)'
      BY <1>2, <1>4, <3>6, <3>7 DEF HasLease, Terminal
    <3>9. (Writer(c) /\ Working(host, c) => HasLease(host, c))'
      BY <3>2, <3>5, <3>8 DEF Lone, Writer
    <3>10. Underway(host, c)'
      BY <1>2, <1>4, <3>2, <3>7 DEF Lone, Underway
    <3>11. Lone(host, c)'
      BY <3>6, <3>7, <3>9, <3>10 DEF Lone, Terminal, Ran
    <3>12. Ruled(host, c)'
      BY <1>2, <1>4, <3>2, <3>5, <3>6, <3>7 DEF Ruled, Decided
    <3>13. Holds(host, c)' => Holds(host, c)
      BY <1>2, <3>5 DEF Holds, Known
    <3> QED BY <3>2, <3>11, <3>12, <3>13
  <2> QED BY <1>1, <2>2, <2>3, <2>4, <2>6, LeaseOne DEF LeaseInv
<1> QED BY <1>1, <1>8, <1>9 DEF ClaimDone, v

(* A claimed run whose turn begins, or does not.                           *)
LEMMA PhaseLease ==
  ASSUME AInv, LeaseInv, NEW r \in Run, phase[r] = "claimed", NEW p \in {"turn", "over"},
         phase' = [phase EXCEPT ![r] = p],
         UNCHANGED <<sessions, queue, record, entries, conflict, apart, closed, held, waived>>
  PROVE  Order(host, Exempt)' /\ Rules(host, Exempt)'
<1> DEFINE c == AgentOf(r)
<1>0. c \in Child /\ c \in Agent /\ host' = host
  BY AgentFacts DEF host
<1>1. \A x \in Run : phase'[x] = IF x = r THEN p ELSE phase[x]
  BY DEF AInv, Small
<1>2. Exempt \subseteq Exempt' /\ (r \in FollowUp => c \in Exempt)
  BY <1>0, <1>1, AgentFacts DEF Exempt, FollowUpFirst
<1>3. \A d \in Child : (InQueue(d)' = InQueue(d)) /\ (Known(d)' = Known(d))
  BY DEF InQueue, Waiting, Known
<1>4. ASSUME NEW d \in Child \ {c} PROVE Aside(d)
  <2>1. d # r /\ d \in Run
    BY <1>4, AgentFacts DEF AgentOf
  <2> QED BY <1>1, <1>3, <2>1 DEF Aside
<1>5. ASSUME c \notin Exempt'
      PROVE  Lone(host, c)' /\ Ruled(host, c)' /\ (Holds(host, c)' => Alone(host, c, Exempt))
  <2>1. r = c /\ c \notin Exempt
    BY <1>2, <1>5 DEF Run, AgentOf
  <2>2. Lone(host, c) /\ Ruled(host, c) /\ (Holds(host, c) => Alone(host, c, Exempt))
    BY <1>0, <2>1 DEF LeaseInv, Order, Rules, Pairs
  <2>3. phase'[c] = p /\ host.record[c].life[c] = "running"
    BY <1>1, <2>1, <2>2 DEF Lone
  <2>4. Working(host, c)' => Working(host, c)
    BY <1>0, <2>1, <2>3 DEF Working
  <2>5. HasLease(host, c)' = HasLease(host, c) /\ Underway(host, c)' = Underway(host, c)
    BY <1>0 DEF HasLease, Underway
  <2>6. Lone(host, c)'
    BY <1>0, <1>3, <2>2, <2>3, <2>4, <2>5 DEF Lone, Ran, Writer
  <2>7. Ruled(host, c)'
    BY <1>0, <2>2, <2>4 DEF Ruled, Decided
  <2>8. Holds(host, c)' => Holds(host, c)
    BY <1>3, <2>4, <1>0 DEF Holds
  <2> QED BY <2>2, <2>6, <2>7, <2>8
<1> QED BY <1>0, <1>2, <1>4, <1>5, LeaseOne DEF LeaseInv

LEMMA BeginTurnLease ==
  ASSUME AInv, LeaseInv, NEW r \in Run, BeginTurn(r) \/ NoTurn(r)
  PROVE  LeaseInv'
<1>0. r # NoRun /\ AgentOf(r) \in Agent
  BY AgentFacts
<1>1. CASE BeginTurn(r)
  <2>1. /\ phase[r] = "claimed" /\ turn[AgentOf(r)] = NoRun
        /\ phase' = [phase EXCEPT ![r] = "turn"] /\ turn' = [turn EXCEPT ![AgentOf(r)] = r]
        /\ UNCHANGED <<sessions, queue, record, entries, conflict, apart, closed, held, waived>>
    BY <1>1 DEF BeginTurn
  <2>2. /\ \A x \in Run : phase'[x] = IF x = r THEN "turn" ELSE phase[x]
        /\ \A a \in Agent : turn'[a] = IF a = AgentOf(r) THEN r ELSE turn[a]
    BY <2>1 DEF AInv, Small
  <2>3. TurnPhases'
    <3>1. ASSUME NEW x \in Run PROVE phase'[x] = "turn" <=> turn'[AgentOf(x)] = x
      <4>1. AgentOf(x) \in Agent /\ x # NoRun /\ (phase[x] = "turn" <=> turn[AgentOf(x)] = x)
        BY AgentFacts DEF LeaseInv, TurnPhases
      <4> QED BY <2>1, <2>2, <4>1
    <3> QED BY <3>1 DEF TurnPhases, AgentOf
  <2> QED BY <2>1, <2>3, PhaseLease DEF LeaseInv
<1>2. CASE NoTurn(r)
  <2>1. /\ phase[r] = "claimed" /\ phase' = [phase EXCEPT ![r] = "over"]
        /\ UNCHANGED <<sessions, queue, record, entries, turn, conflict, apart, closed, held, waived>>
    BY <1>2 DEF NoTurn
  <2>2. \A x \in Run : phase'[x] = IF x = r THEN "over" ELSE phase[x]
    BY <2>1 DEF AInv, Small
  <2>3. TurnPhases'
    BY <2>1, <2>2 DEF LeaseInv, TurnPhases, AgentOf
  <2> QED BY <2>1, <2>3, PhaseLease DEF LeaseInv
<1> QED BY <1>1, <1>2

(* When a turn ends its first run is over: the flush leaves it begun or    *)
(* ended.                                                                  *)
LEMMA EndedRan ==
  ASSUME AInv, NEW c \in Child, turn[c] # NoRun, NEW st \in Terminal, record[c].life[c] \in Ran, Underway(host, c)
  PROVE  Seen(Ended(c, c, st), c).life[c] \in Ran
<1> DEFINE w == Ended(c, c, st)
           e == Life(c, st)
<1>0. /\ c \in Agent /\ c \in Run /\ w \in HostState /\ host \in HostState
      /\ host.record = record /\ host.entries = entries /\ entries[c] \in Seq(Event)
      /\ e \in Event /\ e.what \in Ran
  <2>1. c \in Agent /\ c \in Run
    BY AgentFacts
  <2>2. host \in HostState /\ host.record = record /\ host.entries = entries /\ w \in HostState
    BY <2>1, EndedType, HostType
  <2>3. entries[c] \in Seq(Event)
    BY <2>1 DEF AInv, Filed
  <2>4. e \in Event /\ e.what \in Ran
    BY <2>1, EventType DEF Ran, Life, Terminal, LifeState
  <2> QED BY <2>1, <2>2, <2>3, <2>4
<1>1. w.record[c] \in Record /\ w.entries[c] \in Seq(Event)
  BY <1>0, HostFacts
<1>2. w = host \/ PutDone(host, w, c, e)
  BY <1>0, EndedType
<1> HIDE DEF w, e
<1>3. w.record[c] = record[c] /\ w.entries[c] \in {entries[c], Append(entries[c], e)}
  BY <1>0, <1>2 DEF PutDone
<1>4. \A i \in DOMAIN entries[c] : entries[c][i].type = "life" /\ entries[c][i].of = c => entries[c][i].what \in Ran
  BY <1>0 DEF Underway
<1>5. \A i \in DOMAIN w.entries[c] :
        w.entries[c][i].type = "life" /\ w.entries[c][i].of = c => w.entries[c][i].what \in Ran
  <2> DEFINE es == entries[c]
             fs == w.entries[c]
  <2>1. es \in Seq(Event) /\ (fs = es \/ fs = Append(es, e))
    BY <1>0, <1>3
  <2>2. \A i \in DOMAIN es : es[i].type = "life" /\ es[i].of = c => es[i].what \in Ran
    BY <1>4
  <2> HIDE DEF es, fs
  <2>3. \A i \in DOMAIN fs : (i \in DOMAIN es /\ fs[i] = es[i]) \/ fs[i] = e
    BY <2>1
  <2>4. ASSUME NEW i \in DOMAIN fs, fs[i].type = "life", fs[i].of = c PROVE fs[i].what \in Ran
    <3>1. CASE fs[i] = e
      BY <1>0, <3>1, Zenon
    <3>2. CASE i \in DOMAIN es /\ fs[i] = es[i]
      BY <2>2, <2>4, <3>2, Zenon
    <3> QED BY <2>3, <3>1, <3>2
  <2> QED BY <2>4 DEF fs
<1>6. Flushed(w.record[c], w.entries[c]).life[c] \in Ran
  BY <1>1, <1>3, <1>5, FlushedRan
<1> QED BY <1>6 DEF w, Seen

LEMMA EndTurnLease ==
  ASSUME AInv, LeaseInv, NEW r \in Run, NEW st \in Outcome, EndTurn(r, st)
  PROVE  LeaseInv'
<1> DEFINE c == AgentOf(r)
           R == Seen(Ended(c, r, st), c)
<1>0. c \in Child /\ c \in Agent /\ st \in Terminal /\ r # NoRun
  BY AgentFacts, CollaborationAssumption DEF Terminal
<1>1. /\ turn[c] = r /\ Flush(c, R) /\ phase' = [phase EXCEPT ![r] = "over"]
      /\ UNCHANGED <<sessions, queue, conflict, apart, closed, held, waived>>
  BY DEF EndTurn, Ended, Flush
<1>2. R \in Record /\ MoreMail(record[c], R)
  BY <1>0, EndedType, EndedFacts
<1>3. c \notin Exempt /\ r = c => R.life[c] \in Ran
  <2> SUFFICES ASSUME c \notin Exempt, r = c PROVE R.life[c] \in Ran
    OBVIOUS
  <2>1. Lone(host, c) /\ phase[c] = "turn"
    BY <1>0, <1>1, AgentFacts DEF LeaseInv, Order, TurnPhases
  <2>2. record[c].life[c] \in Ran /\ Underway(host, c)
    BY <2>1, HostType DEF Lone, Ran
  <2> QED BY <1>0, <1>1, <2>2, EndedRan
<1> HIDE DEF R
<1>4. \A x \in Run : phase'[x] = IF x = r THEN "over" ELSE phase[x]
  BY <1>1 DEF AInv, Small
<1>5. /\ \A b \in Agent : turn'[b] = IF b = c THEN NoRun ELSE turn[b]
      /\ \A b \in Agent : entries'[b] = IF b = c THEN <<>> ELSE entries[b]
      /\ \A b \in Agent : record'[b] = record[b] \/ (b = c /\ record'[b] = R)
  BY <1>1 DEF AInv, Filed, Small, Flush
<1>6. TurnPhases'
  <2>1. ASSUME NEW x \in Run PROVE phase'[x] = "turn" <=> turn'[AgentOf(x)] = x
    <3>1. AgentOf(x) \in Agent /\ x # NoRun /\ (phase[x] = "turn" <=> turn[AgentOf(x)] = x)
      BY AgentFacts DEF LeaseInv, TurnPhases
    <3> QED BY <1>1, <1>4, <1>5, <3>1
  <2> QED BY <2>1 DEF TurnPhases, AgentOf
<1>7. phase[r] = "turn"
  BY <1>1 DEF LeaseInv, TurnPhases
<1>8. Exempt \subseteq Exempt' /\ (r \in FollowUp => c \in Exempt)
  BY <1>0, <1>1, <1>4, <1>7, AgentFacts DEF Exempt, FollowUpFirst
<1>9. \A d \in Child : (InQueue(d)' = InQueue(d)) /\ (Known(d)' = Known(d))
  BY <1>1 DEF InQueue, Waiting, Known
<1>10. ASSUME NEW d \in Child \ {c} PROVE Aside(d)
  <2>1. d # r /\ d \in Run /\ d \in Agent
    BY <1>10, AgentFacts DEF AgentOf
  <2> QED BY <1>1, <1>4, <1>5, <1>9, <1>10, <2>1 DEF Aside
<1>11. ASSUME c \notin Exempt'
       PROVE  Lone(host, c)' /\ Ruled(host, c)' /\ (Holds(host, c)' => Alone(host, c, Exempt))
  <2>1. r = c /\ c \notin Exempt
    BY <1>8, <1>11 DEF Run, AgentOf
  <2>2. Lone(host, c) /\ host.record = record
    BY <1>0, <2>1, HostType DEF LeaseInv, Order
  <2>3. host'.record = record' /\ host'.entries = entries' /\ host'.queue = queue'
    BY DEF host
  <2>4. phase'[c] = "over" /\ entries'[c] = <<>>
    BY <1>0, <1>4, <1>5, <2>1
  <2>5. record[c].life[c] = "running" /\ record[c].last.state # "none"
    BY <1>7, <2>1, <2>2 DEF Lone
  <2>6. record'[c].life[c] \in Ran /\ record'[c].last.state # "none"
    BY <1>0, <1>2, <1>3, <1>5, <2>1, <2>5 DEF MoreMail, Ran
  <2>7. ~Working(host, c)'
    BY <2>4 DEF Working
  <2>8. Underway(host, c)'
    BY <2>3, <2>4 DEF Underway
  <2>9. Lone(host, c)'
    BY <2>3, <2>4, <2>6, <2>7, <2>8 DEF Lone, Ran, Terminal
  <2> QED BY <2>7, <2>9 DEF Ruled, Holds
<1> QED BY <1>0, <1>6, <1>8, <1>10, <1>11, LeaseOne DEF LeaseInv

LEMMA RootTurnLease ==
  ASSUME AInv, LeaseInv, BeginRootTurn \/ EndRootTurn
  PROVE  LeaseInv'
<1> DEFINE v == [record |-> record', entries |-> entries', queue |-> queue]
<1>0. /\ Root \in Agent /\ host.record = record /\ host.entries = entries /\ host.queue = queue
      /\ \A c \in Child : c # Root /\ c \in Agent
  BY AgentFacts, HostType, CollaborationAssumption
<1>1. /\ \A c \in Child : turn'[c] = turn[c] /\ record'[c] = record[c] /\ entries'[c] = entries[c]
      /\ UNCHANGED <<sessions, queue, phase, conflict, apart, closed, held, waived>>
  BY <1>0 DEF BeginRootTurn, EndRootTurn, AInv, Filed, Small
<1>2. TurnPhases'
  BY <1>1, AgentFacts DEF LeaseInv, TurnPhases, AgentOf
<1>3. Exempt' = Exempt /\ \A c \in Child : SameWork(c)
  BY <1>1 DEF Exempt, FollowUpFirst, SameWork
<1>4. Write(v) /\ v.queue = queue
  BY DEF Write
<1>5. \A c \in Child \ Exempt' : Keen(host, v, c)
  BY <1>0, <1>1, UntouchedKeen
<1> HIDE DEF v
<1>6. Order(v, Exempt') /\ Rules(v, Exempt')
  BY <1>3, <1>5, OrderKept DEF LeaseInv
<1>7. \A c \in Child : InQueue(c)' => InQueue(c)
  BY <1>1 DEF InQueue, Waiting
<1> QED BY <1>1, <1>2, <1>3, <1>4, <1>6, <1>7, LeaseKept DEF LeaseInv

LEMMA LeaseInit ==
  ASSUME Init PROVE LeaseInv
<1>1. /\ \A c \in Child : /\ record[c].life[c] = "none" /\ record[c].last.state = "none" /\ entries[c] = <<>>
                          /\ conflict[c] = NoRun /\ phase[c] = "none" /\ c # Other
      /\ held = NoWait /\ closed = {} /\ host.record = record /\ host.entries = entries /\ host.queue = queue
  BY AgentFacts DEF Init, host
<1>2. TurnPhases
  BY AgentFacts DEF Init, TurnPhases
<1>3. \A c \in Child : c \notin Runs(queue)
  <2>1. queue \in {<<>>, <<[run |-> Other, agent |-> Other, status |-> "running"]>>}
    BY DEF Init
  <2>2. Runs(<<>>) = {} /\ Runs(<<[run |-> Other, agent |-> Other, status |-> "running"]>>) \subseteq {Other}
    BY DEF Runs
  <2> QED BY <1>1, <2>1, <2>2
<1>4. \A c \in Child : ~Working(host, c) /\ ~InQueue(c) /\ Underway(host, c)
  BY <1>1, <1>3 DEF Working, InQueue, Waiting, Underway
<1>5. \A c \in Child : Lone(host, c) /\ Ruled(host, c) /\ ~Holds(host, c)
  BY <1>1, <1>3, <1>4 DEF Lone, Ruled, Holds, Terminal
<1> QED BY <1>2, <1>5 DEF LeaseInv, Order, Rules, Pairs

LEMMA LeaseStep ==
  ASSUME AInv, LeaseInv, [Next]_vars PROVE LeaseInv'
<1>1. CASE UNCHANGED vars
  BY <1>1 DEF vars, agents, LeaseInv, TurnPhases, AgentOf, Exempt, FollowUpFirst, Order, Rules, Pairs, Alone, Lone,
             Ruled, Holds, Working, HasLease, Underway, InQueue, Waiting, host, Known, Decided
<1>2. ASSUME NEW c \in Child
      PROVE  /\ Spawn(c) \/ Interrupt(c) \/ Close(c) \/ Serialize(c) => LeaseInv'
             /\ CancelBlocked(c) \/ MoveApart(c) \/ Narrow(c) \/ ReleaseOwner(c) => LeaseInv'
  BY SpawnLease, InterruptLease, SimpleLease, SerializeLease, CancelLease, MoveApartLease, NarrowLease,
     ReleaseOwnerLease
<1>3. ASSUME NEW m \in Mail PROVE Send(m) \/ SendFollowUp(m) \/ Ack(m) => LeaseInv'
  BY MessageLease, SendFollowUpLease
<1>4. ASSUME NEW a \in Agent PROVE Consume(a) \/ Wait(a) => LeaseInv'
  BY MessageLease, SimpleLease
<1>5. ASSUME NEW r \in Run PROVE Claim(r) \/ BeginTurn(r) \/ NoTurn(r) => LeaseInv'
  BY ClaimLease, BeginTurnLease
<1> QED
  BY <1>1, <1>2, <1>3, <1>4, <1>5, SimpleLease, RootTurnLease, EndTurnLease, SettleLease DEF Next

(* Two children whose write scopes overlap are not both in their first     *)
(* turn, unless one of them was moved apart, interrupted, made to give up  *)
(* its lease, or had a follow-up claimed first: spawning, resumption after *)
(* a settlement, and the decisions on conflicts give the scope to one      *)
(* child at a time, in every order.                                        *)
THEOREM WritersDisjointHolds == Spec => []WritersDisjoint
<1>1. AInv /\ LeaseInv => WritersDisjoint
  <2> SUFFICES ASSUME AInv, LeaseInv, NEW p \in Overlap, turn[p[1]] = p[1], turn[p[2]] = p[2],
                      {p[1], p[2]} \subseteq ToSet(sessions),
                      p[1] \notin Exempt, p[2] \notin Exempt
               PROVE  FALSE
    BY CollaborationAssumption DEF WritersDisjoint, Exempt
  <2>0. p \in Child \X Child
    BY CollaborationAssumption
  <2>1. p[1] \in Child /\ p[2] \in Child /\ p = <<p[1], p[2]>>
    BY <2>0
  <2>2. ASSUME NEW c \in Child \ Exempt, turn[c] = c, c \in ToSet(sessions) PROVE Holds(host, c)
    <3>1. phase[c] = "turn"
      BY <2>2, AgentFacts DEF LeaseInv, TurnPhases
    <3>2. host.record[c].life[c] = "running"
      BY <2>2, <3>1 DEF LeaseInv, Order, Lone
    <3> QED BY <2>2, <3>1, <3>2 DEF Holds, Known, Working, Terminal
  <2>3. Holds(host, p[1]) /\ Holds(host, p[2])
    BY <2>1, <2>2
  <2>4. Alone(host, p[1], Exempt)
    BY <2>1, <2>3 DEF LeaseInv, Order, Pairs
  <2> QED BY <2>1, <2>3, <2>4 DEF Alone
<1>2. Init => AInv /\ LeaseInv
  BY AInvInit, LeaseInit
<1>3. AInv /\ LeaseInv /\ [Next]_vars => (AInv /\ LeaseInv)'
  BY AInvStep, LeaseStep
<1> QED BY <1>1, <1>2, <1>3, PTL DEF Spec

-----------------------------------------------------------------------------
(* What a parent is told of a run                                          *)

(* The state of a run as its agent's events will have it once they are     *)
(* flushed, what the parent is told of it, and how a conflict was decided. *)
Idle == {"none", "admitted", "blocked"}
Queued(q)     == {q[i].run : i \in {j \in DOMAIN q : q[j].status = "queued"}}
LifeOf(w, r)  == Seen(w, AgentOf(r)).life[r]
Said(w, r)    == Seen(w, ParentOf[AgentOf(r)]).done[r]
Rulings(w, c) == {act \in Choice : \E b \in Agent : <<c, act>> \in Seen(w, b).resolved}
Resting(w, a) == w.record[a].last.state \in Idle \/ Seen(w, a).last.state \in Idle

(* A run that was claimed is in the queue and not waiting in it, and an    *)
(* agent that has done nothing yet has no turn and no run with an event.   *)
Place(w, r) ==
  LET a == AgentOf(r)
  IN /\ phase[r] # "none" => /\ w.record[a].life[r] # "none"
                             /\ r \in Runs(w.queue) /\ r \notin Queued(w.queue)
     /\ turn[a] # NoRun => Known(a)
     /\ Resting(w, a) => turn[a] = NoRun /\ w.record[a].life[r] = "none"

(* The parent is told one thing, and that once the run has ended so.       *)
Plain(w, r) ==
  /\ Said(w, r) = {} \/ (LifeOf(w, r) \in Terminal /\ Said(w, r) = {LifeOf(w, r)})
  /\ phase[r] = "none" /\ r \in Queued(w.queue) => LifeOf(w, r) = "queued"
  /\ phase[r] = "claimed" => LifeOf(w, r) = "running"
  /\ phase[r] = "turn" => LifeOf(w, r) \in {"running", "interrupted"}
  /\ phase[r] \notin {"none", "turn"} \/ r \notin Runs(w.queue) => NoLife(w.entries[AgentOf(r)], r)

(* A child whose conflict was decided by cancelling it does not run; one   *)
(* whose conflict was decided in two ways is at odds, and nothing is said. *)
CalledOff(w, c) ==
  LifeOf(w, c) \in {"none", "cancelled"} /\ c \notin Runs(w.queue) /\ Said(w, c) \subseteq {"cancelled"}
Odd(w, r) == r \in Child /\ "cancel" \in Rulings(w, r)
Agrees(w, r) ==
  IF Odd(w, r) THEN Rulings(w, r) = {"cancel"} => CalledOff(w, r) ELSE Plain(w, r)

(* An undecided conflict keeps a child out of the queue, and of a child    *)
(* that was not spawned nothing is known.                                  *)
Dealt(w, c) ==
  /\ conflict[c] # c
  /\ conflict[c] # NoRun /\ Rulings(w, c) = {} => LifeOf(w, c) = "none" /\ c \notin Runs(w.queue)
  /\ w.record[c].last.state = "none" => conflict[c] = NoRun /\ Rulings(w, c) = {} /\ c \notin Runs(w.queue)

InAccord(w, r) == Place(w, r) /\ Agrees(w, r) /\ (r \in Child => Dealt(w, r))

ReportInv == held # Stale => \A r \in Run : InAccord(host, r)

-----------------------------------------------------------------------------
(* Handlers and one run *)

(* What leaves a run and the host's view of its agent as they are, except  *)
(* that the agent may be at work now, and the run's first event be filed.  *)
Level(w, v, r) ==
  LET a == AgentOf(r)
  IN /\ LifeOf(v, r) = LifeOf(w, r)
     /\ w.record[a].life[r] # "none" => v.record[a].life[r] # "none"
     /\ Resting(v, a) => Resting(w, a) /\ v.record[a].life[r] = w.record[a].life[r]
     /\ v.record[a].last.state = "none" => w.record[a].last.state = "none"
     /\ NoLife(w.entries[a], r) => NoLife(v.entries[a], r)
     /\ r \in Runs(v.queue) <=> r \in Runs(w.queue)
     /\ r \in Queued(v.queue) <=> r \in Queued(w.queue)
Still(w, v, r) ==
  Level(w, v, r) /\ Said(v, r) = Said(w, r) /\ (r \in Child => Rulings(v, r) = Rulings(w, r))

(* A queue that was the host's before some children were resumed.          *)
Shelved(w, r) == phase[r] = "none" /\ NoLife(w.entries[AgentOf(r)], r)
Beyond(q, w, r) ==
  /\ r \in Runs(q) => r \in Runs(w.queue)
  /\ r \in Queued(q) => r \in Queued(w.queue)
  /\ r \in Runs(w.queue) /\ r \notin Runs(q) => Shelved(w, r)
Concord(q) == {w \in HostState : \A r \in Run : InAccord(w, r) /\ Beyond(q, w, r)}

LEMMA LevelFacts ==
  ASSUME NEW r
  PROVE  /\ \A w : Level(w, w, r) /\ Still(w, w, r)
         /\ \A w, v, u : Level(w, v, r) /\ Level(v, u, r) => Level(w, u, r)
         /\ \A w, v, u : Still(w, v, r) /\ Still(v, u, r) => Still(w, u, r)
<1>1. \A w : Level(w, w, r)
  BY DEF Level
<1>2. \A w, v, u : Level(w, v, r) /\ Level(v, u, r) => Level(w, u, r)
  BY DEF Level
<1> QED BY <1>1, <1>2 DEF Still

LEMMA LevelAccord ==
  ASSUME NEW w, NEW v, NEW r, Level(w, v, r)
  PROVE  /\ Place(w, r) => Place(v, r)
         /\ Said(v, r) = Said(w, r) /\ Plain(w, r) => Plain(v, r)
         /\ Said(v, r) = Said(w, r) /\ CalledOff(w, r) => CalledOff(v, r)
<1>1. Place(w, r) => Place(v, r)
  BY DEF Level, Place
<1>2. Said(v, r) = Said(w, r) /\ Plain(w, r) => Plain(v, r)
  BY DEF Level, Plain
<1>3. Said(v, r) = Said(w, r) /\ CalledOff(w, r) => CalledOff(v, r)
  BY DEF Level, CalledOff
<1> QED BY <1>1, <1>2, <1>3

LEMMA StillAccord ==
  ASSUME NEW w, NEW v, NEW r, Still(w, v, r)
  PROVE  /\ InAccord(w, r) => InAccord(v, r)
         /\ \A q : Beyond(q, w, r) => Beyond(q, v, r)
<1>1. Level(w, v, r) /\ Said(v, r) = Said(w, r) /\ (r \in Child => Rulings(v, r) = Rulings(w, r))
  BY DEF Still
<1>2. Agrees(w, r) => Agrees(v, r)
  BY <1>1, LevelAccord DEF Agrees, Odd
<1>3. r \in Child /\ Dealt(w, r) => Dealt(v, r)
  <2>1. r \in Child => AgentOf(r) = r
    BY DEF AgentOf
  <2> QED BY <1>1, <2>1 DEF Dealt, Level
<1>4. InAccord(w, r) => InAccord(v, r)
  BY <1>1, <1>2, <1>3, LevelAccord DEF InAccord
<1>5. \A q : Beyond(q, w, r) => Beyond(q, v, r)
  BY <1>1 DEF Beyond, Level, Shelved
<1> QED BY <1>4, <1>5

LEMMA StillConcord ==
  ASSUME NEW q, NEW w \in Concord(q), NEW v \in HostState, \A r \in Run : Still(w, v, r)
  PROVE  v \in Concord(q)
BY StillAccord DEF Concord

-----------------------------------------------------------------------------
(* Events that are not of the lifecycle *)

LEMMA NoLifeMore ==
  ASSUME NEW es \in Seq(Event), NEW e \in Event, NEW r, NoLife(es, r), e.type = "life" => e.of # r
  PROVE  NoLife(Append(es, e), r)
<1> DEFINE fs == Append(es, e)
<1>1. \A i \in DOMAIN fs : (i \in DOMAIN es /\ fs[i] = es[i]) \/ fs[i] = e
  OBVIOUS
<1> HIDE DEF fs
<1>2. NoLife(fs, r)
  <2>1. ASSUME NEW i \in DOMAIN fs, fs[i].type = "life" PROVE fs[i].of # r
    <3>1. CASE fs[i] = e
      BY <2>1, <3>1, Zenon
    <3>2. CASE i \in DOMAIN es /\ fs[i] = es[i]
      BY <2>1, <3>2, Zenon DEF NoLife
    <3> QED BY <1>1, <3>1, <3>2
  <2> QED BY <2>1 DEF NoLife
<1> QED BY <1>2 DEF fs

(* What an agent's record, and its recorder, say of lives.                 *)
SameLives(w, v, b) ==
  /\ Seen(v, b).life = Seen(w, b).life /\ Seen(v, b).last = Seen(w, b).last
  /\ v.record[b].life = w.record[b].life /\ v.record[b].last = w.record[b].last
  /\ \A r : NoLife(w.entries[b], r) => NoLife(v.entries[b], r)

LEMMA PutHereLives ==
  ASSUME NEW w \in HostState, NEW v, NEW b \in Agent, NEW e \in Event, PutHere(w, v, b, e), e.type # "life"
  PROVE  SameLives(w, v, b)
<1> DEFINE R == w.record[b]
           S == Seen(w, b)
           es == w.entries[b]
<1>1. R \in Record /\ S \in Record /\ es \in Seq(Event)
  BY HostFacts
<1>2. \A T \in Record : Apply(T, e).life = T.life /\ Apply(T, e).last = T.last
  BY ApplyFields
<1> HIDE DEF R, S, es
<1>3. Seen(v, b) = Apply(S, e) /\ (v.record[b] = R \/ v.record[b] = Apply(R, e))
      /\ (v.entries[b] = es \/ v.entries[b] = Append(es, e))
  BY DEF PutHere, R, S, es
<1>4. Seen(v, b).life = S.life /\ Seen(v, b).last = S.last /\ v.record[b].life = R.life /\ v.record[b].last = R.last
  BY <1>1, <1>2, <1>3
<1>5. \A r : NoLife(es, r) => NoLife(v.entries[b], r)
  BY <1>1, <1>3, NoLifeMore
<1> QED BY <1>4, <1>5 DEF SameLives, R, S, es

LEMMA LivesLevel ==
  ASSUME NEW w, NEW v, NEW r, SameLives(w, v, AgentOf(r)), v.queue = w.queue
  PROVE  Level(w, v, r)
<1>1. Resting(v, AgentOf(r)) = Resting(w, AgentOf(r))
  BY DEF SameLives, Resting
<1> QED BY <1>1 DEF SameLives, Level, LifeOf

(* An event in one record concerns the parent's report of a run, or the    *)
(* decision of a conflict, if it is one.                                   *)
LEMMA PutStill ==
  ASSUME NEW w \in HostState, NEW v, NEW b \in Agent, NEW e \in Event, PutDone(w, v, b, e), e.type # "life",
         NEW r \in Run
  PROVE  /\ Level(w, v, r)
         /\ ~(e.type = "completion" /\ e.of = r) => Said(v, r) = Said(w, r)
         /\ e.type # "resolved" => \A c : Rulings(v, c) = Rulings(w, c)
<1>0. AgentOf(r) \in Agent /\ ParentOf[AgentOf(r)] \in Agent
  BY AgentFacts
<1>1. PutHere(w, v, b, e) /\ \A a \in Agent \ {b} : Unmoved(w, v, a) /\ v.queue = w.queue
  BY DEF PutDone, PutHere, Elsewhere, Unmoved
<1>2. \A a \in Agent : SameLives(w, v, a)
  <2>1. SameLives(w, v, b)
    BY <1>1, PutHereLives
  <2> QED BY <1>1, <2>1 DEF Unmoved, SameLives
<1>3. Level(w, v, r)
  BY <1>0, <1>2, LivesLevel DEF PutDone
<1>4. ASSUME NEW p \in Agent, ~(e.type = "completion" /\ e.of = r)
      PROVE  Seen(v, p).done[r] = Seen(w, p).done[r]
  <2> DEFINE S == Seen(w, b)
  <2>1. S \in Record /\ Seen(v, b) = Apply(S, e)
    BY <1>1, HostFacts DEF PutHere
  <2> HIDE DEF S
  <2>2. Apply(S, e).done = DoneAfter(S, e)
    BY <2>1, ApplyFields
  <2>3. DoneAfter(S, e)[r] = S.done[r]
    <3>1. S.done \in [Run -> SUBSET Terminal]
      BY <2>1 DEF Record
    <3> QED BY <1>4, <3>1 DEF DoneAfter
  <2>4. CASE p = b
    BY <2>1, <2>2, <2>3, <2>4 DEF S
  <2> QED BY <1>1, <2>4 DEF Unmoved
<1>5. ASSUME e.type # "resolved", NEW p \in Agent
      PROVE  Seen(v, p).resolved = Seen(w, p).resolved
  <2> DEFINE S == Seen(w, b)
  <2>1. S \in Record /\ Seen(v, b) = Apply(S, e)
    BY <1>1, HostFacts DEF PutHere
  <2> HIDE DEF S
  <2>2. Apply(S, e).resolved = S.resolved
    BY <1>5, <2>1, ApplyFields
  <2>3. CASE p = b
    BY <2>1, <2>2, <2>3 DEF S
  <2> QED BY <1>1, <2>3 DEF Unmoved
<1>6. e.type # "resolved" => \A c : Rulings(v, c) = Rulings(w, c)
  BY <1>5 DEF Rulings
<1>7. ~(e.type = "completion" /\ e.of = r) => Said(v, r) = Said(w, r)
  BY <1>0, <1>4 DEF Said
<1> QED BY <1>3, <1>6, <1>7

(* What says nothing of lives, reports and decisions.                      *)
LEMMA QuietStill ==
  ASSUME NEW w \in HostState, NEW b \in Agent, NEW e \in Event, e.type \notin {"life", "completion", "resolved"}
  PROVE  /\ Put(w, b, e) \in HostState /\ Put(w, b, e).queue = w.queue
         /\ \A r \in Run : Still(w, Put(w, b, e), r)
         /\ \A x \in Agent : Put(w, b, e).record[x].resolved = w.record[x].resolved
<1> DEFINE v == Put(w, b, e)
<1>1. v \in HostState /\ PutDone(w, v, b, e)
  BY PutFacts
<1> HIDE DEF v
<1>2. ASSUME NEW r \in Run PROVE Still(w, v, r)
  BY <1>1, PutStill DEF Still
<1>3. ASSUME NEW x \in Agent PROVE v.record[x].resolved = w.record[x].resolved
  <2>1. CASE x # b
    BY <1>1, <2>1 DEF PutDone, Elsewhere
  <2>2. CASE x = b
    <3> DEFINE R == w.record[b]
    <3>1. R \in Record /\ (v.record[b] = R \/ v.record[b] = Apply(R, e))
      BY <1>1, HostFacts DEF PutDone
    <3> HIDE DEF R
    <3>2. Apply(R, e).resolved = R.resolved
      BY <3>1, ApplyFields
    <3> QED BY <2>2, <3>1, <3>2 DEF R
  <2> QED BY <2>1, <2>2
<1> QED BY <1>1, <1>2, <1>3 DEF v, PutDone

LEMMA LeaseStill ==
  ASSUME NEW w \in HostState, NEW c \in Child
  PROVE  /\ Acquire(w, c).queue = w.queue /\ Release(w, c).queue = w.queue
         /\ \A r \in Run : Still(w, Acquire(w, c), r) /\ Still(w, Release(w, c), r)
         /\ \A x \in Agent : /\ Acquire(w, c).record[x].resolved = w.record[x].resolved
                             /\ Release(w, c).record[x].resolved = w.record[x].resolved
<1>1. /\ c \in Agent /\ Note("lease", c) \in Event /\ Note("release", c) \in Event
      /\ Note("lease", c).type \notin {"life", "completion", "resolved"}
      /\ Note("release", c).type \notin {"life", "completion", "resolved"}
  BY AgentFacts, EventType DEF Note
<1>2. \A r \in Run : Still(w, w, r)
  BY LevelFacts
<1> QED BY <1>1, <1>2, QuietStill DEF Acquire, Release

LEMMA StartedStill ==
  ASSUME NEW w \in HostState, NEW m \in FollowUp
  PROVE  /\ Started(w, m) \in HostState /\ Started(w, m).queue = w.queue
         /\ \A r \in Run : Still(w, Started(w, m), r)
<1> DEFINE a == Receiver[m]
           u == Put(w, a, Note("started", m))
<1>1. /\ a \in Agent /\ Note("started", m) \in Event /\ Note("consumed", {m}) \in Event
      /\ Note("started", m).type \notin {"life", "completion", "resolved"}
      /\ Note("consumed", {m}).type \notin {"life", "completion", "resolved"}
  BY AgentFacts, EventType DEF Note
<1>2. u \in HostState /\ u.queue = w.queue /\ \A r \in Run : Still(w, u, r)
  BY <1>1, QuietStill
<1> HIDE DEF u
<1>3. /\ Put(u, a, Note("consumed", {m})) \in HostState /\ Put(u, a, Note("consumed", {m})).queue = u.queue
      /\ \A r \in Run : Still(u, Put(u, a, Note("consumed", {m})), r)
  BY <1>1, <1>2, QuietStill
<1>4. Started(w, m) = Put(u, a, Note("consumed", {m}))
  BY DEF Started, u
<1> QED BY <1>2, <1>3, <1>4, LevelFacts

-----------------------------------------------------------------------------
(* Lifecycle events *)

LEMMA LegalAfter ==
  ASSUME NEW R \in Record, NEW r \in Run, NEW st, Legal(R, r, st)
  PROVE  R.life[r] \notin Terminal
<1> SUFFICES ASSUME R.life[r] \in Terminal PROVE FALSE
  OBVIOUS
<1>1. r # NoRun /\ R.life[r] # "none"
  BY AgentFacts DEF Terminal
<1> DEFINE prev == [run |-> r, state |-> R.life[r]]
<1>2. prev.run = r /\ prev.state = R.life[r]
  OBVIOUS
<1>3. (CASE r # NoRun /\ prev.run # NoRun /\ r # prev.run ->
              st = "queued" \/ (st = "running" /\ prev.state \in Terminal)
         [] r # NoRun /\ prev.run = NoRun /\ prev.state = "admitted" -> st \in {"queued", "running"}
         [] OTHER -> st \in SameRunTransitions[prev.state])
  BY <1>1 DEF Legal
<1> HIDE DEF prev
<1>4. st \in SameRunTransitions[R.life[r]]
  BY <1>1, <1>2, <1>3
<1> QED BY <1>4 DEF SameRunTransitions, Terminal

LEMMA FlushNoLife ==
  ASSUME NEW R \in Record, NEW es \in Seq(Event), NEW r \in Run, NoLife(es, r)
  PROVE  Flushed(R, es).life[r] = R.life[r]
<1>1. Under(R, R, r, R.life[r])
  BY DEF Under, SameBut
<1> QED BY <1>1, FlushedUnder

(* What becomes of the agent whose run x enters the state st.              *)
LifeView(w, v, b, x, st) ==
  /\ v.queue = w.queue /\ Elsewhere(w, v, b)
  /\ Seen(v, b).done = Seen(w, b).done /\ Seen(v, b).resolved = Seen(w, b).resolved
  /\ v.record[b].resolved = w.record[b].resolved
  /\ Seen(v, b).last \in {Seen(w, b).last, [run |-> x, state |-> st]}
  /\ v.record[b].last \in {w.record[b].last, [run |-> x, state |-> st]}
  /\ \A y \in Run \ {x} : /\ Seen(v, b).life[y] = Seen(w, b).life[y]
                          /\ v.record[b].life[y] = w.record[b].life[y]
                          /\ NoLife(w.entries[b], y) => NoLife(v.entries[b], y)
  /\ x \in Run => /\ Seen(v, b).life[x] \in {Seen(w, b).life[x], st}
                  /\ v.record[b].life[x] \in {w.record[b].life[x], st}

LEMMA LifeViewed ==
  ASSUME NEW w \in HostState, NEW v, NEW b \in Agent, NEW x \in Run \cup {NoRun}, NEW st \in LifeState \ {"none"},
         LifeDone(w, v, b, x, st) \/ RecordedDone(w, v, b, x, st)
  PROVE  LifeView(w, v, b, x, st)
<1> DEFINE R == w.record[b]
           S == Seen(w, b)
           es == w.entries[b]
           e == Life(x, st)
<1>0. R \in Record /\ S \in Record /\ es \in Seq(Event) /\ e \in Event /\ e.of = x
  BY HostFacts, EventType DEF Life
<1>1. \A T \in Record : Lived(T, Apply(T, e), x, st)
  BY ApplyLived
<1> HIDE DEF R, S, es, e
<1>2. \A T, U : Lived(T, U, x, st) => Under(T, U, x, st)
  BY DEF Lived, Under
<1>3. \A T : Under(T, T, x, st)
  BY DEF Under, SameBut
<1>4. ASSUME Under(S, Seen(v, b), x, st), Under(R, v.record[b], x, st), v.queue = w.queue, Elsewhere(w, v, b),
             \A y \in Run \ {x} : NoLife(es, y) => NoLife(v.entries[b], y)
      PROVE  LifeView(w, v, b, x, st)
  BY <1>4 DEF Under, SameBut, LifeView, R, S, es
<1>5. CASE v = w
  BY <1>3, <1>4, <1>5 DEF R, S, es, Elsewhere
<1>6. CASE PutDone(w, v, b, e)
  <2>1. v.queue = w.queue /\ Elsewhere(w, v, b) /\ Seen(v, b) = Apply(S, e)
    BY <1>6 DEF PutDone, S
  <2>2. /\ v.record[b] = R \/ v.record[b] = Apply(R, e)
        /\ v.entries[b] = es \/ v.entries[b] = Append(es, e)
    BY <1>6 DEF PutDone, R, es
  <2>3. \A y \in Run \ {x} : NoLife(es, y) => NoLife(v.entries[b], y)
    BY <1>0, <2>2, NoLifeMore
  <2>4. Under(S, Seen(v, b), x, st) /\ Under(R, v.record[b], x, st)
    BY <1>0, <1>1, <1>2, <1>3, <2>1, <2>2
  <2> QED BY <1>4, <2>1, <2>3, <2>4
<1>7. CASE (Beneath(w, v, b, x, st) /\ v.queue = w.queue /\ Elsewhere(w, v, b)) \/ RecordedDone(w, v, b, x, st)
  <2>1. /\ v.queue = w.queue /\ Elsewhere(w, v, b) /\ Under(S, Seen(v, b), x, st)
        /\ v.record[b] = Apply(R, e) /\ v.entries = w.entries
    BY <1>7 DEF Beneath, RecordedDone, R, S, e
  <2>2. Under(R, v.record[b], x, st)
    BY <1>0, <1>1, <1>2, <2>1
  <2> QED BY <1>4, <2>1, <2>2 DEF es
<1> QED BY <1>5, <1>6, <1>7 DEF LifeDone, e

(* The other runs, of this agent and of others.                            *)
LEMMA LifeStill ==
  ASSUME NEW w \in HostState, NEW v, NEW b \in Agent, NEW x \in Run \cup {NoRun}, NEW st \in LifeState \ {"none"},
         LifeView(w, v, b, x, st), st \notin Idle \/ Resting(w, b)
  PROVE  /\ \A r \in Run : Said(v, r) = Said(w, r)
         /\ \A c : Rulings(v, c) = Rulings(w, c)
         /\ \A r \in Run \ {x} : Still(w, v, r)
         /\ \A a \in Agent : v.record[a].resolved = w.record[a].resolved
<1>1. ASSUME NEW a \in Agent
      PROVE  /\ Seen(v, a).done = Seen(w, a).done /\ Seen(v, a).resolved = Seen(w, a).resolved
             /\ v.record[a].resolved = w.record[a].resolved
  BY DEF LifeView, Elsewhere
<1>2. \A r \in Run : Said(v, r) = Said(w, r)
  BY <1>1, AgentFacts DEF Said
<1>3. \A c : Rulings(v, c) = Rulings(w, c)
  BY <1>1 DEF Rulings
<1>4. ASSUME NEW r \in Run \ {x} PROVE Level(w, v, r)
  <2> DEFINE a == AgentOf(r)
  <2>0. a \in Agent
    BY AgentFacts
  <2>1. CASE a # b
    BY <2>0, <2>1, LivesLevel DEF LifeView, Elsewhere, SameLives
  <2>2. CASE a = b
    <3>1. /\ LifeOf(v, r) = LifeOf(w, r) /\ v.record[b].life[r] = w.record[b].life[r] /\ v.queue = w.queue
          /\ NoLife(w.entries[b], r) => NoLife(v.entries[b], r)
      BY <2>2 DEF LifeView, LifeOf
    <3>2. /\ Seen(v, b).last.state \in {Seen(w, b).last.state, st}
          /\ v.record[b].last.state \in {w.record[b].last.state, st}
      BY DEF LifeView
    <3>3. Resting(v, b) => Resting(w, b)
      BY <3>2 DEF Resting
    <3> QED BY <2>2, <3>1, <3>2, <3>3 DEF Level
  <2> QED BY <2>1, <2>2
<1> QED BY <1>1, <1>2, <1>3, <1>4 DEF Still

LEMMA LifeThere ==
  ASSUME NEW R \in Record, NEW x \in Run, NEW st \in LifeState
  PROVE  Apply(R, Life(x, st)).last.state = st /\ Apply(R, Life(x, st)).life[x] = st
<1> DEFINE T == Apply(R, Life(x, st))
<1>1. x \in Run \cup {NoRun} /\ Lived(R, T, x, st)
  BY ApplyLived
<1> HIDE DEF T
<1>2. T.last.state = st /\ T.life[x] = st
  BY <1>1 DEF Lived
<1> QED BY <1>2 DEF T

(* The run itself: its agent is at work once it is told so.                *)
LEMMA LifePlace ==
  ASSUME NEW w \in HostState, NEW v, NEW x \in Run, NEW st \in LifeState \ {"none"}, st \notin Idle,
         LifeDone(w, v, AgentOf(x), x, st), Place(w, x)
  PROVE  /\ Place(v, x) /\ (v = w \/ ~Resting(v, AgentOf(x)))
         /\ LifeOf(v, x) \in {LifeOf(w, x), st}
<1> DEFINE a == AgentOf(x)
           e == Life(x, st)
           S == Seen(w, a)
           R == w.record[a]
<1>0. a \in Agent /\ S \in Record /\ R \in Record /\ x \in Run \cup {NoRun}
  BY AgentFacts, HostFacts
<1>1. LifeView(w, v, a, x, st)
  BY <1>0, LifeViewed
<1>2. \A T \in Record : Apply(T, e).last.state = st /\ Apply(T, e).life[x] = st
  BY LifeThere
<1>3. v = w \/ ~Resting(v, a)
  <2>1. CASE PutDone(w, v, a, e)
    <3>1. Seen(v, a).last.state = st
      BY <1>0, <1>2, <2>1 DEF PutDone
    <3>2. CASE turn[a] = NoRun
      <4>1. v.record[a].last.state = st
        BY <1>0, <1>2, <2>1, <3>2 DEF PutDone
      <4> QED BY <3>1, <4>1 DEF Resting
    <3>3. CASE turn[a] # NoRun
      <4>1. v.record[a] = w.record[a] /\ ~Resting(w, a)
        BY <2>1, <3>3 DEF PutDone, Place
      <4> QED BY <3>1, <4>1 DEF Resting
    <3> QED BY <3>2, <3>3
  <2>2. CASE Beneath(w, v, a, x, st)
    <3>1. v.record[a].last.state = st /\ ~Resting(w, a)
      BY <1>0, <1>2, <2>2 DEF Beneath, Place
    <3>2. Seen(v, a).last.state \in {S.last.state, st}
      BY <1>1 DEF LifeView
    <3> QED BY <3>1, <3>2 DEF Resting
  <2> QED BY <2>1, <2>2 DEF LifeDone
<1>4. /\ v.record[a].life[x] \in {R.life[x], st} /\ LifeOf(v, x) \in {LifeOf(w, x), st} /\ v.queue = w.queue
  BY <1>1 DEF LifeView, LifeOf
<1>5. Place(v, x)
  BY <1>3, <1>4 DEF Place
<1> QED BY <1>3, <1>4, <1>5

LEMMA AppendQueued ==
  ASSUME NEW q \in Seq(Item), NEW r \in Run
  PROVE  Queued(Append(q, NewItem(r))) = Queued(q) \cup {r}
<1> DEFINE e == NewItem(r)
           p == Append(q, e)
<1>1. e \in Item /\ e.run = r /\ e.status = "queued"
  BY NewItemType
<1> HIDE DEF e
<1>2. DOMAIN p = 1..(Len(q) + 1) /\ p[Len(q) + 1] = e /\ \A i \in 1..Len(q) : p[i] = q[i]
  BY <1>1, AppendFacts
<1>3. DOMAIN q = 1..Len(q) /\ Len(q) \in Nat
  OBVIOUS
<1>4. \A i \in 1..(Len(q) + 1) : i \in 1..Len(q) \/ i = Len(q) + 1
  BY <1>3
<1>5. \A i \in 1..Len(q) : i \in 1..(Len(q) + 1)
  BY <1>3
<1>6. Len(q) + 1 \in 1..(Len(q) + 1)
  BY <1>3
<1> HIDE DEF p
<1>7. Queued(p) = Queued(q) \cup {r}
  BY <1>1, <1>2, <1>3, <1>4, <1>5, <1>6, Zenon DEF Queued
<1> QED BY <1>7 DEF p, e

LEMMA QueuedRuns ==
  ASSUME NEW q PROVE Queued(q) \subseteq Runs(q)
BY DEF Queued, Runs

(* A run that is enqueued, and the others.                                 *)
LEMMA EnqueueStill ==
  ASSUME NEW w \in HostState, NEW x \in Run, CanEnqueue(w, x)
  PROVE  /\ \A r \in Run : Said(Enqueue(w, x), r) = Said(w, r)
         /\ \A c : Rulings(Enqueue(w, x), c) = Rulings(w, c)
         /\ \A r \in Run \ {x} : Still(w, Enqueue(w, x), r)
         /\ \A a \in Agent : Enqueue(w, x).record[a].resolved = w.record[a].resolved
         /\ Runs(Enqueue(w, x).queue) = Runs(w.queue) \cup {x}
         /\ Queued(Enqueue(w, x).queue) = Queued(w.queue) \cup {x}
<1> DEFINE a == AgentOf(x)
           u == PutLife(w, a, x, "queued")
           v == Enqueue(w, x)
<1>0. a \in Agent /\ x \in Run \cup {NoRun} /\ "queued" \in LifeState \ {"none"} /\ "queued" \notin Idle
  BY AgentFacts DEF LifeState, Idle
<1>1. u \in HostState /\ LifeDone(w, u, a, x, "queued")
  BY <1>0, PutLifeFacts
<1>2. EnqueueDone(w, v, x) /\ w.queue \in Seq(Item)
  BY EnqueueFacts, HostFacts
<1>3. /\ v.queue = Append(w.queue, NewItem(x)) /\ v.record = u.record /\ v.entries = u.entries
      /\ \A b \in Agent : Seen(v, b) = Seen(u, b)
  BY <1>2 DEF EnqueueDone
<1> HIDE DEF u, v
<1>4. Runs(v.queue) = Runs(w.queue) \cup {x} /\ Queued(v.queue) = Queued(w.queue) \cup {x}
  BY <1>2, <1>3, AppendRuns, AppendQueued
<1>5. /\ \A r \in Run : Said(u, r) = Said(w, r)
      /\ \A c : Rulings(u, c) = Rulings(w, c)
      /\ \A r \in Run \ {x} : Still(w, u, r)
      /\ \A b \in Agent : u.record[b].resolved = w.record[b].resolved
  BY <1>0, <1>1, LifeViewed, LifeStill
<1>6. u.queue = w.queue
  BY <1>1 DEF LifeDone
<1>7. /\ \A r \in Run : Said(v, r) = Said(u, r)
      /\ \A c : Rulings(v, c) = Rulings(u, c)
  BY <1>3, AgentFacts DEF Said, Rulings
<1>8. ASSUME NEW r \in Run \ {x} PROVE Level(u, v, r)
  <2>1. AgentOf(r) \in Agent
    BY AgentFacts
  <2>2. LifeOf(v, r) = LifeOf(u, r) /\ Resting(v, AgentOf(r)) = Resting(u, AgentOf(r))
    BY <1>3, <2>1 DEF LifeOf, Resting
  <2> QED BY <1>3, <1>4, <1>6, <2>2 DEF Level
<1>9. \A r \in Run \ {x} : Still(w, v, r)
  BY <1>5, <1>7, <1>8, LevelFacts DEF Still
<1>10. \A b \in Agent : v.record[b].resolved = w.record[b].resolved
  BY <1>3, <1>5
<1> QED BY <1>4, <1>5, <1>7, <1>9, <1>10 DEF v

LEMMA Seated ==
  ASSUME NEW w \in HostState, NEW x \in Run, CanEnqueue(w, x), Place(w, x)
  PROVE  /\ phase[x] = "none" /\ x \notin Runs(w.queue)
         /\ Place(Enqueue(w, x), x) /\ ~Resting(Enqueue(w, x), AgentOf(x))
         /\ Plain(w, x) => Plain(Enqueue(w, x), x)
         /\ turn[AgentOf(x)] = NoRun => NoLife(Enqueue(w, x).entries[AgentOf(x)], x)
<1> DEFINE a == AgentOf(x)
           u == PutLife(w, a, x, "queued")
           v == Enqueue(w, x)
<1>0. a \in Agent /\ x \in Run \cup {NoRun} /\ "queued" \in LifeState \ {"none"} /\ "queued" \notin Idle
      /\ w.record[a] \in Record /\ Seen(w, a) \in Record /\ w.entries[a] \in Seq(Event)
  BY AgentFacts, HostFacts DEF LifeState, Idle
<1>1. u \in HostState /\ LifeDone(w, u, a, x, "queued")
  BY <1>0, PutLifeFacts
<1>2. v \in HostState /\ v.record = u.record /\ v.entries = u.entries /\ \A b \in Agent : Seen(v, b) = Seen(u, b)
  BY EnqueueFacts DEF EnqueueDone
<1>3. x \notin Runs(w.queue) /\ phase[x] = "none"
  BY DEF CanEnqueue, ItemOf, Runs, Place
<1> HIDE DEF u, v
<1>4. \/ PutDone(w, u, a, Life(x, "queued")) /\ Legal(Seen(w, a), x, "queued")
      \/ Beneath(w, u, a, x, "queued")
  BY <1>1 DEF LifeDone, CanEnqueue
<1>5. Place(u, x) /\ (u = w \/ ~Resting(u, a))
  BY <1>0, <1>1, LifePlace
<1>6. ~Resting(u, a)
  <2>1. CASE PutDone(w, u, a, Life(x, "queued"))
    <3>1. Seen(u, a).last.state = "queued"
      BY <1>0, <2>1, LifeThere DEF PutDone
    <3>2. CASE turn[a] = NoRun
      <4>1. u.record[a].last.state = "queued"
        BY <1>0, <2>1, <3>2, LifeThere DEF PutDone
      <4> QED BY <3>1, <4>1 DEF Resting, Idle
    <3>3. CASE turn[a] # NoRun
      BY <1>5, <3>3 DEF Place
    <3> QED BY <3>2, <3>3
  <2>2. CASE Beneath(w, u, a, x, "queued")
    BY <1>5, <2>2 DEF Beneath, Place
  <2> QED BY <1>4, <2>1, <2>2
<1>7. ~Resting(v, a) /\ LifeOf(v, x) = LifeOf(u, x)
  BY <1>0, <1>2, <1>6 DEF Resting, LifeOf
<1>8. Place(v, x)
  BY <1>3, <1>5, <1>7 DEF Place
<1>9. turn[a] = NoRun => NoLife(v.entries[a], x)
  BY <1>0, <1>2, HostFacts DEF NoLife
<1>10. Plain(w, x) => Plain(v, x)
  <2> SUFFICES ASSUME Plain(w, x) PROVE Plain(v, x)
    OBVIOUS
  <2>1. NoLife(w.entries[a], x)
    BY <1>3 DEF Plain
  <2>2. LifeOf(w, x) = w.record[a].life[x]
    BY <1>0, <2>1, FlushNoLife DEF LifeOf, Seen
  <2>3. LifeOf(u, x) = "queued" /\ LifeOf(w, x) \notin Terminal
    <3>1. CASE PutDone(w, u, a, Life(x, "queued")) /\ Legal(Seen(w, a), x, "queued")
      BY <1>0, <3>1, LifeThere, LegalAfter DEF PutDone, LifeOf
    <3>2. CASE Beneath(w, u, a, x, "queued")
      BY <1>0, <2>1, <2>2, <3>2, LegalAfter DEF Beneath, LifeOf
    <3> QED BY <1>4, <3>1, <3>2
  <2>4. Said(v, x) = Said(w, x) /\ x \in Runs(v.queue)
    <3>1. v = Enqueue(w, x)
      BY DEF v
    <3> QED BY <3>1, EnqueueStill
  <2> QED BY <1>3, <1>7, <2>3, <2>4 DEF Plain
<1> QED BY <1>3, <1>7, <1>8, <1>9, <1>10 DEF v

-----------------------------------------------------------------------------
(* Resumption and completion *)

LEMMA EnqueueAccord ==
  ASSUME NEW q, NEW w \in Concord(q), NEW x \in Run, CanEnqueue(w, x), turn[AgentOf(x)] = NoRun,
         x \in Child => Rulings(w, x) # {"cancel"} /\ (conflict[x] = NoRun \/ Rulings(w, x) # {})
  PROVE  Enqueue(w, x) \in Concord(q)
<1> DEFINE v == Enqueue(w, x)
           a == AgentOf(x)
<1>0. w \in HostState /\ v \in HostState /\ Place(w, x) /\ Agrees(w, x) /\ (x \in Child => Dealt(w, x))
  BY EnqueueFacts DEF Concord, InAccord
<1>1. /\ phase[x] = "none" /\ Place(v, x) /\ ~Resting(v, a) /\ (Plain(w, x) => Plain(v, x))
      /\ NoLife(v.entries[a], x)
  BY <1>0, Seated
<1>2. /\ Rulings(v, x) = Rulings(w, x) /\ \A r \in Run \ {x} : Still(w, v, r)
      /\ x \in Runs(v.queue) /\ x \in Queued(v.queue)
  BY <1>0, EnqueueStill
<1> HIDE DEF v
<1>3. Agrees(v, x)
  BY <1>0, <1>1, <1>2 DEF Agrees, Odd
<1>4. x \in Child => Dealt(v, x)
  <2>1. x \in Child => a = x
    BY DEF AgentOf
  <2>2. v.record[a].last.state # "none"
    BY <1>1 DEF Resting, Idle
  <2> QED BY <1>0, <1>2, <2>1, <2>2 DEF Dealt
<1>5. InAccord(v, x) /\ Beyond(q, v, x)
  BY <1>1, <1>2, <1>3, <1>4 DEF InAccord, Beyond, Shelved
<1>6. \A r \in Run \ {x} : InAccord(v, r) /\ Beyond(q, v, r)
  BY <1>2, StillAccord DEF Concord
<1> QED BY <1>0, <1>5, <1>6 DEF Concord, v

(* The runs of the owner that makes room, and those in the queue, stay as  *)
(* they are when a child is resumed.                                       *)
Settles(w, o, r) == AgentOf(r) = o \/ r \in Runs(w.queue)

LEMMA ResumeOneAccord ==
  ASSUME NEW q, NEW w \in Concord(q), NEW x \in Child, NEW o \in Child
  PROVE  /\ ResumeOne(w, x, o) \in Concord(q)
         /\ \A r \in Run : Settles(w, o, r) => Still(w, ResumeOne(w, x, o), r)
<1> DEFINE u == Acquire(w, x)
           v == ResumeOne(w, x, o)
<1>0. w \in HostState /\ u \in HostState /\ x \in Run /\ AgentOf(x) = x /\ x \in Agent
  BY LeaseType, AgentFacts DEF Concord
<1>1. u \in Concord(q) /\ \A r \in Run : Still(w, u, r)
  BY <1>0, LeaseStill, StillConcord
<1>2. CASE v = w
  BY <1>2, LevelFacts
<1>3. CASE v = u
  BY <1>1, <1>3
<1>4. CASE Waits(w.record[x], x, o) /\ CanEnqueue(u, x) /\ v = Enqueue(u, x)
  <2>1. w.record[x].last.state = "blocked" /\ conflict[x] = o /\ <<x, "serialize">> \in w.record[x].resolved
    BY <1>4 DEF Waits
  <2>2. Place(w, x) /\ Dealt(w, x) /\ Place(u, x)
    BY <1>0, <1>1 DEF Concord, InAccord
  <2>3. turn[x] = NoRun /\ x # o
    <3>1. Resting(w, x)
      BY <2>1 DEF Resting, Idle
    <3> QED BY <1>0, <2>1, <2>2, <3>1 DEF Place, Dealt
  <2>4. "serialize" \in Rulings(u, x)
    <3>1. Seen(w, x) = w.record[x]
      BY <1>0, <2>3, HostFacts
    <3>2. "serialize" \in Choice
      BY DEF Choice
    <3>3. "serialize" \in Rulings(w, x)
      BY <1>0, <2>1, <3>1, <3>2 DEF Rulings
    <3> QED BY <1>0, <1>1, <3>3 DEF Still
  <2> HIDE DEF u, v
  <2>5. Rulings(u, x) # {"cancel"} /\ Rulings(u, x) # {}
    BY <2>4
  <2>6. v \in Concord(q)
    BY <1>0, <1>1, <1>4, <2>3, <2>5, EnqueueAccord
  <2>7. ASSUME NEW r \in Run, Settles(w, o, r) PROVE Still(w, v, r)
    <3>1. x \notin Runs(u.queue) /\ \A y \in Run \ {x} : Still(u, v, y)
      BY <1>0, <1>4, <2>2, <1>1, Seated, EnqueueStill
    <3>2. Still(w, u, r)
      BY <1>1
    <3>3. r # x
      BY <1>0, <2>3, <2>7, <3>1, <3>2 DEF Settles, Still, Level
    <3> QED BY <3>1, <3>2, <3>3, LevelFacts
  <2> QED BY <2>6, <2>7 DEF v
<1>5. v = w \/ v = u \/ (Waits(w.record[x], x, o) /\ CanEnqueue(u, x) /\ v = Enqueue(u, x))
  BY DEF ResumeOne, QueueBlocked
<1> QED BY <1>2, <1>3, <1>4, <1>5

LEMMA ResumeAccord ==
  ASSUME NEW q, NEW w \in Concord(q), NEW o \in Child, sessions \in Seq(Child)
  PROVE  /\ Resume(w, o) \in Concord(q)
         /\ \A r \in Run : Settles(w, o, r) => Still(w, Resume(w, o), r)
<1> DEFINE G == {v \in Concord(q) : \A r \in Run : Settles(w, o, r) => Still(w, v, r)}
<1>1. w \in G
  BY LevelFacts
<1>2. ASSUME NEW v \in G, NEW x \in Child PROVE ResumeOne(v, x, o) \in G
  <2> DEFINE u == ResumeOne(v, x, o)
  <2>1. u \in Concord(q) /\ \A r \in Run : Settles(v, o, r) => Still(v, u, r)
    BY ResumeOneAccord
  <2> HIDE DEF u
  <2>2. ASSUME NEW r \in Run, Settles(w, o, r) PROVE Still(w, u, r)
    <3>1. Still(w, v, r)
      BY <2>2
    <3>2. Settles(v, o, r)
      BY <2>2, <3>1 DEF Settles, Still, Level
    <3> QED BY <2>1, <3>1, <3>2, LevelFacts
  <2> QED BY <2>1, <2>2 DEF u
<1> HIDE DEF G
<1>3. Resume(w, o) \in G
  BY <1>1, <1>2, ResumeInduction
<1> QED BY <1>3 DEF G

(* What the parent may be told of a run.                                   *)
Fits(w, r, st) ==
  IF Odd(w, r) THEN Rulings(w, r) = {"cancel"} => st = "cancelled" ELSE LifeOf(w, r) = st

LEMMA ReportAccord ==
  ASSUME NEW q, NEW w \in Concord(q), NEW r \in Run, NEW st \in Terminal, Fits(w, r, st), NEW p \in Agent,
         p = ParentOf[AgentOf(r)]
  PROVE  /\ Put(w, p, Completion(r, st)) \in Concord(q)
         /\ \A x \in Run \ {r} : Still(w, Put(w, p, Completion(r, st)), x)
         /\ Level(w, Put(w, p, Completion(r, st)), r)
         /\ \A c : Rulings(Put(w, p, Completion(r, st)), c) = Rulings(w, c)
<1> DEFINE e == Completion(r, st)
           v == Put(w, p, e)
<1>0. w \in HostState /\ e \in Event /\ e.type = "completion" /\ e.of = r /\ e.what = st
  BY EventType DEF Concord, Completion
<1>1. v \in HostState /\ PutDone(w, v, p, e)
  BY <1>0, PutFacts
<1> HIDE DEF v, e
<1>2. /\ \A x \in Run : Level(w, v, x) /\ (x # r => Said(v, x) = Said(w, x))
      /\ \A c : Rulings(v, c) = Rulings(w, c)
  BY <1>0, <1>1, PutStill
<1>3. \A x \in Run \ {r} : Still(w, v, x)
  BY <1>2 DEF Still
<1>4. Said(v, r) = Said(w, r) \cup {st}
  <2> DEFINE S == Seen(w, p)
  <2>1. S \in Record /\ Seen(v, p) = Apply(S, e)
    BY <1>0, <1>1, HostFacts DEF PutDone
  <2> HIDE DEF S
  <2>2. Apply(S, e).done = DoneAfter(S, e) /\ S.done \in [Run -> SUBSET Terminal]
    BY <1>0, <2>1, ApplyFields DEF Record
  <2>3. DoneAfter(S, e)[r] = S.done[r] \cup {st}
    BY <1>0, <2>2 DEF DoneAfter
  <2> QED BY <2>1, <2>2, <2>3 DEF S, Said
<1>5. InAccord(w, r) /\ Beyond(q, w, r)
  BY DEF Concord
<1>6. Place(v, r) /\ (r \in Child => Dealt(v, r)) /\ Beyond(q, v, r)
  <2>1. r \in Child => AgentOf(r) = r
    BY DEF AgentOf
  <2>2. Level(w, v, r) /\ Rulings(v, r) = Rulings(w, r)
    BY <1>2
  <2>3. Place(v, r)
    BY <1>5, <2>2, LevelAccord DEF InAccord
  <2>4. r \in Child => Dealt(v, r)
    BY <1>5, <2>1, <2>2 DEF InAccord, Dealt, Level
  <2>5. Beyond(q, v, r)
    BY <1>5, <2>2 DEF Beyond, Level, Shelved
  <2> QED BY <2>3, <2>4, <2>5
<1>7. Agrees(v, r)
  <2>1. Odd(v, r) = Odd(w, r) /\ Level(w, v, r) /\ Rulings(v, r) = Rulings(w, r)
    BY <1>2 DEF Odd
  <2>2. CASE Odd(w, r)
    <3> SUFFICES ASSUME Rulings(w, r) = {"cancel"} PROVE CalledOff(v, r)
      BY <2>1, <2>2 DEF Agrees
    <3>1. CalledOff(w, r) /\ st = "cancelled"
      BY <1>5, <2>2 DEF InAccord, Agrees, Fits
    <3> QED BY <1>4, <2>1, <3>1 DEF CalledOff, Level
  <2>3. CASE ~Odd(w, r)
    <3>1. Plain(w, r) /\ LifeOf(w, r) = st
      BY <1>5, <2>3 DEF InAccord, Agrees, Fits
    <3>2. LifeOf(v, r) = st /\ Said(v, r) = {st}
      BY <1>4, <2>1, <3>1 DEF Level, Plain
    <3>3. Plain(v, r)
      BY <2>1, <3>1, <3>2 DEF Level, Plain
    <3> QED BY <2>1, <2>3, <3>3 DEF Agrees
  <2> QED BY <2>2, <2>3
<1>8. \A x \in Run \ {r} : InAccord(v, x) /\ Beyond(q, v, x)
  BY <1>3, StillAccord DEF Concord
<1>9. v \in Concord(q)
  BY <1>1, <1>6, <1>7, <1>8 DEF Concord, InAccord
<1> QED BY <1>2, <1>3, <1>9 DEF v, e

LEMMA CompleteAccord ==
  ASSUME NEW q, NEW w \in Concord(q), NEW r \in Run, NEW st \in Terminal, Fits(w, r, st), sessions \in Seq(Child)
  PROVE  /\ Complete(w, r, st) \in Concord(q)
         /\ \A x \in Run \ {r} : Settles(w, AgentOf(r), x) => Still(w, Complete(w, r, st), x)
         /\ Level(w, Complete(w, r, st), r)
         /\ r \in Child => Rulings(Complete(w, r, st), r) = Rulings(w, r)
<1> DEFINE c == AgentOf(r)
           p == ParentOf[c]
           u == Release(w, c)
           v == Resume(u, c)
<1>0. c \in Child /\ p \in Agent /\ w \in HostState
  BY AgentFacts DEF Concord
<1>1. u \in Concord(q) /\ \A x \in Run : Still(w, u, x)
  BY <1>0, LeaseType, LeaseStill, StillConcord
<1>2. v \in Concord(q) /\ \A x \in Run : Settles(u, c, x) => Still(u, v, x)
  <2> HIDE DEF u
  <2> QED BY <1>0, <1>1, ResumeAccord
<1>3. Complete(w, r, st) \in {w, v, Put(v, p, Completion(r, st))}
  BY DEF Complete
<1> HIDE DEF u, v
<1>4. \A x \in Run : Settles(w, c, x) => Still(w, v, x)
  <2>1. \A x \in Run : Settles(w, c, x) => Settles(u, c, x)
    BY <1>1 DEF Settles, Still, Level
  <2> QED BY <1>1, <1>2, <2>1, LevelFacts
<1>5. Still(w, v, r)
  BY <1>4 DEF Settles
<1>6. CASE Complete(w, r, st) = w
  BY <1>6, LevelFacts
<1>7. CASE Complete(w, r, st) = v
  BY <1>2, <1>4, <1>5, <1>7 DEF Still
<1>8. CASE Complete(w, r, st) = Put(v, p, Completion(r, st))
  <2>1. Fits(v, r, st)
    BY <1>5 DEF Fits, Odd, Still, Level
  <2> DEFINE z == Put(v, p, Completion(r, st))
  <2>2. /\ z \in Concord(q) /\ \A x \in Run \ {r} : Still(v, z, x)
        /\ Level(v, z, r) /\ \A d : Rulings(z, d) = Rulings(v, d)
    BY <1>0, <1>2, <2>1, ReportAccord
  <2> HIDE DEF z
  <2>3. /\ Level(w, z, r) /\ (r \in Child => Rulings(z, r) = Rulings(w, r))
    BY <1>5, <2>2, LevelFacts DEF Still
  <2>4. \A x \in Run \ {r} : Settles(w, c, x) => Still(w, z, x)
    BY <1>4, <2>2, LevelFacts
  <2> QED BY <1>8, <2>2, <2>3, <2>4 DEF z
<1> QED BY <1>3, <1>6, <1>7, <1>8

-----------------------------------------------------------------------------
(* Steps *)

LEMMA HostAccord ==
  ASSUME AInv, ReportInv, held # Stale
  PROVE  host \in Concord(queue)
<1>1. host \in HostState /\ host.queue = queue
  BY HostType
<1>2. \A r \in Run : InAccord(host, r) /\ Beyond(queue, host, r)
  BY <1>1 DEF ReportInv, Beyond
<1> QED BY <1>1, <1>2 DEF Concord

(* A wait that ends puts nothing back, or no more is said.                 *)
LEMMA NotStale ==
  ASSUME held' # Stale
  PROVE  /\ held' = held \/ Waiting => held # Stale
         /\ \A old, q : Replace(old, q) \/ Commit(old, q) => held # Stale /\ queue' = q
         /\ \A old : Waiting /\ Wake(old) => held # Stale /\ queue' = old /\ sessions' = sessions
<1>1. held' = held \/ Waiting => held # Stale
  BY DEF Waiting
<1>2. ASSUME NEW old, NEW q, Replace(old, q) \/ Commit(old, q) PROVE held # Stale /\ queue' = q
  <2>1. queue' = q /\ (held' = held \/ Waiting)
    BY <1>2 DEF Replace, Commit
  <2> QED BY <1>1, <2>1
<1>3. ASSUME NEW old, Waiting, Wake(old) PROVE held # Stale /\ queue' = old /\ sessions' = sessions
  BY <1>1, <1>3 DEF Wake
<1> QED BY <1>1, <1>2, <1>3

LEMMA HostPrimed ==
  ASSUME NEW v, Write(v), NEW r \in Run
  PROVE  /\ host'.record = v.record /\ host'.entries = v.entries /\ host'.queue = queue'
         /\ LifeOf(host, r)' = LifeOf(v, r) /\ Said(host, r)' = Said(v, r)
         /\ Rulings(host, r)' = Rulings(v, r) /\ Resting(host, AgentOf(r))' = Resting(v, AgentOf(r))
<1>1. host'.record = v.record /\ host'.entries = v.entries /\ host'.queue = queue'
  BY DEF host, Write
<1>2. \A b : Seen(host, b)' = Seen(v, b)
  BY <1>1 DEF Seen
<1>3. LifeOf(host, r)' = LifeOf(v, r) /\ Said(host, r)' = Said(v, r)
  BY <1>2 DEF LifeOf, Said, AgentOf
<1>4. Rulings(host, r)' = Rulings(v, r)
  BY <1>2 DEF Rulings
<1>5. Resting(host, AgentOf(r))' = Resting(v, AgentOf(r))
  BY <1>1, <1>2 DEF Resting, AgentOf
<1> QED BY <1>1, <1>3, <1>4, <1>5

(* A run in accord stays so: its phase may go on after the turn, its agent *)
(* may leave a turn or, at work, begin one.                                *)
Onward(r) ==
  phase'[r] = phase[r] \/ (phase[r] \notin {"none", "turn"} /\ phase'[r] \in {"over", "again", "done"})
SameDispute(r) == r \in Child => conflict'[r] = conflict[r]
TurnAs(v, a) == turn'[a] \in {NoRun, turn[a]} \/ (Known(a) /\ ~Resting(v, a))

LEMMA AccordKept ==
  ASSUME NEW v, NEW r \in Run, InAccord(v, r), Beyond(queue', v, r), Write(v),
         ToSet(sessions) \subseteq ToSet(sessions'), Onward(r), TurnAs(v, AgentOf(r))
  PROVE  Place(host, r)' /\ Agrees(host, r)' /\ (SameDispute(r) => InAccord(host, r)')
<1> DEFINE a == AgentOf(r)
<1>0. /\ host'.record = v.record /\ host'.entries = v.entries /\ host'.queue = queue'
      /\ LifeOf(host, r)' = LifeOf(v, r) /\ Said(host, r)' = Said(v, r)
      /\ Rulings(host, r)' = Rulings(v, r) /\ Resting(host, a)' = Resting(v, a)
  BY HostPrimed
<1>1. Place(v, r) /\ Agrees(v, r) /\ (r \in Child => Dealt(v, r))
  BY DEF InAccord
<1>2. /\ r \in Runs(queue') => r \in Runs(v.queue)
      /\ r \in Queued(queue') => r \in Queued(v.queue)
      /\ r \in Runs(v.queue) /\ r \notin Runs(queue') => phase[r] = "none" /\ NoLife(v.entries[a], r)
  BY DEF Beyond, Shelved
<1>3. phase'[r] = phase[r] \/ (phase[r] \notin {"none", "turn"} /\ phase'[r] \in {"over", "again", "done"})
  BY DEF Onward
<1>4. Known(a) => Known(a)'
  BY DEF Known, AgentOf
<1>5. Place(host, r)'
  <2>1. phase'[r] # "none" => v.record[a].life[r] # "none" /\ r \in Runs(queue') /\ r \notin Queued(queue')
    BY <1>1, <1>2, <1>3 DEF Place
  <2>2. turn'[a] # NoRun => Known(a)'
    BY <1>1, <1>4 DEF Place, TurnAs
  <2>3. Resting(v, a) => turn'[a] = NoRun /\ v.record[a].life[r] = "none"
    BY <1>1 DEF Place, TurnAs
  <2> QED BY <1>0, <2>1, <2>2, <2>3 DEF Place, AgentOf
<1>6. Plain(v, r) => Plain(host, r)'
  <2> SUFFICES ASSUME Plain(v, r) PROVE Plain(host, r)'
    OBVIOUS
  <2>1. /\ phase'[r] = "none" /\ r \in Queued(queue') => LifeOf(v, r) = "queued"
        /\ phase'[r] = "claimed" => LifeOf(v, r) = "running"
        /\ phase'[r] = "turn" => LifeOf(v, r) \in {"running", "interrupted"}
    BY <1>2, <1>3 DEF Plain
  <2>2. phase'[r] \notin {"none", "turn"} \/ r \notin Runs(queue') => NoLife(v.entries[a], r)
    BY <1>2, <1>3 DEF Plain
  <2>3. Said(v, r) = {} \/ (LifeOf(v, r) \in Terminal /\ Said(v, r) = {LifeOf(v, r)})
    BY DEF Plain
  <2> QED BY <1>0, <2>1, <2>2, <2>3 DEF Plain, AgentOf
<1>7. Agrees(host, r)'
  <2>1. Odd(host, r)' = Odd(v, r)
    BY <1>0 DEF Odd
  <2>2. CalledOff(v, r) => CalledOff(host, r)'
    BY <1>0, <1>2 DEF CalledOff
  <2> QED BY <1>0, <1>1, <1>6, <2>1, <2>2 DEF Agrees
<1>8. SameDispute(r) /\ r \in Child => Dealt(host, r)'
  BY <1>0, <1>1, <1>2 DEF Dealt, SameDispute
<1> QED BY <1>5, <1>7, <1>8 DEF InAccord

(* A handler that changes neither turns nor phases.                        *)
LEMMA AccordHandler ==
  ASSUME NEW v \in Concord(queue'), Write(v), turn' = turn, phase' = phase, conflict' = conflict,
         ToSet(sessions) \subseteq ToSet(sessions')
  PROVE  ReportInv'
<1>1. \A r \in Run : InAccord(v, r) /\ Beyond(queue', v, r) /\ Onward(r) /\ TurnAs(v, AgentOf(r)) /\ SameDispute(r)
  BY DEF Concord, Onward, TurnAs, SameDispute
<1>2. \A r \in Run : InAccord(host, r)'
  BY <1>1, AccordKept
<1> QED BY <1>2 DEF ReportInv

LEMMA MessageAccord ==
  ASSUME AInv, ReportInv, NEW m \in Mail, Send(m) \/ Ack(m)
  PROVE  ReportInv'
<1> SUFFICES ASSUME held' # Stale PROVE ReportInv'
  BY DEF ReportInv
<1> DEFINE a == Receiver[m]
<1>0. a \in Agent /\ Note("mail", m) \in Event /\ Note("acked", m) \in Event
      /\ Note("mail", m).type \notin {"life", "completion", "resolved"}
      /\ Note("acked", m).type \notin {"life", "completion", "resolved"}
  BY AgentFacts, EventType DEF Note
<1>1. /\ held # Stale /\ queue' = queue /\ sessions' = sessions
      /\ turn' = turn /\ phase' = phase /\ conflict' = conflict
      /\ Write(Put(host, a, Note("mail", m))) \/ Write(Put(host, a, Note("acked", m)))
  BY NotStale DEF Send, Ack, Wakes, agents
<1>2. host \in Concord(queue) /\ host \in HostState
  BY <1>1, HostAccord, HostType
<1>3. Put(host, a, Note("mail", m)) \in Concord(queue) /\ Put(host, a, Note("acked", m)) \in Concord(queue)
  BY <1>0, <1>2, QuietStill, StillConcord
<1> QED BY <1>1, <1>3, AccordHandler

LEMMA ConsumeAccord ==
  ASSUME AInv, ReportInv, NEW a \in Agent, Consume(a)
  PROVE  ReportInv'
<1> SUFFICES ASSUME held' # Stale PROVE ReportInv'
  BY DEF ReportInv
<1> DEFINE d == Note("consumed", Unread(a))
           e == Note("read", record[a].unread)
           u == Put(host, a, d)
           v == Put(u, a, e)
<1>0. d \in Event /\ e \in Event
      /\ d.type \notin {"life", "completion", "resolved"} /\ e.type \notin {"life", "completion", "resolved"}
  <2>1. record[a].unread \in SUBSET Run /\ Unread(a) \in SUBSET Mail
    BY DEF AInv, Filed, Record, Unread
  <2> QED BY <2>1, EventType DEF Note
<1>1. /\ held # Stale /\ queue' = queue /\ sessions' = sessions
      /\ turn' = turn /\ phase' = phase /\ conflict' = conflict /\ Write(v)
  BY NotStale DEF Consume, agents
<1> HIDE DEF d, e
<1>2. host \in Concord(queue) /\ host \in HostState
  BY <1>1, HostAccord, HostType
<1>3. u \in Concord(queue) /\ u \in HostState
  BY <1>0, <1>2, QuietStill, StillConcord
<1> HIDE DEF u
<1>4. v \in Concord(queue)
  BY <1>0, <1>3, QuietStill, StillConcord
<1> QED BY <1>1, <1>4, AccordHandler

LEMMA SimpleAccord ==
  ASSUME AInv, ReportInv,
         WaitTimesOut \/ (\E a \in Agent : Wait(a)) \/ (\E c \in Child : Close(c))
  PROVE  ReportInv'
<1> SUFFICES ASSUME held' # Stale PROVE ReportInv'
  BY DEF ReportInv
<1>1. /\ held # Stale /\ queue' = queue /\ sessions' = sessions /\ Write(host)
      /\ turn' = turn /\ phase' = phase /\ conflict' = conflict
  <2>1. CASE WaitTimesOut
    BY <2>1, NotStale, HostType DEF WaitTimesOut, Write, agents
  <2>2. CASE \E a \in Agent : Wait(a)
    BY <2>2, HostType, CollaborationAssumption DEF Wait, Write, agents
  <2>3. CASE \E c \in Child : Close(c)
    BY <2>3, NotStale, HostType DEF Close, Write
  <2> QED BY <2>1, <2>2, <2>3
<1>2. host \in Concord(queue)
  BY <1>1, HostAccord
<1> QED BY <1>1, <1>2, AccordHandler

LEMMA LegalInterrupt ==
  ASSUME NEW R \in Record, NEW r \in Run, R.life[r] \in {"queued", "running"}
  PROVE  Legal(R, r, "interrupted")
<1> DEFINE prev == [run |-> r, state |-> R.life[r]]
<1>1. r # NoRun /\ R.life[r] # "none"
  BY AgentFacts
<1>2. prev.run = r /\ prev.state = R.life[r] /\ prev # [run |-> r, state |-> "interrupted"]
  OBVIOUS
<1>3. "interrupted" \in SameRunTransitions[R.life[r]]
  BY DEF SameRunTransitions, Terminal
<1> HIDE DEF prev
<1>4. (CASE r # NoRun /\ prev.run # NoRun /\ r # prev.run ->
              "interrupted" = "queued" \/ ("interrupted" = "running" /\ prev.state \in Terminal)
         [] r # NoRun /\ prev.run = NoRun /\ prev.state = "admitted" -> "interrupted" \in {"queued", "running"}
         [] OTHER -> "interrupted" \in SameRunTransitions[prev.state])
  BY <1>1, <1>2, <1>3
<1>5. Legal(R, r, "interrupted") <=>
        /\ prev # [run |-> r, state |-> "interrupted"]
        /\ (CASE r # NoRun /\ prev.run # NoRun /\ r # prev.run ->
                   "interrupted" = "queued" \/ ("interrupted" = "running" /\ prev.state \in Terminal)
              [] r # NoRun /\ prev.run = NoRun /\ prev.state = "admitted" -> "interrupted" \in {"queued", "running"}
              [] OTHER -> "interrupted" \in SameRunTransitions[prev.state])
  BY <1>1 DEF Legal, prev
<1> QED BY <1>2, <1>4, <1>5

LEMMA ConcordSelf ==
  ASSUME NEW q, NEW w \in Concord(q)
  PROVE  w \in Concord(w.queue)
BY DEF Concord, Beyond

-----------------------------------------------------------------------------
(* Interrupts.  The runs that are stopped are in the queue, not waiting in *)
(* it any more, and not over but by an interrupt.                          *)
Leaving(w, r) ==
  /\ r \in Runs(w.queue) /\ r \notin Queued(w.queue)
  /\ IF Odd(w, r) THEN Rulings(w, r) # {"cancel"} ELSE LifeOf(w, r) \in {"queued", "running", "interrupted"}
Quitting(go) ==
  {w \in Concord(Cut(go)) : \A d \in go : CurrentRun(d) # NoRun => Leaving(w, CurrentRun(d))}
Doomed(go) ==
  \A d \in go : CurrentRun(d) # NoRun => /\ CurrentRun(d) \in Run /\ AgentOf(CurrentRun(d)) = d
                                         /\ CurrentRun(d) \in Runs(Cut(go))
                                         /\ phase[CurrentRun(d)] \in {"none", "turn"}

LEMMA LeavingStill ==
  ASSUME NEW w, NEW v, NEW r
  PROVE  Level(w, v, r) /\ (r \in Child => Rulings(v, r) = Rulings(w, r)) /\ Leaving(w, r) => Leaving(v, r)
BY DEF Level, Leaving, Odd

LEMMA CutAccord ==
  ASSUME AInv, TurnPhases, ReportInv, held # Stale, NEW go \in SUBSET Child, \A d \in go : Stoppable(d)
  PROVE  Cutted(go) \in Quitting(go) /\ Doomed(go)
<1> DEFINE w == Cutted(go)
           p == Cut(go)
<1>0. /\ host \in HostState /\ host.record = record /\ host.entries = entries /\ host.queue = queue
      /\ QueueOK(queue)
  BY HostType DEF AInv
<1>1. /\ w \in HostState /\ w.queue = p /\ w.record = host.record /\ w.entries = host.entries
      /\ Runs(p) = Runs(queue) /\ DOMAIN p = DOMAIN queue
      /\ \A i \in DOMAIN queue : p[i].run = queue[i].run
      /\ \A a \in Agent : Seen(w, a) = Seen(host, a)
  BY <1>0, CutType
<1>2. \A i \in DOMAIN queue : p[i].status = "queued" =>
        queue[i].status = "queued" /\ ~\E d \in go : queue[i].run = CurrentRun(d)
  <2>1. ASSUME NEW i \in DOMAIN queue, p[i].status = "queued"
        PROVE  queue[i].status = "queued" /\ ~\E d \in go : queue[i].run = CurrentRun(d)
    <3> DEFINE Hit == \E d \in go : queue[i].run = CurrentRun(d) /\ queue[i].status = "queued"
    <3>0. queue[i] \in Item
      BY <1>0, QueueFacts
    <3>1. p[i] = IF Hit THEN [queue[i] EXCEPT !.status = "interrupted"] ELSE queue[i]
      BY DEF Cut
    <3> HIDE DEF p
    <3>2. ~Hit
      <4> SUFFICES ASSUME Hit PROVE FALSE
        OBVIOUS
      <4> HIDE DEF Hit
      <4>1. p[i] = [queue[i] EXCEPT !.status = "interrupted"]
        BY <3>1
      <4>2. p[i].status = "interrupted"
        BY <3>0, <4>1 DEF Item
      <4> QED BY <2>1, <4>2
    <3>3. p[i] = queue[i]
      BY <3>1, <3>2
    <3> QED BY <2>1, <3>2, <3>3
  <2> QED BY <2>1
<1> HIDE DEF w, p
<1>3. Queued(p) \subseteq Queued(queue) /\ \A d \in go : CurrentRun(d) \notin Queued(p)
  BY <1>1, <1>2 DEF Queued
<1>4. ASSUME NEW r \in Run PROVE InAccord(w, r) /\ Beyond(p, w, r)
  <2>0. AgentOf(r) \in Agent /\ ParentOf[AgentOf(r)] \in Agent
    BY AgentFacts
  <2>1. /\ LifeOf(w, r) = LifeOf(host, r) /\ Said(w, r) = Said(host, r) /\ Rulings(w, r) = Rulings(host, r)
        /\ Resting(w, AgentOf(r)) = Resting(host, AgentOf(r))
    BY <1>1, <2>0 DEF LifeOf, Said, Rulings, Resting
  <2>2. InAccord(host, r)
    BY DEF ReportInv
  <2>3. Place(w, r)
    BY <1>0, <1>1, <1>3, <2>1, <2>2 DEF InAccord, Place
  <2>4. Plain(host, r) => Plain(w, r)
    BY <1>0, <1>1, <1>3, <2>1 DEF Plain
  <2>5. CalledOff(host, r) => CalledOff(w, r)
    BY <1>0, <1>1, <2>1 DEF CalledOff
  <2>6. Agrees(w, r)
    BY <2>1, <2>2, <2>4, <2>5 DEF InAccord, Agrees, Odd
  <2>7. r \in Child => Dealt(w, r)
    BY <1>0, <1>1, <2>1, <2>2 DEF InAccord, Dealt
  <2> QED BY <1>1, <2>3, <2>6, <2>7 DEF InAccord, Beyond
<1>5. ASSUME NEW d \in go, CurrentRun(d) # NoRun
      PROVE  /\ CurrentRun(d) \in Run /\ AgentOf(CurrentRun(d)) = d /\ CurrentRun(d) \in Runs(p)
             /\ phase[CurrentRun(d)] \in {"none", "turn"} /\ Leaving(w, CurrentRun(d))
  <2> DEFINE r == CurrentRun(d)
  <2>1. r \in Run /\ AgentOf(r) = d /\ r \in Runs(p) /\ r \notin Queued(p)
    <3>1. r \in Run /\ AgentOf(r) = d /\ \E i \in DOMAIN queue : queue[i].run = r
      BY <1>0, <1>5, CurrentRunFacts
    <3>2. r \in Runs(queue)
      BY <3>1 DEF Runs
    <3> QED BY <1>1, <1>3, <3>1, <3>2
  <2>2. (phase[r] = "none" /\ r \in Queued(queue)) \/ phase[r] = "turn"
    <3>1. QueuedRun(r) \/ turn[d] = r
      BY <1>5 DEF Stoppable
    <3>2. QueuedRun(r) => r \in Queued(queue)
      BY DEF QueuedRun, ItemOf, Queued
    <3>3. turn[d] = r => phase[r] = "turn"
      BY <2>1 DEF TurnPhases
    <3>4. r \in Queued(queue) => phase[r] = "none"
      BY <1>0, <2>1 DEF ReportInv, InAccord, Place
    <3> QED BY <3>1, <3>2, <3>3, <3>4
  <2>3. Leaving(w, r)
    <3> HIDE DEF r
    <3>1. InAccord(host, r) /\ InAccord(w, r)
      BY <1>4, <2>1 DEF ReportInv
    <3>2. LifeOf(w, r) = LifeOf(host, r) /\ Rulings(w, r) = Rulings(host, r)
      BY <1>1, <2>1, AgentFacts DEF LifeOf, Rulings
    <3>3. Odd(w, r) => Rulings(w, r) # {"cancel"}
      BY <1>1, <2>1, <3>1 DEF InAccord, Agrees, CalledOff
    <3>4. ~Odd(w, r) => LifeOf(w, r) \in {"queued", "running", "interrupted"}
      BY <1>0, <2>2, <3>1, <3>2 DEF InAccord, Agrees, Odd, Plain
    <3> QED BY <1>1, <2>1, <3>3, <3>4 DEF Leaving
  <2> QED BY <2>1, <2>2, <2>3
<1>6. w \in Concord(p)
  BY <1>1, <1>4 DEF Concord
<1> QED BY <1>5, <1>6 DEF Quitting, Doomed, w, p

LEMMA QuittingStill ==
  ASSUME NEW go, NEW w \in Quitting(go), Doomed(go), NEW v \in Concord(Cut(go)), NEW r,
         \A x \in Run \ {r} : x \in Runs(w.queue) => Still(w, v, x),
         \A d \in go : CurrentRun(d) = r /\ r # NoRun => Leaving(v, r)
  PROVE  v \in Quitting(go)
<1>1. ASSUME NEW d \in go, CurrentRun(d) # NoRun PROVE Leaving(v, CurrentRun(d))
  <2> DEFINE x == CurrentRun(d)
  <2>1. Leaving(w, x) /\ x \in Run /\ x \in Runs(w.queue)
    BY <1>1 DEF Quitting, Doomed, Leaving
  <2>2. CASE x = r
    BY <1>1, <2>2
  <2>3. CASE x # r
    <3>1. Still(w, v, x)
      BY <2>1, <2>3
    <3> HIDE DEF x
    <3>2. Leaving(v, x)
      BY <2>1, <3>1, LeavingStill DEF Still
    <3> QED BY <3>2 DEF x
  <2> QED BY <2>2, <2>3
<1> QED BY <1>1 DEF Quitting

(* A run that leaves is interrupted, and may then be reported so.          *)
LEMMA InterruptedAccord ==
  ASSUME NEW q, NEW w \in Concord(q), NEW r \in Run, Leaving(w, r), r \in Runs(q), phase[r] \in {"none", "turn"}
  PROVE  LET v == PutLife(w, AgentOf(r), r, "interrupted")
         IN /\ v \in Concord(q) /\ Leaving(v, r) /\ Fits(v, r, "interrupted")
            /\ \A x \in Run \ {r} : Still(w, v, x)
<1> DEFINE a == AgentOf(r)
           st == "interrupted"
           v == PutLife(w, a, r, st)
           S == Seen(w, a)
<1>0. /\ a \in Agent /\ r \in Run \cup {NoRun} /\ st \in LifeState \ {"none"} /\ st \in Terminal /\ st \notin Idle
      /\ w \in HostState /\ S \in Record /\ (turn[a] = NoRun => S = w.record[a])
  <2>1. w \in HostState /\ a \in Agent
    BY AgentFacts DEF Concord
  <2> QED BY <2>1, HostFacts DEF LifeState, Terminal, Idle
<1>1. v \in HostState /\ LifeDone(w, v, a, r, st)
  BY <1>0, PutLifeFacts
<1>2. v = w => ~CanPutLife(w, a, r, st) \/ LifeOf(v, r) = LifeOf(w, r)
  OBVIOUS
<1> HIDE DEF v
<1>3. LifeView(w, v, a, r, st)
  BY <1>0, <1>1, LifeViewed
<1>4. /\ \A x \in Run : Said(v, x) = Said(w, x)
      /\ \A c : Rulings(v, c) = Rulings(w, c)
      /\ \A x \in Run \ {r} : Still(w, v, x)
  BY <1>0, <1>3, LifeStill
<1>5. InAccord(w, r) /\ Beyond(q, w, r) /\ Place(w, r)
  BY DEF Concord, InAccord
<1>6. Place(v, r) /\ v.queue = w.queue
  BY <1>0, <1>1, <1>3, <1>5, LifePlace DEF LifeView
<1>7. LifeOf(w, r) \in {"queued", "running", "interrupted"} => LifeOf(v, r) = "interrupted"
  <2> SUFFICES ASSUME LifeOf(w, r) \in {"queued", "running", "interrupted"} PROVE LifeOf(v, r) = "interrupted"
    OBVIOUS
  <2>1. ~Legal(S, r, st) => LifeOf(w, r) = st
    BY <1>0, LegalInterrupt DEF LifeOf
  <2>2. CASE v = w /\ ~CanPutLife(w, a, r, st)
    <3>1. ~Legal(S, r, st)
      BY <1>0, <2>2 DEF CanPutLife, InTurn
    <3> QED BY <2>1, <2>2, <3>1
  <2>3. CASE PutDone(w, v, a, Life(r, st))
    BY <1>0, <2>3, LifeThere DEF PutDone, LifeOf
  <2>4. CASE Beneath(w, v, a, r, st)
    <3>1. LifeOf(w, r) = st
      BY <2>1, <2>4 DEF Beneath
    <3>2. LifeOf(v, r) \in {LifeOf(w, r), st}
      BY <1>3 DEF LifeView, LifeOf
    <3> QED BY <3>1, <3>2
  <2> QED BY <1>1, <2>2, <2>3, <2>4 DEF LifeDone
<1>8. Leaving(v, r) /\ Fits(v, r, st)
  <2>1. Odd(v, r) = Odd(w, r) /\ Rulings(v, r) = Rulings(w, r)
    BY <1>4 DEF Odd
  <2> QED BY <1>6, <1>7, <2>1 DEF Leaving, Fits
<1>9. Agrees(v, r)
  <2>1. Odd(v, r) = Odd(w, r) /\ Rulings(v, r) = Rulings(w, r)
    BY <1>4 DEF Odd
  <2>2. CASE Odd(w, r)
    BY <2>1, <2>2 DEF Agrees, Leaving
  <2>3. CASE ~Odd(w, r)
    <3>1. Plain(w, r) /\ LifeOf(w, r) \in {"queued", "running", "interrupted"} /\ LifeOf(v, r) = "interrupted"
      BY <1>5, <1>7, <2>3 DEF InAccord, Agrees, Leaving
    <3>2. Said(v, r) = {} \/ Said(v, r) = {"interrupted"}
      BY <1>4, <3>1 DEF Plain, Terminal
    <3>3. Plain(v, r)
      BY <1>6, <3>1, <3>2 DEF Plain, Leaving, Terminal
    <3> QED BY <2>1, <2>3, <3>3 DEF Agrees
  <2> QED BY <2>2, <2>3
<1>10. r \in Child => Dealt(v, r)
  <2> SUFFICES ASSUME r \in Child PROVE Dealt(v, r)
    OBVIOUS
  <2>1. a = r /\ Dealt(w, r)
    BY <1>5 DEF InAccord, AgentOf
  <2>2. v.record[r].last \in {w.record[r].last, [run |-> r, state |-> st]}
    BY <1>3, <2>1 DEF LifeView
  <2>3. v.record[r].last.state = "none" => w.record[r].last.state = "none"
    BY <2>2
  <2> QED BY <1>4, <1>6, <2>1, <2>3 DEF Dealt, Leaving
<1>11. Beyond(q, v, r)
  BY <1>5, <1>6 DEF Beyond
<1>12. \A x \in Run \ {r} : InAccord(v, x) /\ Beyond(q, v, x)
  BY <1>4, StillAccord DEF Concord
<1>13. v \in Concord(q)
  BY <1>1, <1>6, <1>9, <1>10, <1>11, <1>12 DEF Concord, InAccord
<1> QED BY <1>4, <1>8, <1>13 DEF v

LEMMA StopOneAccord ==
  ASSUME AInv, NEW go \in SUBSET Child, Doomed(go), NEW w \in Quitting(go), NEW d \in Child
  PROVE  StopOne(w, d, go) \in Quitting(go)
<1>0. w \in Concord(Cut(go)) /\ w \in HostState /\ sessions \in Seq(Child) /\ d \in Agent
  BY HostType, AgentFacts DEF Quitting, Concord
<1>1. CASE d \notin go
  BY <1>1 DEF StopOne
<1>2. CASE d \in go /\ CurrentRun(d) = NoRun
  <2> DEFINE v == PutLife(w, d, NoRun, "interrupted")
  <2>0. "interrupted" \in LifeState \ {"none"} /\ "interrupted" \notin Idle /\ NoRun \in Run \cup {NoRun}
        /\ NoRun \notin Run
    BY AgentFacts DEF LifeState, Terminal, Idle
  <2>1. v \in HostState /\ LifeDone(w, v, d, NoRun, "interrupted")
    BY <1>0, <2>0, PutLifeFacts
  <2>2. StopOne(w, d, go) = v
    BY <1>2 DEF StopOne, Stopped
  <2> HIDE DEF v
  <2>3. \A x \in Run \ {NoRun} : Still(w, v, x)
    BY <1>0, <2>0, <2>1, LifeViewed, LifeStill
  <2>4. v \in Concord(Cut(go))
    BY <1>0, <2>0, <2>1, <2>3, StillConcord
  <2> QED BY <2>2, <2>3, <2>4, QuittingStill
<1>3. CASE d \in go /\ CurrentRun(d) # NoRun
  <2> DEFINE r == CurrentRun(d)
             v == PutLife(w, d, r, "interrupted")
             z == Complete(v, r, "interrupted")
  <2>1. /\ r \in Run /\ AgentOf(r) = d /\ r \in Runs(Cut(go)) /\ phase[r] \in {"none", "turn"}
        /\ Leaving(w, r)
    BY <1>3 DEF Doomed, Quitting
  <2>2. StopOne(w, d, go) = z
    BY <1>3 DEF StopOne, Stopped
  <2> HIDE DEF r
  <2>3. /\ v \in Concord(Cut(go)) /\ Leaving(v, r) /\ Fits(v, r, "interrupted")
        /\ \A x \in Run \ {r} : Still(w, v, x)
    BY <1>0, <2>1, InterruptedAccord
  <2> HIDE DEF v
  <2>4. /\ z \in Concord(Cut(go)) /\ Level(v, z, r) /\ (r \in Child => Rulings(z, r) = Rulings(v, r))
        /\ \A x \in Run \ {r} : Settles(v, d, x) => Still(v, z, x)
    <3>1. "interrupted" \in Terminal
      BY DEF Terminal
    <3> QED BY <1>0, <2>1, <2>3, <3>1, CompleteAccord
  <2> HIDE DEF z
  <2>5. Leaving(z, r)
    BY <2>3, <2>4, LeavingStill
  <2>6. ASSUME NEW x \in Run \ {r}, x \in Runs(w.queue) PROVE Still(w, z, x)
    <3>1. Still(w, v, x)
      BY <2>3
    <3>2. Settles(v, d, x)
      BY <2>6, <3>1 DEF Still, Level, Settles
    <3> QED BY <2>4, <3>1, <3>2, LevelFacts
  <2>7. z \in Quitting(go)
    BY <2>4, <2>5, <2>6, QuittingStill
  <2> QED BY <2>2, <2>7
<1> QED BY <1>1, <1>2, <1>3

LEMMA InterruptAccord ==
  ASSUME AInv, TurnPhases, ReportInv, NEW c \in Child, Interrupt(c)
  PROVE  ReportInv'
<1> SUFFICES ASSUME held' # Stale PROVE ReportInv'
  BY DEF ReportInv
<1>1. PICK ts \in {<<c>>} \cup SetToSeqs(Targets(c)) : Stop(ts)
  BY DEF Interrupt
<1>2. ts \in Seq(Child)
  BY TargetsType
<1>3. PICK v \in HostState : StopDone(ts, v)
  BY <1>1, <1>2, StopMade
<1> DEFINE go == Reached(ts)
           w == Cutted(go)
           G == Quitting(go)
<1>4. /\ v = StopEach(w, ts, go) /\ Write(v) /\ UNCHANGED <<sessions, agents>>
      /\ (queue' = v.queue /\ held' = NoWait) \/ Commit(Cut(go), v.queue)
  BY <1>3 DEF StopDone
<1>5. held # Stale /\ queue' = v.queue
  <2>1. queue' = v.queue
    BY <1>4, NotStale
  <2>2. (\E d \in go : CurrentRun(d) # NoRun /\ Reports(host, CurrentRun(d)) /\ Wakes(ParentOf[d]))
          \/ \E old, q : Commit(old, q)
    BY <1>1 DEF Stop, Reached
  <2>3. Waiting \/ \E old, q : Commit(old, q)
    BY <2>2 DEF Wakes
  <2> QED BY <2>1, <2>3, NotStale
<1>6. go \in SUBSET Child /\ \A d \in go : Stoppable(d)
  <2>1. go \subseteq Child
    BY <1>1, <1>2, StopMade
  <2> QED BY <2>1 DEF Reached
<1>7. w \in G /\ Doomed(go)
  BY <1>5, <1>6, CutAccord
<1> HIDE DEF go, w
<1>8. \A u \in G, d \in Child : StopOne(u, d, go) \in G
  BY <1>6, <1>7, StopOneAccord
<1> HIDE DEF G
<1>9. v \in G
  BY <1>2, <1>4, <1>7, <1>8, StopInduction
<1>10. v \in Concord(queue')
  BY <1>5, <1>9, ConcordSelf DEF G, Quitting
<1> QED BY <1>4, <1>10, AccordHandler DEF agents

-----------------------------------------------------------------------------
(* Decisions on conflicts *)

Judged(w, v, c, act) ==
  /\ v.queue = w.queue
  /\ \A r \in Run : Level(w, v, r) /\ Said(v, r) = Said(w, r)
  /\ \A d \in Child \ {c} : Rulings(v, d) = Rulings(w, d)
  /\ Rulings(w, c) \subseteq Rulings(v, c) /\ Rulings(v, c) \subseteq Rulings(w, c) \cup {act}
  /\ ~Decided(w.record[c], c) => act \in Rulings(v, c)

LEMMA DecideJudged ==
  ASSUME NEW w \in HostState, NEW c \in Child, NEW act \in Choice
  PROVE  Decide(w, c, act) \in HostState /\ Judged(w, Decide(w, c, act), c, act)
<1> DEFINE e == Resolved(c, act)
           v == Decide(w, c, act)
           to == Told(w, c)
           n == <<c, act>>
<1>0. /\ e \in Event /\ e.type = "resolved" /\ e.of = c /\ e.what = act
      /\ v \in HostState /\ c \in Agent /\ (~Decided(w.record[c], c) => c \in to)
  BY EventType, AgentFacts, DecideType DEF Resolved, Told
<1>1. v.queue = w.queue /\ \A a \in Agent : IF a \in to THEN PutHere(w, v, a, e) ELSE Unmoved(w, v, a)
  BY DecideFacts DEF DecideDone
<1> HIDE DEF e, v, to
<1>2. \A a \in Agent : SameLives(w, v, a)
  <2>1. ASSUME NEW a \in Agent PROVE SameLives(w, v, a)
    <3>1. CASE a \in to
      BY <1>0, <1>1, <3>1, PutHereLives
    <3>2. CASE a \notin to
      BY <1>1, <3>2 DEF Unmoved, SameLives
    <3> QED BY <3>1, <3>2
  <2> QED BY <2>1
<1>3. ASSUME NEW a \in Agent
      PROVE  /\ Seen(v, a).done = Seen(w, a).done
             /\ Seen(v, a).resolved = IF a \in to THEN Seen(w, a).resolved \cup {n} ELSE Seen(w, a).resolved
  <2> DEFINE S == Seen(w, a)
  <2>1. S \in Record
    BY HostFacts
  <2> HIDE DEF S
  <2>2. Apply(S, e).done = S.done /\ Apply(S, e).resolved = S.resolved \cup {n}
    BY <1>0, <2>1, ApplyFields DEF DoneAfter
  <2>3. CASE a \in to
    <3>1. Seen(v, a) = Apply(S, e)
      BY <1>1, <2>3 DEF PutHere, S
    <3> QED BY <2>2, <2>3, <3>1 DEF S
  <2>4. CASE a \notin to
    BY <1>1, <2>4 DEF Unmoved
  <2> QED BY <2>3, <2>4
<1>4. \A r \in Run : Level(w, v, r) /\ Said(v, r) = Said(w, r)
  BY <1>1, <1>2, <1>3, LivesLevel, AgentFacts DEF Said
<1>5. \A d, x : <<d, x>> = n <=> d = c /\ x = act
  OBVIOUS
<1> HIDE DEF n
<1>6. \A d, x : \A a \in Agent :
        /\ <<d, x>> \in Seen(w, a).resolved => <<d, x>> \in Seen(v, a).resolved
        /\ <<d, x>> \in Seen(v, a).resolved => <<d, x>> \in Seen(w, a).resolved \/ (d = c /\ x = act)
  <2> SUFFICES ASSUME NEW d, NEW x, NEW a \in Agent
               PROVE  /\ <<d, x>> \in Seen(w, a).resolved => <<d, x>> \in Seen(v, a).resolved
                      /\ <<d, x>> \in Seen(v, a).resolved
                           => <<d, x>> \in Seen(w, a).resolved \/ (d = c /\ x = act)
    OBVIOUS
  <2> DEFINE p == <<d, x>>
             V == Seen(v, a).resolved
             W == Seen(w, a).resolved
  <2>1. V = W \/ V = W \cup {n}
    BY <1>3
  <2>2. p = n <=> d = c /\ x = act
    BY <1>5
  <2> HIDE DEF p, V, W
  <2>3. (p \in W => p \in V) /\ (p \in V => p \in W \/ (d = c /\ x = act))
    BY <2>1, <2>2
  <2> QED BY <2>3 DEF p, V, W
<1>7. \A d \in Child \ {c} : Rulings(v, d) = Rulings(w, d)
  BY <1>6 DEF Rulings
<1>8. Rulings(w, c) \subseteq Rulings(v, c) /\ Rulings(v, c) \subseteq Rulings(w, c) \cup {act}
  BY <1>6 DEF Rulings
<1>9. ~Decided(w.record[c], c) => act \in Rulings(v, c)
  <2>1. <<c, act>> = n
    BY <1>5
  <2> QED BY <1>0, <1>3, <2>1 DEF Rulings
<1> QED BY <1>0, <1>1, <1>4, <1>7, <1>8, <1>9 DEF Judged, v

(* A child in conflict may be anywhere before the decision is known.       *)
Disputed(q, c) ==
  {w \in HostState : /\ \A x \in Run \ {c} : InAccord(w, x)
                     /\ \A x \in Run : Beyond(q, w, x)
                     /\ Place(w, c) /\ (Odd(w, c) \/ Plain(w, c)) /\ w.record[c].last.state # "none"}

LEMMA JudgedAccord ==
  ASSUME NEW c \in Child, NEW q, NEW w \in Disputed(q, c), NEW v \in HostState, NEW act \in Choice \ {"cancel"},
         Judged(w, v, c, act), act \in Rulings(v, c), conflict[c] # c
  PROVE  v \in Concord(q)
<1>0. c \in Run /\ AgentOf(c) = c
  BY AgentFacts
<1>1. \A x \in Run \ {c} : Still(w, v, x)
  BY DEF Judged, Still
<1>2. \A x \in Run \ {c} : InAccord(v, x) /\ Beyond(q, v, x)
  BY <1>1, StillAccord DEF Disputed
<1>3. Level(w, v, c) /\ Said(v, c) = Said(w, c)
  BY <1>0 DEF Judged
<1>4. Place(v, c) /\ Beyond(q, v, c)
  <2>1. Place(w, c) /\ Beyond(q, w, c)
    BY <1>0 DEF Disputed
  <2>2. Place(v, c)
    BY <1>3, <2>1, LevelAccord
  <2> QED BY <1>3, <2>1, <2>2 DEF Beyond, Level, Shelved
<1>5. Agrees(v, c)
  <2>1. CASE Odd(v, c)
    BY <2>1 DEF Agrees
  <2>2. CASE ~Odd(v, c)
    <3>1. Plain(w, c)
      BY <2>2 DEF Judged, Odd, Disputed
    <3> QED BY <1>3, <2>2, <3>1, LevelAccord DEF Agrees
  <2> QED BY <2>1, <2>2
<1>6. Dealt(v, c)
  BY <1>0, <1>3 DEF Dealt, Disputed, Level
<1>7. InAccord(v, c)
  BY <1>4, <1>5, <1>6 DEF InAccord
<1> QED BY <1>2, <1>4, <1>7 DEF Concord

LEMMA HostDisputed ==
  ASSUME AInv, ReportInv, held # Stale, NEW c \in Child, conflict[c] # NoRun
  PROVE  host \in Disputed(queue, c) /\ host \in Concord(queue) /\ conflict[c] # c
<1>1. host \in Concord(queue) /\ c \in Run
  BY HostAccord, AgentFacts
<1>2. InAccord(host, c) /\ Dealt(host, c) /\ Place(host, c)
  BY <1>1 DEF Concord, InAccord
<1>3. Odd(host, c) \/ Plain(host, c)
  BY <1>2 DEF InAccord, Agrees
<1> QED BY <1>1, <1>2, <1>3 DEF Disputed, Concord, Dealt

LEMMA SerializeAccord ==
  ASSUME AInv, ReportInv, NEW c \in Child, Serialize(c)
  PROVE  ReportInv'
<1> SUFFICES ASSUME held' # Stale PROVE ReportInv'
  BY DEF ReportInv
<1> DEFINE v == Decide(host, c, "serialize")
<1>1. /\ held # Stale /\ queue' = queue /\ sessions' = sessions
      /\ turn' = turn /\ phase' = phase /\ conflict' = conflict /\ Write(v) /\ Undecided(c)
  BY DEF Serialize, agents
<1>2. "serialize" \in Choice /\ host \in HostState /\ host.record = record /\ c \in Agent
  BY HostType, AgentFacts DEF Choice
<1>3. v \in HostState /\ Judged(host, v, c, "serialize")
  BY <1>2, DecideJudged
<1> HIDE DEF v
<1>4. host \in Disputed(queue, c) /\ conflict[c] # c
  BY <1>1, HostDisputed DEF Undecided
<1>5. "serialize" \in Rulings(v, c)
  BY <1>1, <1>2, <1>3 DEF Undecided, Judged
<1>6. v \in Concord(queue)
  BY <1>2, <1>3, <1>4, <1>5, JudgedAccord
<1> QED BY <1>1, <1>6, AccordHandler

LEMMA CancellingAccord ==
  ASSUME AInv, ReportInv, held # Stale, NEW c \in Child, Undecided(c)
  PROVE  Cancelling(c) \in Concord(queue) /\ Fits(Cancelling(c), c, "cancelled")
<1> DEFINE u == Decide(host, c, "cancel")
           w == PutLife(u, c, c, "cancelled")
           st == "cancelled"
<1>0. /\ "cancel" \in Choice /\ host \in HostState /\ host.record = record /\ host.queue = queue
      /\ c \in Agent /\ c \in Run /\ AgentOf(c) = c /\ c \in Run \cup {NoRun}
      /\ st \in LifeState \ {"none"} /\ st \notin Idle
  BY HostType, AgentFacts DEF Choice, LifeState, Terminal, Idle
<1>1. u \in HostState /\ Judged(host, u, c, "cancel")
  BY <1>0, DecideJudged
<1>2. /\ host \in Concord(queue) /\ conflict[c] # NoRun /\ conflict[c] # c /\ record[c].last.state # "none"
      /\ ~Decided(record[c], c)
  BY <1>0, HostDisputed DEF Undecided, Disputed
<1>3. w = Cancelling(c)
  BY DEF Cancelling
<1> HIDE DEF u
<1>4. w \in HostState /\ LifeDone(u, w, c, c, st)
  BY <1>0, <1>1, PutLifeFacts
<1> HIDE DEF w
<1>5. LifeView(u, w, c, c, st)
  BY <1>0, <1>1, <1>4, LifeViewed
<1>6. /\ \A r \in Run : Said(w, r) = Said(u, r)
      /\ \A d : Rulings(w, d) = Rulings(u, d)
      /\ \A r \in Run \ {c} : Still(u, w, r)
  BY <1>0, <1>1, <1>5, LifeStill
<1>7. \A r \in Run \ {c} : Still(host, u, r)
  BY <1>1 DEF Judged, Still
<1>8. \A r \in Run \ {c} : InAccord(w, r) /\ Beyond(queue, w, r)
  <2>1. \A r \in Run \ {c} : Still(host, w, r)
    BY <1>6, <1>7, LevelFacts
  <2> QED BY <1>2, <2>1, StillAccord DEF Concord
<1>9. /\ Level(host, u, c) /\ Said(u, c) = Said(host, c) /\ u.queue = queue /\ w.queue = queue
      /\ "cancel" \in Rulings(w, c) /\ Rulings(host, c) \subseteq Rulings(w, c)
  BY <1>0, <1>1, <1>2, <1>5, <1>6 DEF Judged, LifeView
<1>10. InAccord(host, c)
  BY <1>0, <1>2 DEF Concord
<1>11. Place(w, c)
  <2>1. Place(u, c)
    BY <1>9, <1>10, LevelAccord DEF InAccord
  <2> QED BY <1>0, <1>1, <1>4, <2>1, LifePlace
<1>12. Rulings(w, c) = {"cancel"} => CalledOff(w, c)
  <2> SUFFICES ASSUME Rulings(host, c) \subseteq {"cancel"} PROVE CalledOff(w, c)
    BY <1>9
  <2>1. CalledOff(host, c)
    <3>1. CASE Rulings(host, c) = {}
      <4>1. LifeOf(host, c) = "none" /\ c \notin Runs(queue)
        BY <1>0, <1>2, <1>10, <3>1 DEF InAccord, Dealt
      <4>2. Said(host, c) = {}
        BY <1>10, <3>1, <4>1 DEF InAccord, Agrees, Odd, Plain, Terminal
      <4> QED BY <1>0, <4>1, <4>2 DEF CalledOff
    <3>2. CASE Rulings(host, c) = {"cancel"}
      BY <1>10, <3>2 DEF InAccord, Agrees, Odd
    <3> QED BY <3>1, <3>2
  <2>2. CalledOff(u, c)
    BY <1>9, <2>1, LevelAccord
  <2>3. LifeOf(w, c) \in {LifeOf(u, c), st}
    BY <1>0, <1>5 DEF LifeView, LifeOf
  <2> QED BY <1>0, <1>6, <1>9, <2>2, <2>3 DEF CalledOff
<1>13. Agrees(w, c)
  BY <1>9, <1>12 DEF Agrees, Odd
<1>14. Dealt(w, c)
  <2>1. w.record[c].last \in {u.record[c].last, [run |-> c, state |-> st]}
    BY <1>5 DEF LifeView
  <2>2. u.record[c].last.state = "none" => host.record[c].last.state = "none"
    BY <1>0, <1>9 DEF Level
  <2>3. w.record[c].last.state # "none"
    BY <1>0, <1>2, <2>1, <2>2
  <2> QED BY <1>2, <1>9, <2>3 DEF Dealt
<1>15. InAccord(w, c) /\ Beyond(queue, w, c)
  BY <1>9, <1>11, <1>13, <1>14 DEF InAccord, Beyond
<1>16. w \in Concord(queue)
  BY <1>4, <1>8, <1>15 DEF Concord
<1>17. Fits(w, c, st)
  BY <1>9 DEF Fits, Odd
<1> QED BY <1>3, <1>16, <1>17

LEMMA CancelAccord ==
  ASSUME AInv, ReportInv, NEW c \in Child, CancelBlocked(c)
  PROVE  ReportInv'
<1> SUFFICES ASSUME held' # Stale PROVE ReportInv'
  BY DEF ReportInv
<1> DEFINE w == Cancelling(c)
           v == Complete(w, c, "cancelled")
<1>1. /\ v \in HostState /\ Write(v) /\ Undecided(c)
      /\ UNCHANGED <<sessions, agents>>
      /\ (Waiting /\ queue' = v.queue) \/ Commit(queue, v.queue)
  BY CancelMade DEF CancelBlocked, Cancelling, Wakes
<1>2. "cancelled" \in Terminal /\ c \in Run /\ sessions \in Seq(Child)
  BY AgentFacts, HostType DEF Terminal
<1> HIDE DEF v
<1>3. held # Stale /\ queue' = v.queue
  BY <1>1, NotStale
<1>4. w \in Concord(queue) /\ Fits(w, c, "cancelled")
  BY <1>1, <1>3, CancellingAccord
<1> HIDE DEF w
<1>5. v \in Concord(queue)
  BY <1>2, <1>4, CompleteAccord DEF v
<1>6. v \in Concord(queue')
  BY <1>3, <1>5, ConcordSelf
<1> QED BY <1>1, <1>6, AccordHandler DEF agents

LEMMA MovedAccord ==
  ASSUME NEW q, NEW w \in Concord(q), NEW c \in Child, NEW act \in Choice \ {"cancel"}, conflict[c] # c,
         ~Decided(w.record[c], c), NEW v,
         \/ v = Decide(QueueBlocked(w, c), c, act) /\ CanEnqueue(Relet(w, c), c)
         \/ v = Relet(w, c) \/ v = w
  PROVE  v \in Concord(v.queue)
<1> DEFINE u == Acquire(w, c)
           z == Enqueue(u, c)
           x == Decide(z, c, act)
<1>0. c \in Run /\ AgentOf(c) = c /\ c \in Agent /\ w \in HostState /\ act \in Choice
  BY AgentFacts DEF Concord
<1>1. u \in Concord(q) /\ u \in HostState /\ u.record[c].resolved = w.record[c].resolved
  BY <1>0, LeaseType, LeaseStill, StillConcord
<1>2. CASE v = w
  BY <1>2, ConcordSelf
<1>3. CASE v = Relet(w, c)
  BY <1>1, <1>3, ConcordSelf DEF Relet
<1>4. CASE CanEnqueue(u, c) /\ v = x
  <2> HIDE DEF u
  <2>1. z \in HostState
    BY <1>0, <1>1, <1>4, EnqueueFacts
  <2>2. /\ \A y \in Run \ {c} : Still(u, z, y)
        /\ Rulings(z, c) = Rulings(u, c) /\ z.record[c].resolved = u.record[c].resolved
    BY <1>0, <1>1, <1>4, EnqueueStill
  <2>3. InAccord(u, c) /\ Place(u, c) /\ (Odd(u, c) \/ Plain(u, c))
    BY <1>0, <1>1 DEF Concord, InAccord, Agrees
  <2>4. Place(z, c) /\ ~Resting(z, c) /\ (Plain(u, c) => Plain(z, c))
    BY <1>0, <1>1, <1>4, <2>3, Seated
  <2> HIDE DEF z
  <2>5. \A y \in Run \ {c} : InAccord(z, y)
    BY <1>1, <2>2, StillAccord DEF Concord
  <2>6. z \in Disputed(z.queue, c)
    BY <2>1, <2>2, <2>3, <2>4, <2>5 DEF Disputed, Beyond, Odd, Resting, Idle
  <2>7. x \in HostState /\ Judged(z, x, c, act)
    BY <1>0, <2>1, DecideJudged
  <2> HIDE DEF x
  <2>8. act \in Rulings(x, c)
    BY <1>1, <2>2, <2>7 DEF Judged, Decided
  <2>9. x \in Concord(z.queue)
    BY <2>6, <2>7, <2>8, JudgedAccord
  <2>10. x.queue = z.queue
    BY <2>7 DEF Judged
  <2> QED BY <1>4, <2>9, <2>10
<1>5. CanEnqueue(u, c) => QueueBlocked(w, c) = z
  BY DEF QueueBlocked
<1> QED BY <1>2, <1>3, <1>4, <1>5 DEF Relet

LEMMA MoveHandled ==
  ASSUME AInv, ReportInv, held' # Stale, NEW c \in Child, Undecided(c), NEW w, w \in Concord(queue),
         w.record[c].resolved = record[c].resolved, w.queue = queue,
         NEW act \in Choice \ {"cancel"}, NEW v, MoveCases(w, c, act, v), Write(v),
         sessions' = sessions, turn' = turn, phase' = phase, conflict' = conflict
  PROVE  ReportInv'
<1>1. held # Stale /\ queue' = v.queue
  <2>1. Acquire(w, c).queue = w.queue
    BY LeaseStill DEF Concord
  <2>2. CASE UNCHANGED <<queue, held>> /\ v \in {w, Relet(w, c)}
    BY <2>1, <2>2 DEF Relet
  <2>3. CASE Commit(queue, v.queue)
    BY <2>3, NotStale
  <2> QED BY <2>2, <2>3 DEF MoveCases
<1>2. ~Decided(w.record[c], c) /\ conflict[c] # c
  <2>1. c \in Agent
    BY AgentFacts
  <2> QED BY <1>1, <2>1, HostDisputed DEF Undecided, Decided
<1>3. \/ v = Decide(QueueBlocked(w, c), c, act) /\ CanEnqueue(Relet(w, c), c)
      \/ v = Relet(w, c) \/ v = w
  BY DEF MoveCases
<1>4. v \in Concord(v.queue)
  BY <1>2, <1>3, MovedAccord
<1> QED BY <1>1, <1>4, AccordHandler

LEMMA MoveAccord ==
  ASSUME AInv, ReportInv, NEW c \in Child, MoveApart(c) \/ Narrow(c) \/ ReleaseOwner(c)
  PROVE  ReportInv'
<1> SUFFICES ASSUME held' # Stale PROVE ReportInv'
  BY DEF ReportInv
<1>0. /\ host \in HostState /\ host.record = record /\ host.queue = queue /\ c \in Agent
      /\ "apart" \in Choice \ {"cancel"} /\ "release" \in Choice \ {"cancel"}
  BY HostType, AgentFacts DEF Choice
<1>1. Undecided(c) /\ sessions' = sessions /\ turn' = turn /\ phase' = phase /\ conflict' = conflict
  BY DEF MoveApart, Narrow, ReleaseOwner, agents
<1>2. CASE MoveApart(c)
  <2>1. PICK v \in HostState : MoveCases(host, c, "apart", v) /\ Write(v)
    BY <1>2, MoveApartMade
  <2>2. held # Stale
    BY <2>1, NotStale DEF MoveCases
  <2>3. host \in Concord(queue)
    BY <2>2, HostAccord
  <2> QED BY <1>0, <1>1, <2>1, <2>3, MoveHandled
<1>3. CASE ReleaseOwner(c)
  <2>1. PICK v \in HostState : MoveCases(Loosed(c), c, "release", v) /\ Write(v)
    BY <1>3, ReleaseOwnerMade
  <2>2. held # Stale
    BY <2>1, NotStale DEF MoveCases
  <2>3. host \in Concord(queue) /\ conflict[c] \in Child /\ Loosed(c) \in HostState
    BY <1>3, <2>2, HostAccord, ReleaseOwnerMade
  <2> DEFINE w == Loosed(c)
  <2>4. /\ w.queue = queue /\ \A r \in Run : Still(host, w, r)
        /\ w.record[c].resolved = record[c].resolved
    BY <1>0, <2>3, LeaseStill DEF Loosed
  <2> HIDE DEF w
  <2>5. w \in Concord(queue)
    BY <2>3, <2>4, StillConcord DEF w
  <2> QED BY <1>0, <1>1, <2>1, <2>4, <2>5, MoveHandled DEF w
<1>4. CASE Narrow(c)
  <2>1. PICK v \in HostState : MoveCases(host, c, "apart", v) /\ Write(v)
    BY <1>4, NarrowMade
  <2>2. held # Stale
    BY <2>1, NotStale DEF MoveCases
  <2>3. host \in Concord(queue)
    BY <2>2, HostAccord
  <2> QED BY <1>0, <1>1, <2>1, <2>3, MoveHandled
<1> QED BY <1>2, <1>3, <1>4

LEMMA SendFollowUpAccord ==
  ASSUME AInv, ReportInv, NEW m \in Mail, SendFollowUp(m)
  PROVE  ReportInv'
<1> SUFFICES ASSUME held' # Stale PROVE ReportInv'
  BY DEF ReportInv
<1>0. m \in FollowUp /\ m \in Run /\ m \notin Child /\ AgentOf(m) = Receiver[m] /\ Mailed(m) \in HostState
  BY SendFollowUpMade, AgentFacts
<1>1. PICK v \in HostState : Given(m, v) /\ Write(v)
  BY SendFollowUpMade
<1> DEFINE w == Mailed(m)
           z == Enqueue(w, m)
<1>2. sessions' = sessions /\ turn' = turn /\ phase' = phase /\ conflict' = conflict
  BY DEF SendFollowUp, agents
<1>3. held # Stale
  BY <1>1, NotStale DEF Given
<1>4. host \in Concord(queue) /\ host \in HostState /\ host.queue = queue
  BY <1>3, HostAccord, HostType
<1>5. w \in Concord(queue) /\ w.queue = queue
  <2>1. Note("mail", m) \in Event /\ Receiver[m] \in Agent
        /\ Note("mail", m).type \notin {"life", "completion", "resolved"}
    BY AgentFacts, EventType DEF Note
  <2> QED BY <1>4, <2>1, QuietStill, StillConcord DEF Mailed
<1> HIDE DEF w
<1>6. \A x \in Concord(queue) : Started(x, m) \in Concord(queue) /\ Started(x, m).queue = x.queue
  BY <1>0, StartedStill, StillConcord DEF Concord
<1>7. CASE v \in {Started(w, m), w} /\ UNCHANGED <<queue, held>>
  <2>1. v \in Concord(queue')
    BY <1>5, <1>6, <1>7
  <2> QED BY <1>1, <1>2, <2>1, AccordHandler
<1>8. CASE /\ v = Started(z, m) /\ turn[Receiver[m]] = NoRun /\ CanEnqueue(w, m)
           /\ Commit(queue, v.queue)
  <2>1. z \in Concord(queue)
    BY <1>0, <1>5, <1>8, EnqueueAccord
  <2>2. v \in Concord(queue) /\ queue' = v.queue
    BY <1>6, <1>8, <2>1, NotStale
  <2>3. v \in Concord(queue')
    BY <2>2, ConcordSelf
  <2> QED BY <1>1, <1>2, <2>3, AccordHandler
<1> QED BY <1>1, <1>7, <1>8 DEF Given, w

-----------------------------------------------------------------------------
(* The spawn of a child *)

LEMMA NewbornAccord ==
  ASSUME AInv, ReportInv, held # Stale, NEW c \in Child, record[c].last.state = "none"
  PROVE  /\ Admitted(c) \in Concord(queue) /\ Resting(Admitted(c), c) /\ Admitted(c).queue = queue
         /\ turn[c] = NoRun /\ conflict[c] = NoRun /\ c \notin Runs(queue)
         /\ Rulings(Admitted(c), c) = {} /\ LifeOf(Admitted(c), c) = "none"
<1> DEFINE w == Admitted(c)
<1>0. /\ c \in Agent /\ c \in Run /\ AgentOf(c) = c /\ NoRun \in Run \cup {NoRun} /\ NoRun \notin Run
      /\ "admitted" \in LifeState \ {"none"}
      /\ host \in HostState /\ host.record = record /\ host.queue = queue
  BY HostType, AgentFacts DEF LifeState
<1>1. host \in Concord(queue) /\ Place(host, c) /\ Dealt(host, c)
  BY <1>0, HostAccord DEF Concord, InAccord
<1>2. Resting(host, c)
  BY <1>0 DEF Resting, Idle
<1>3. /\ turn[c] = NoRun /\ conflict[c] = NoRun /\ c \notin Runs(queue)
      /\ Rulings(host, c) = {} /\ record[c].life[c] = "none"
  BY <1>0, <1>1, <1>2 DEF Place, Dealt
<1>4. LifeOf(host, c) = "none"
  BY <1>0, <1>3, HostFacts DEF LifeOf
<1>5. /\ w \in HostState /\ RecordedDone(host, w, c, NoRun, "admitted")
      /\ w.record[c].last.state = "admitted"
  BY AdmittedFacts
<1> HIDE DEF w
<1>6. LifeView(host, w, c, NoRun, "admitted")
  BY <1>0, <1>5, LifeViewed
<1>7. \A r \in Run \ {NoRun} : Still(host, w, r)
  BY <1>0, <1>2, <1>6, LifeStill
<1>8. \A r \in Run : Still(host, w, r)
  BY <1>0, <1>7
<1>9. w \in Concord(queue)
  BY <1>1, <1>5, <1>8, StillConcord
<1>10. Rulings(w, c) = {} /\ LifeOf(w, c) = "none"
  BY <1>0, <1>3, <1>4, <1>8 DEF Still, Level
<1>11. Resting(w, c) /\ w.queue = queue
  BY <1>0, <1>5 DEF Resting, Idle, RecordedDone
<1> QED BY <1>3, <1>9, <1>10, <1>11 DEF w

LEMMA OwnerIsAnother ==
  ASSUME AInv, NEW c \in Child, Owners(host, c) # {}
  PROVE  FirstOwner(host, c) # c
<1> DEFINE i == CHOOSE i \in Owners(host, c) : \A j \in Owners(host, c) : i <= j
<1>1. Owners(host, c) \in SUBSET Nat
  BY HostType DEF Owners
<1>2. i \in Owners(host, c)
  BY <1>1, LeastExists
<1>3. <<c, sessions[i]>> \in Overlap
  BY <1>2 DEF Owners
<1> HIDE DEF i
<1>4. c # sessions[i]
  <2> DEFINE p == <<c, sessions[i]>>
  <2>1. p \in Overlap /\ p[1] = c /\ p[2] = sessions[i]
    BY <1>3
  <2> HIDE DEF p
  <2>2. p[1] # p[2]
    BY <2>1, CollaborationAssumption
  <2> QED BY <2>1, <2>2
<1> QED BY <1>4 DEF FirstOwner, i

LEMMA BlockedAccord ==
  ASSUME AInv, ReportInv, held # Stale, NEW c \in Child, record[c].last.state = "none", NEW v,
         v = PutLife(Admitted(c), c, NoRun, "blocked"), Write(v), queue' = queue,
         turn' = turn, phase' = phase, ToSet(sessions) \subseteq ToSet(sessions'),
         conflict' = [conflict EXCEPT ![c] = FirstOwner(host, c)], Owners(host, c) # {}
  PROVE  ReportInv'
<1> DEFINE w == Admitted(c)
<1>0. /\ c \in Agent /\ c \in Run /\ AgentOf(c) = c /\ NoRun \in Run \cup {NoRun} /\ NoRun \notin Run
      /\ "blocked" \in LifeState \ {"none"}
  BY AgentFacts DEF LifeState
<1>1. /\ w \in Concord(queue) /\ w \in HostState /\ Resting(w, c) /\ w.queue = queue
      /\ c \notin Runs(queue) /\ Rulings(w, c) = {} /\ LifeOf(w, c) = "none"
      /\ w.record[c].last.state = "admitted"
  BY NewbornAccord, AdmittedFacts
<1> HIDE DEF w
<1>2. v \in HostState /\ LifeDone(w, v, c, NoRun, "blocked")
  BY <1>0, <1>1, PutLifeFacts DEF w
<1>3. LifeView(w, v, c, NoRun, "blocked")
  BY <1>0, <1>1, <1>2, LifeViewed
<1>4. \A r \in Run \ {NoRun} : Still(w, v, r)
  BY <1>0, <1>1, <1>3, LifeStill
<1>5. \A r \in Run : Still(w, v, r)
  BY <1>0, <1>4
<1>6. v \in Concord(queue)
  BY <1>1, <1>2, <1>5, StillConcord
<1>7. ASSUME NEW r \in Run
      PROVE  Place(host, r)' /\ Agrees(host, r)' /\ (SameDispute(r) => InAccord(host, r)')
  <2>1. InAccord(v, r) /\ Beyond(queue', v, r) /\ Onward(r) /\ TurnAs(v, AgentOf(r))
    BY <1>6 DEF Concord, Onward, TurnAs
  <2> QED BY <2>1, AccordKept
<1>8. \A r \in Run \ {c} : InAccord(host, r)'
  <2>1. \A r \in Run \ {c} : SameDispute(r)
    BY DEF SameDispute, AInv, Small
  <2> QED BY <1>7, <2>1
<1>9. Dealt(host, c)'
  <2>1. /\ host'.record = v.record /\ host'.queue = queue'
        /\ LifeOf(host, c)' = LifeOf(v, c) /\ Rulings(host, c)' = Rulings(v, c)
    BY <1>0, HostPrimed
  <2>2. LifeOf(v, c) = "none" /\ Rulings(v, c) = {} /\ v.record[c].last.state # "none"
    BY <1>0, <1>1, <1>5 DEF Still, Level
  <2>3. conflict'[c] = FirstOwner(host, c) /\ FirstOwner(host, c) # c
    BY OwnerIsAnother DEF AInv, Small
  <2> QED BY <1>1, <2>1, <2>2, <2>3 DEF Dealt
<1>10. InAccord(host, c)'
  BY <1>0, <1>7, <1>9 DEF InAccord
<1> QED BY <1>8, <1>10 DEF ReportInv

LEMMA SpawnAccord ==
  ASSUME AInv, ReportInv, NEW c \in Child, Spawn(c)
  PROVE  ReportInv'
<1> SUFFICES ASSUME held' # Stale PROVE ReportInv'
  BY DEF ReportInv
<1>1. PICK v \in HostState :
        /\ SpawnCases(c, v) /\ Write(v) /\ sessions' = Append(sessions, c) /\ record[c].last.state = "none"
        /\ UNCHANGED <<turn, phase>>
  BY SpawnMade
<1>2. held # Stale
  BY <1>1, NotStale DEF SpawnCases
<1>3. ToSet(sessions) \subseteq ToSet(sessions')
  <2>1. /\ sessions \in Seq(Child) /\ DOMAIN sessions' = 1..(Len(sessions) + 1)
        /\ \A i \in 1..Len(sessions) : sessions'[i] = sessions[i]
    BY <1>1, HostType, AppendFacts
  <2>2. \A i \in DOMAIN sessions : i \in DOMAIN sessions' /\ sessions'[i] = sessions[i]
    BY <2>1
  <2> QED BY <2>2 DEF ToSet
<1> DEFINE w == Admitted(c)
           u == Fresh(c)
<1>4. /\ w \in Concord(queue) /\ w \in HostState /\ w.queue = queue /\ turn[c] = NoRun /\ conflict[c] = NoRun
      /\ Rulings(w, c) = {}
  BY <1>1, <1>2, NewbornAccord, AdmittedFacts
<1> HIDE DEF w
<1>5. u \in Concord(queue) /\ u.queue = queue /\ u \in HostState /\ Rulings(u, c) = {}
  <2>1. /\ u \in HostState /\ u.queue = queue /\ \A r \in Run : Still(w, u, r)
    BY <1>4, LeaseType, LeaseStill DEF Fresh, w
  <2>2. Rulings(u, c) = Rulings(w, c)
    BY <2>1, AgentFacts DEF Still
  <2> HIDE DEF u
  <2> QED BY <1>4, <2>1, <2>2, StillConcord
<1> HIDE DEF u
<1>6. CASE /\ v = PutLife(Admitted(c), c, NoRun, "blocked") /\ Owners(host, c) # {} /\ UNCHANGED <<queue, held>>
           /\ conflict' = [conflict EXCEPT ![c] = FirstOwner(host, c)]
  BY <1>1, <1>2, <1>3, <1>6, BlockedAccord
<1>7. CASE v = Enqueue(u, c) /\ CanEnqueue(u, c) /\ Commit(queue, v.queue) /\ UNCHANGED conflict
  <2>1. c \in Run /\ AgentOf(c) = c /\ Rulings(u, c) # {"cancel"}
    BY <1>5, AgentFacts
  <2>2. v \in Concord(queue) /\ queue' = v.queue
    BY <1>4, <1>5, <1>7, <2>1, EnqueueAccord, NotStale
  <2>3. v \in Concord(queue')
    BY <2>2, ConcordSelf
  <2> QED BY <1>1, <1>3, <1>7, <2>3, AccordHandler
<1>8. CASE v = Release(u, c) /\ UNCHANGED <<queue, held, conflict>>
  <2>1. v \in Concord(queue)
    BY <1>5, <1>8, LeaseType, LeaseStill, StillConcord
  <2>2. v \in Concord(queue')
    BY <1>8, <2>1
  <2> QED BY <1>1, <1>3, <1>8, <2>2, AccordHandler
<1> QED BY <1>1, <1>6, <1>7, <1>8 DEF SpawnCases, u

-----------------------------------------------------------------------------
(* Claims and turns *)

LEMMA MarkQueued ==
  ASSUME NEW q, QueueOK(q), NEW r, NEW st, st # "queued"
  PROVE  Runs(Mark(q, r, st)) = Runs(q) /\ Queued(Mark(q, r, st)) = Queued(q) \ {r}
<1> DEFINE p == Mark(q, r, st)
<1>1. /\ DOMAIN p = DOMAIN q /\ Runs(p) = Runs(q)
      /\ \A i \in DOMAIN q : p[i].run = q[i].run /\ p[i].status = IF q[i].run = r THEN st ELSE q[i].status
  BY MarkRuns
<1> HIDE DEF p
<1>2. Queued(p) = Queued(q) \ {r}
  BY <1>1 DEF Queued
<1> QED BY <1>1, <1>2 DEF p

LEMMA MarkBeyond ==
  ASSUME NEW w, QueueOK(w.queue), NEW r, NEW st, st # "queued", NEW x
  PROVE  Beyond(Mark(w.queue, r, st), w, x) /\ Beyond(w.queue, w, x)
BY MarkQueued DEF Beyond

(* A claim of a run whose record refuses it changes the queue only.        *)
LEMMA ClaimAccord ==
  ASSUME AInv, ReportInv, NEW r \in Run, Claim(r)
  PROVE  ReportInv'
<1> SUFFICES ASSUME held' # Stale PROVE ReportInv'
  BY DEF ReportInv
<1> DEFINE a == AgentOf(r)
           v == Recorded(host, a, r, "running")
           q == Mark(queue, r, "running")
<1>0. /\ a \in Agent /\ r \in Run \cup {NoRun} /\ "running" \in LifeState \ {"none"} /\ "running" \notin Idle
      /\ host \in HostState /\ host.record = record /\ host.entries = entries /\ host.queue = queue
      /\ QueueOK(queue) /\ "running" # "queued"
  BY AgentFacts, HostType DEF LifeState, Idle, AInv
<1>1. ClaimDone(r) /\ v.entries = entries
  BY ClaimMade
<1>2. turn' = turn /\ conflict' = conflict /\ sessions' = sessions /\ entries' = entries /\ turn[a] = NoRun
      /\ r \in Queued(queue) /\ r \in Runs(queue)
  BY <1>1 DEF ClaimDone, QueuedRun, ItemOf, Queued, Runs
<1>3. held # Stale /\ queue' = q
  BY <1>1, NotStale DEF ClaimDone
<1>4. host \in Concord(queue)
  BY <1>3, HostAccord
<1>5. Runs(q) = Runs(queue) /\ Queued(q) = Queued(queue) \ {r}
  BY <1>0, MarkQueued
<1> HIDE DEF q
<1>6. CASE UNCHANGED <<record, held, phase>>
  <2>1. Write(host)
    BY <1>0, <1>2, <1>6 DEF Write
  <2>2. host \in Concord(queue')
    BY <1>0, <1>3, <1>4, <1>5 DEF Concord, Beyond
  <2> QED BY <1>2, <1>6, <2>1, <2>2, AccordHandler
<1>7. CASE record' = v.record /\ phase' = [phase EXCEPT ![r] = "claimed"]
  <2>1. v \in HostState /\ RecordedDone(host, v, a, r, "running")
    BY <1>0, RecordedFacts
  <2> HIDE DEF v
  <2>2. LifeView(host, v, a, r, "running")
    BY <1>0, <2>1, LifeViewed
  <2>3. /\ \A x \in Run : Said(v, x) = Said(host, x)
        /\ \A c : Rulings(v, c) = Rulings(host, c)
        /\ \A x \in Run \ {r} : Still(host, v, x)
    BY <1>0, <2>2, LifeStill
  <2>4. Write(v) /\ v.queue = queue /\ v.entries = entries
    BY <1>0, <1>1, <1>2, <1>7, <2>1 DEF Write, RecordedDone
  <2>5. phase'[r] = "claimed" /\ \A x \in Run \ {r} : phase'[x] = phase[x]
    BY <1>7 DEF AInv, Small
  <2>6. ASSUME NEW x \in Run \ {r} PROVE InAccord(host, x)'
    <3>1. InAccord(v, x) /\ Beyond(queue', v, x)
      BY <1>3, <1>4, <1>5, <2>3, <2>4, StillAccord DEF Concord, Beyond
    <3>2. Onward(x) /\ TurnAs(v, AgentOf(x)) /\ SameDispute(x)
      BY <1>2, <2>5 DEF Onward, TurnAs, SameDispute
    <3> QED BY <1>2, <2>4, <3>1, <3>2, AccordKept
  <2>7. /\ host'.record = v.record /\ host'.entries = v.entries /\ host'.queue = q
        /\ LifeOf(host, r)' = LifeOf(v, r) /\ Said(host, r)' = Said(host, r)
        /\ Rulings(host, r)' = Rulings(host, r) /\ Resting(host, a)' = Resting(v, a)
    BY <1>3, <2>3, <2>4, HostPrimed
  <2>8. /\ v.record[a].life[r] = "running" /\ v.record[a].last.state = "running"
        /\ Seen(v, a) = v.record[a] /\ entries[a] = <<>>
    BY <1>0, <1>2, <2>1, <2>4, HostFacts DEF RecordedDone, Lived
  <2>9. LifeOf(v, r) = "running" /\ ~Resting(v, a)
    BY <1>0, <2>8 DEF LifeOf, Resting
  <2>10. Place(host, r) /\ Agrees(host, r) /\ (r \in Child => Dealt(host, r))
    BY <1>4 DEF Concord, InAccord
  <2>11. Place(host, r)'
    BY <1>2, <1>5, <2>7, <2>8, <2>9 DEF Place, AgentOf
  <2>12. Agrees(host, r)'
    <3>1. Odd(host, r)' = Odd(host, r)
      BY <2>7 DEF Odd
    <3>2. Odd(host, r) => Rulings(host, r) # {"cancel"}
      BY <1>0, <1>2, <2>10 DEF Agrees, CalledOff
    <3>3. Plain(host, r) => Plain(host, r)'
      <4> SUFFICES ASSUME Plain(host, r) PROVE Plain(host, r)'
        OBVIOUS
      <4>1. phase[r] = "none"
        BY <1>0, <1>2, <2>10 DEF Place
      <4>2. LifeOf(host, r) = "queued"
        BY <1>0, <1>2, <4>1 DEF Plain
      <4>3. Said(host, r) = {}
        BY <4>2 DEF Plain, Terminal
      <4>4. NoLife(host'.entries[a], r)
        BY <2>4, <2>7, <2>8 DEF NoLife
      <4> QED BY <2>5, <2>7, <2>9, <4>3, <4>4 DEF Plain, AgentOf
    <3> QED BY <2>7, <2>10, <3>1, <3>2, <3>3 DEF Agrees
  <2>13. r \in Child => Dealt(host, r)'
    <3>1. r \in Child => a = r
      BY DEF AgentOf
    <3> QED BY <1>0, <1>2, <2>7, <2>8, <2>10, <3>1 DEF Dealt
  <2>14. InAccord(host, r)'
    BY <2>11, <2>12, <2>13 DEF InAccord
  <2> QED BY <2>6, <2>14 DEF ReportInv
<1> QED BY <1>1, <1>6, <1>7 DEF ClaimDone

LEMMA BeginTurnAccord ==
  ASSUME AInv, ReportInv, NEW r \in Run, BeginTurn(r) \/ NoTurn(r)
  PROVE  ReportInv'
<1> SUFFICES ASSUME held' # Stale PROVE ReportInv'
  BY DEF ReportInv
<1> DEFINE a == AgentOf(r)
<1>0. /\ a \in Agent /\ host \in HostState
      /\ host.record = record /\ host.entries = entries /\ host.queue = queue
  BY AgentFacts, HostType
<1>1. /\ queue' = queue /\ held' = held /\ sessions' = sessions /\ conflict' = conflict
      /\ phase[r] = "claimed" /\ Write(host)
  BY <1>0 DEF BeginTurn, NoTurn, Write
<1>2. host \in Concord(queue)
  BY <1>1, HostAccord
<1>3. InAccord(host, r) /\ Place(host, r) /\ ~Resting(host, a) /\ r \in Runs(queue)
  BY <1>0, <1>1, <1>2 DEF Concord, InAccord, Place
<1>4. ASSUME NEW x \in Run, Onward(x), TurnAs(host, AgentOf(x)) PROVE InAccord(host, x)'
  <2>1. InAccord(host, x) /\ Beyond(queue', host, x) /\ SameDispute(x)
    BY <1>1, <1>2 DEF Concord, SameDispute
  <2> QED BY <1>1, <1>4, <2>1, AccordKept
<1>5. CASE NoTurn(r)
  <2>1. turn' = turn /\ phase' = [phase EXCEPT ![r] = "over"]
    BY <1>5 DEF NoTurn
  <2>2. \A x \in Run : Onward(x) /\ TurnAs(host, AgentOf(x))
    BY <1>1, <2>1 DEF Onward, TurnAs, AInv, Small
  <2> QED BY <1>4, <2>2 DEF ReportInv
<1>6. CASE BeginTurn(r)
  <2>1. turn' = [turn EXCEPT ![a] = r] /\ phase' = [phase EXCEPT ![r] = "turn"] /\ Known(a)
    BY <1>6 DEF BeginTurn
  <2>2. /\ \A b \in Agent : turn'[b] = IF b = a THEN r ELSE turn[b]
        /\ phase'[r] = "turn" /\ \A x \in Run \ {r} : phase'[x] = phase[x]
    BY <2>1 DEF AInv, Small
  <2>3. \A x \in Run : TurnAs(host, AgentOf(x))
    BY <1>3, <2>1, <2>2, AgentFacts DEF TurnAs
  <2>4. \A x \in Run \ {r} : InAccord(host, x)'
    BY <1>4, <2>2, <2>3 DEF Onward
  <2>5. /\ host'.record = record /\ host'.entries = entries /\ host'.queue = queue
        /\ LifeOf(host, r)' = LifeOf(host, r) /\ Said(host, r)' = Said(host, r)
        /\ Rulings(host, r)' = Rulings(host, r) /\ Resting(host, a)' = Resting(host, a)
    BY <1>0, <1>1, HostPrimed
  <2>6. Known(a)'
    BY <1>1, <2>1 DEF Known, AgentOf
  <2>7. Place(host, r)'
    BY <1>0, <1>1, <1>3, <2>5, <2>6 DEF Place, AgentOf
  <2>8. Agrees(host, r)'
    <3>1. Odd(host, r)' = Odd(host, r)
      BY <2>5 DEF Odd
    <3>2. CalledOff(host, r) => CalledOff(host, r)'
      BY <1>0, <2>5 DEF CalledOff
    <3>3. Plain(host, r) => Plain(host, r)'
      BY <1>0, <1>1, <1>3, <2>2, <2>5 DEF Plain, AgentOf
    <3> QED BY <1>3, <2>5, <3>1, <3>2, <3>3 DEF InAccord, Agrees
  <2>9. r \in Child => Dealt(host, r)'
    BY <1>0, <1>1, <1>3, <2>5 DEF InAccord, Dealt
  <2>10. InAccord(host, r)'
    BY <2>7, <2>8, <2>9 DEF InAccord
  <2> QED BY <2>4, <2>10 DEF ReportInv
<1> QED BY <1>5, <1>6

(* No event takes a run back to where it had none.                         *)
LEMMA FlushedNotNone ==
  ASSUME NEW R \in Record, NEW es \in Seq(Event), NEW r \in Run, R.life[r] # "none"
  PROVE  Flushed(R, es).life[r] # "none"
<1> DEFINE n == Len(es)
<1>0. n \in Nat /\ \A i \in 1..n : es[i] \in Event
  OBVIOUS
<1>1. PICK A \in [0..n -> Record] :
        /\ A[0] = R /\ \A i \in 1..n : A[i] = Apply(A[i - 1], es[i])
        /\ Flushed(R, es) = A[n]
  BY FlushedSteps DEF Flushing
<1> DEFINE G == {i \in 0..n : A[i].life[r] # "none"}
<1> HIDE DEF n
<1>2. 0 \in G
  BY <1>0, <1>1
<1>3. ASSUME NEW i \in 0..n, i # n, i \in G PROVE i + 1 \in G
  <2>1. i + 1 \in 1..n /\ (i + 1) - 1 = i /\ i + 1 \in 0..n
    BY <1>0, <1>3
  <2> DEFINE S == A[i]
             e == es[i + 1]
             T == A[i + 1]
  <2>2. T = Apply(S, e) /\ S \in Record /\ e \in Event /\ S.life[r] # "none"
    BY <1>0, <1>1, <1>3, <2>1
  <2>3. e.type = "life" => e.what # "none"
    BY <2>2 DEF Event
  <2> HIDE DEF S, e, T
  <2>4. T.life = IF e.type = "life" THEN [x \in Run |-> IF x = e.of THEN e.what ELSE S.life[x]] ELSE S.life
    BY <2>2, ApplyFields
  <2>5. T.life[r] # "none"
    BY <2>2, <2>3, <2>4
  <2> QED BY <2>1, <2>5 DEF T
<1> HIDE DEF G
<1>4. \A i \in 0..n : i \in G
  BY <1>0, <1>2, <1>3, AlongArray
<1>5. n \in G
  BY <1>0, <1>4
<1> QED BY <1>1, <1>5 DEF G

(* The flush of the recorder of an agent at work.                          *)
FlushOf(w, v, a) ==
  /\ v.queue = w.queue /\ Elsewhere(w, v, a) /\ v.record[a] = Seen(w, a) /\ Seen(v, a) = Seen(w, a)
  /\ v.entries[a] = <<>>

LEMMA FlushStill ==
  ASSUME NEW w \in HostState, NEW v, NEW a \in Agent, FlushOf(w, v, a),
         ~Resting(w, a) \/ \A x \in Run : AgentOf(x) # a
  PROVE  \A x \in Run : Still(w, v, x)
<1>1. \A b \in Agent : Seen(v, b) = Seen(w, b)
  BY DEF FlushOf, Elsewhere
<1>2. ASSUME NEW x \in Run PROVE Level(w, v, x)
  <2>0. AgentOf(x) \in Agent
    BY AgentFacts
  <2>1. CASE AgentOf(x) # a
    BY <2>0, <2>1, LivesLevel DEF FlushOf, Elsewhere, SameLives
  <2>2. CASE AgentOf(x) = a
    <3>1. w.record[a] \in Record /\ w.entries[a] \in Seq(Event)
      BY HostFacts
    <3>2. w.record[a].life[x] # "none" => v.record[a].life[x] # "none"
      BY <3>1, FlushedNotNone DEF FlushOf, Seen
    <3>3. ~Resting(v, a) /\ v.record[a].last.state # "none"
      <4>1. ~Resting(w, a)
        BY <2>2
      <4> QED BY <4>1 DEF FlushOf, Resting, Idle
    <3>4. NoLife(v.entries[a], x)
      BY DEF FlushOf, NoLife
    <3>5. LifeOf(v, x) = LifeOf(w, x)
      BY <1>1, <2>0 DEF LifeOf
    <3> QED BY <2>2, <3>2, <3>3, <3>4, <3>5 DEF Level, FlushOf
  <2> QED BY <2>1, <2>2
<1>3. \A x \in Run : Said(v, x) = Said(w, x) /\ Rulings(v, x) = Rulings(w, x)
  BY <1>1, AgentFacts DEF Said, Rulings
<1> QED BY <1>2, <1>3 DEF Still

LEMMA EndTurnAccord ==
  ASSUME AInv, LeaseInv, ReportInv, NEW r \in Run, NEW st \in Outcome, EndTurn(r, st)
  PROVE  ReportInv'
<1> SUFFICES ASSUME held' # Stale PROVE ReportInv'
  BY DEF ReportInv
<1> DEFINE a == AgentOf(r)
           w == Ended(a, r, st)
           v == [record |-> [record EXCEPT ![a] = Seen(w, a)], entries |-> [entries EXCEPT ![a] = <<>>],
                 queue |-> queue]
<1>0. /\ a \in Agent /\ st \in Terminal /\ st \in LifeState \ {"none"} /\ st \notin Idle /\ r # NoRun
      /\ r \in Run \cup {NoRun}
      /\ host \in HostState /\ host.record = record /\ host.entries = entries /\ host.queue = queue
  BY AgentFacts, HostType, CollaborationAssumption DEF Terminal, LifeState, Idle
<1>1. /\ turn[a] = r /\ turn' = [turn EXCEPT ![a] = NoRun] /\ phase' = [phase EXCEPT ![r] = "over"]
      /\ queue' = queue /\ held' = held /\ sessions' = sessions /\ conflict' = conflict
      /\ record' = (IF Known(a) THEN [record EXCEPT ![a] = Seen(w, a)] ELSE record)
      /\ entries' = [entries EXCEPT ![a] = <<>>]
  BY DEF EndTurn, Ended
<1>2. phase[r] = "turn"
  BY <1>1 DEF LeaseInv, TurnPhases
<1>3. host \in Concord(queue)
  BY <1>1, HostAccord
<1>4. /\ Place(host, r) /\ Agrees(host, r) /\ (r \in Child => Dealt(host, r))
      /\ Known(a) /\ ~Resting(host, a) /\ r \in Runs(queue) /\ record[a].life[r] # "none"
  BY <1>0, <1>1, <1>2, <1>3 DEF Concord, InAccord, Place
<1>5. /\ w \in HostState
      /\ Legal(Seen(host, a), r, st) => PutDone(host, w, a, Life(r, st))
      /\ ~Legal(Seen(host, a), r, st) => w = host
  BY <1>0, EndedType
<1>6. Write(v) /\ v.queue = queue
  BY <1>1, <1>4 DEF Write
<1> HIDE DEF w
<1>7. w.queue = queue /\ w.record[a] = record[a] /\ Elsewhere(host, w, a)
  BY <1>0, <1>1, <1>5 DEF PutDone, Elsewhere
<1>8. FlushOf(w, v, a)
  <2>1. /\ \A b \in Agent : v.record[b] = IF b = a THEN Seen(w, a) ELSE record[b]
        /\ \A b \in Agent : v.entries[b] = IF b = a THEN <<>> ELSE entries[b]
    BY <1>0 DEF AInv, Filed
  <2> HIDE DEF v
  <2>2. ASSUME NEW b \in Agent \ {a}
        PROVE  Seen(v, b) = Seen(w, b) /\ v.record[b] = w.record[b] /\ v.entries[b] = w.entries[b]
    <3>1. v.record[b] = w.record[b] /\ v.entries[b] = w.entries[b]
      BY <1>0, <1>7, <2>1 DEF Elsewhere
    <3> QED BY <3>1 DEF Seen
  <2>3. Seen(v, a) = Seen(w, a)
    <3>1. Seen(w, a) \in Record
      BY <1>0, <1>5, HostFacts
    <3>2. v.record[a] = Seen(w, a) /\ v.entries[a] = <<>>
      BY <1>0, <2>1
    <3> HIDE DEF a
    <3> QED BY <3>1, <3>2, FlushedEmpty DEF Seen
  <2> QED BY <1>0, <1>6, <1>7, <2>1, <2>2, <2>3 DEF FlushOf, Elsewhere
<1> HIDE DEF v
<1>9. /\ \A x \in Run : Said(w, x) = Said(host, x)
      /\ \A c : Rulings(w, c) = Rulings(host, c)
      /\ \A x \in Run \ {r} : Still(host, w, x)
      /\ ~Resting(w, a)
  <2>1. CASE w = host
    BY <1>4, <2>1, LevelFacts
  <2>2. CASE PutDone(host, w, a, Life(r, st)) /\ Legal(Seen(host, a), r, st)
    <3>1. LifeView(host, w, a, r, st)
      BY <1>0, <2>2, LifeViewed DEF LifeDone, PutDone
    <3>2. Seen(w, a).last.state \in {Seen(host, a).last.state, st}
      BY <3>1 DEF LifeView
    <3>3. ~Resting(w, a)
      BY <1>0, <1>4, <1>7, <3>2 DEF Resting
    <3> QED BY <1>0, <3>1, <3>3, LifeStill
  <2> QED BY <1>5, <2>1, <2>2
<1>10. \A x \in Run : Still(w, v, x)
  BY <1>0, <1>5, <1>8, <1>9, FlushStill
<1>11. /\ phase'[r] = "over" /\ \A x \in Run \ {r} : phase'[x] = phase[x]
       /\ \A b \in Agent : turn'[b] \in {NoRun, turn[b]}
       /\ turn'[a] = NoRun
  BY <1>0, <1>1 DEF AInv, Small
<1>12. ASSUME NEW x \in Run \ {r} PROVE InAccord(host, x)'
  <2>1. Still(host, v, x)
    BY <1>9, <1>10, LevelFacts
  <2>2. InAccord(v, x) /\ Beyond(queue', v, x)
    BY <1>1, <1>3, <2>1, StillAccord DEF Concord
  <2>3. Onward(x) /\ TurnAs(v, AgentOf(x)) /\ SameDispute(x)
    BY <1>1, <1>11, AgentFacts DEF Onward, TurnAs, SameDispute
  <2> QED BY <1>1, <1>6, <2>2, <2>3, AccordKept
<1>13. /\ host'.record = v.record /\ host'.entries = v.entries /\ host'.queue = queue
       /\ LifeOf(host, r)' = LifeOf(w, r) /\ Said(host, r)' = Said(host, r)
       /\ Rulings(host, r)' = Rulings(host, r)
       /\ Resting(host, a)' = Resting(v, a)
  <2>1. LifeOf(v, r) = LifeOf(w, r) /\ Said(v, r) = Said(w, r) /\ (r \in Child => Rulings(v, r) = Rulings(w, r))
    BY <1>10 DEF Still, Level
  <2>2. Rulings(v, r) = Rulings(w, r)
    BY <1>8 DEF FlushOf, Elsewhere, Rulings
  <2> QED BY <1>1, <1>6, <1>9, <2>1, <2>2, HostPrimed
<1>14. v.record[a].life[r] # "none" /\ ~Resting(v, a) /\ NoLife(v.entries[a], r)
  <2>1. ~Resting(v, a) /\ (w.record[a].life[r] # "none" => v.record[a].life[r] # "none")
    BY <1>9, <1>10 DEF Still, Level
  <2> QED BY <1>4, <1>7, <1>8, <2>1 DEF FlushOf, NoLife
<1>15. Place(host, r)'
  <2>1. r \notin Queued(queue)
    BY <1>0, <1>2, <1>4 DEF Place
  <2> QED BY <1>4, <1>11, <1>13, <1>14, <2>1 DEF Place, AgentOf
<1>16. Agrees(host, r)'
  <2>1. Odd(host, r)' = Odd(host, r)
    BY <1>13 DEF Odd
  <2>2. Odd(host, r) => Rulings(host, r) # {"cancel"}
    BY <1>0, <1>4 DEF Agrees, CalledOff
  <2>3. Plain(host, r) => Plain(host, r)'
    <3> SUFFICES ASSUME Plain(host, r) PROVE Plain(host, r)'
      OBVIOUS
    <3>1. Said(host, r) = {} \/ (LifeOf(host, r) \in Terminal /\ Said(host, r) = {LifeOf(host, r)})
      BY DEF Plain
    <3>2. LifeOf(host, r) \in Terminal => LifeOf(w, r) = LifeOf(host, r)
      BY <1>0, <1>5, HostFacts, LegalAfter DEF LifeOf
    <3> QED BY <1>11, <1>13, <1>14, <3>1, <3>2 DEF Plain, AgentOf
  <2> QED BY <1>4, <1>13, <2>1, <2>2, <2>3 DEF Agrees
<1>17. r \in Child => Dealt(host, r)'
  <2> SUFFICES ASSUME r \in Child PROVE Dealt(host, r)'
    OBVIOUS
  <2>1. a = r
    BY DEF AgentOf
  <2>2. v.record[r].last.state # "none"
    BY <1>14, <2>1 DEF Resting, Idle
  <2> QED BY <1>0, <1>1, <1>4, <1>13, <2>2 DEF Dealt
<1>18. InAccord(host, r)'
  BY <1>15, <1>16, <1>17 DEF InAccord
<1> QED BY <1>12, <1>18 DEF ReportInv

LEMMA RootTurnAccord ==
  ASSUME AInv, ReportInv, BeginRootTurn \/ EndRootTurn
  PROVE  ReportInv'
<1> SUFFICES ASSUME held' # Stale PROVE ReportInv'
  BY DEF ReportInv
<1>0. /\ Root \in Agent /\ \A x \in Run : AgentOf(x) \in Agent /\ AgentOf(x) # Root
      /\ host \in HostState /\ host.record = record /\ host.entries = entries /\ host.queue = queue
  BY AgentFacts, HostType, CollaborationAssumption
<1>1. /\ queue' = queue /\ held' = held /\ sessions' = sessions /\ conflict' = conflict /\ phase' = phase
      /\ \A x \in Run : turn'[AgentOf(x)] = turn[AgentOf(x)]
  BY <1>0 DEF BeginRootTurn, EndRootTurn, AInv, Small
<1>2. host \in Concord(queue)
  BY <1>1, HostAccord
<1>3. ASSUME NEW v, Write(v), \A x \in Run : Still(host, v, x) PROVE ReportInv'
  <2>1. \A x \in Run : InAccord(v, x) /\ Beyond(queue', v, x)
    BY <1>1, <1>2, <1>3, StillAccord DEF Concord
  <2>2. \A x \in Run : Onward(x) /\ TurnAs(v, AgentOf(x)) /\ SameDispute(x)
    BY <1>1 DEF Onward, TurnAs, SameDispute
  <2>3. \A x \in Run : InAccord(host, x)'
    BY <1>1, <1>3, <2>1, <2>2, AccordKept
  <2> QED BY <2>3 DEF ReportInv
<1>4. CASE BeginRootTurn
  <2>1. Write(host)
    BY <1>0, <1>4 DEF BeginRootTurn, Write
  <2> QED BY <1>3, <2>1, LevelFacts
<1>5. CASE EndRootTurn
  <2> DEFINE R == Seen(host, Root)
             v == [record |-> [record EXCEPT ![Root] = R], entries |-> [entries EXCEPT ![Root] = <<>>],
                   queue |-> queue]
  <2>1. Write(v) /\ v.queue = queue
    BY <1>5 DEF EndRootTurn, Write
  <2>2. FlushOf(host, v, Root)
    <3>1. /\ \A b \in Agent : v.record[b] = IF b = Root THEN R ELSE record[b]
          /\ \A b \in Agent : v.entries[b] = IF b = Root THEN <<>> ELSE entries[b]
      BY <1>0 DEF AInv, Filed
    <3>2. R \in Record
      BY <1>0, HostFacts
    <3> HIDE DEF v, R
    <3>3. \A b \in Agent \ {Root} : Seen(v, b) = Seen(host, b)
      BY <1>0, <3>1 DEF Seen
    <3>4. Seen(v, Root) = R
      BY <1>0, <3>1, <3>2, FlushedEmpty DEF Seen
    <3> QED BY <1>0, <2>1, <3>1, <3>3, <3>4 DEF FlushOf, Elsewhere, R
  <2> HIDE DEF v
  <2>3. \A x \in Run : Still(host, v, x)
    BY <1>0, <2>2, FlushStill
  <2> QED BY <1>3, <2>1, <2>3
<1> QED BY <1>4, <1>5

-----------------------------------------------------------------------------
(* Settlements *)

(* A run that the pump is through with is what its record says it is.      *)
LEMMA OverFits ==
  ASSUME AInv, NEW w \in HostState, NEW r \in Run, InAccord(w, r), phase[r] \in {"over", "again"}
  PROVE  /\ ~Resting(w, AgentOf(r)) /\ r \in Runs(w.queue) /\ r \notin Queued(w.queue)
         /\ Odd(w, r) => Rulings(w, r) # {"cancel"}
         /\ ~Odd(w, r) => /\ Plain(w, r) /\ NoLife(w.entries[AgentOf(r)], r)
                          /\ LifeOf(w, r) = w.record[AgentOf(r)].life[r]
<1> DEFINE a == AgentOf(r)
<1>0. w.record[a] \in Record /\ w.entries[a] \in Seq(Event)
  BY AgentFacts, HostFacts
<1>1. r \in Runs(w.queue) /\ r \notin Queued(w.queue) /\ w.record[a].life[r] # "none"
  BY DEF InAccord, Place
<1>2. ~Resting(w, a)
  BY <1>1 DEF InAccord, Place
<1>3. Odd(w, r) => Rulings(w, r) # {"cancel"}
  BY <1>1 DEF InAccord, Agrees, CalledOff
<1>4. ~Odd(w, r) => Plain(w, r) /\ NoLife(w.entries[a], r)
  BY DEF InAccord, Agrees, Plain
<1>5. ~Odd(w, r) => LifeOf(w, r) = w.record[a].life[r]
  BY <1>0, <1>4, FlushNoLife DEF LifeOf, Seen
<1> QED BY <1>1, <1>2, <1>3, <1>4, <1>5

LEMMA ClosingAccord ==
  ASSUME AInv, ReportInv, held # Stale, NEW r \in Run, NEW st \in Terminal, phase[r] \in {"over", "again"},
         CanSettle(r, st)
  PROVE  Closing(r, st) \in Concord(queue) /\ Closing(r, st).queue = queue /\ Fits(Closing(r, st), r, st)
<1> DEFINE a == AgentOf(r)
           v == Recorded(host, a, r, st)
<1>0. /\ a \in Agent /\ st \in LifeState \ {"none"} /\ st \notin Idle /\ r \in Run \cup {NoRun}
      /\ host \in HostState /\ host.record = record /\ host.entries = entries /\ host.queue = queue
      /\ record[a] \in Record
  BY AgentFacts, HostType DEF LifeState, Terminal, Idle, AInv, Filed
<1>1. host \in Concord(queue) /\ InAccord(host, r)
  BY <1>0, HostAccord DEF Concord
<1>2. /\ ~Resting(host, a) /\ r \in Runs(queue) /\ r \notin Queued(queue)
      /\ Odd(host, r) => Rulings(host, r) # {"cancel"}
      /\ ~Odd(host, r) => /\ Plain(host, r) /\ NoLife(entries[a], r)
                          /\ LifeOf(host, r) = record[a].life[r]
  BY <1>0, <1>1, OverFits
<1>3. CASE record[a].life[r] = st
  <2>1. Closing(r, st) = host
    BY <1>3 DEF Closing
  <2> QED BY <1>0, <1>1, <1>2, <1>3, <2>1 DEF Fits
<1>4. CASE record[a].life[r] # st
  <2>1. Closing(r, st) = v /\ Legal(record[a], r, st)
    BY <1>4 DEF Closing, CanSettle
  <2>2. v \in HostState /\ RecordedDone(host, v, a, r, st)
    BY <1>0, RecordedFacts
  <2> HIDE DEF v
  <2>3. LifeView(host, v, a, r, st)
    BY <1>0, <2>2, LifeViewed
  <2>4. /\ \A x \in Run : Said(v, x) = Said(host, x)
        /\ \A c : Rulings(v, c) = Rulings(host, c)
        /\ \A x \in Run \ {r} : Still(host, v, x)
    BY <1>0, <2>3, LifeStill
  <2>5. /\ v.record[a].life[r] = st /\ v.record[a].last.state = st /\ v.entries = entries /\ v.queue = queue
        /\ NoLife(entries[a], r) => LifeOf(v, r) = st
        /\ Seen(v, a).last.state \in {Seen(host, a).last.state, st}
    BY <1>0, <2>2, <2>3 DEF RecordedDone, Lived, LifeOf, LifeView
  <2>6. ~Resting(v, a)
    BY <1>0, <1>2, <2>5 DEF Resting
  <2>7. Place(v, r)
    BY <1>0, <1>1, <1>2, <2>5, <2>6 DEF InAccord, Place
  <2>8. Odd(v, r) = Odd(host, r) /\ Rulings(v, r) = Rulings(host, r) /\ Said(v, r) = Said(host, r)
    BY <2>4 DEF Odd
  <2>9. Agrees(v, r)
    <3>1. CASE Odd(host, r)
      BY <1>2, <2>8, <3>1 DEF Agrees
    <3>2. CASE ~Odd(host, r)
      <4>1. record[a].life[r] \notin Terminal
        BY <1>0, <2>1, LegalAfter
      <4>2. Said(v, r) = {}
        BY <1>2, <2>8, <3>2, <4>1 DEF Plain
      <4>3. NoLife(v.entries[a], r)
        BY <1>2, <2>5, <3>2
      <4>4. Plain(v, r)
        BY <4>2, <4>3 DEF Plain
      <4> QED BY <2>8, <3>2, <4>4 DEF Agrees
    <3> QED BY <3>1, <3>2
  <2>10. r \in Child => Dealt(v, r)
    <3>1. r \in Child => a = r
      BY DEF AgentOf
    <3> QED BY <1>0, <1>1, <1>2, <2>5, <2>8, <3>1 DEF InAccord, Dealt, Terminal
  <2>11. InAccord(v, r) /\ Beyond(queue, v, r)
    BY <2>5, <2>7, <2>9, <2>10 DEF InAccord, Beyond
  <2>12. v \in Concord(queue)
    BY <1>1, <2>2, <2>4, <2>11, StillAccord DEF Concord
  <2>13. Fits(v, r, st)
    BY <1>2, <2>5, <2>8 DEF Fits
  <2> QED BY <2>1, <2>5, <2>12, <2>13
<1> QED BY <1>3, <1>4

LEMMA MarkedAccord ==
  ASSUME AInv, ReportInv, held # Stale, NEW r \in Run, NEW st \in Terminal, phase[r] \in {"over", "again"},
         CanSettle(r, st)
  PROVE  /\ Marked(r, st) \in Concord(Mark(queue, r, "settled")) /\ Fits(Marked(r, st), r, st)
         /\ Marked(r, st).queue = Mark(queue, r, "settled")
<1> DEFINE w == Closing(r, st)
           v == Marked(r, st)
           q == Mark(queue, r, "settled")
<1>1. /\ w \in HostState /\ v \in HostState /\ v.queue = q /\ v.entries = entries /\ v.record = w.record
      /\ \A b \in Agent : Seen(v, b) = Seen(w, b)
  BY MarkedFacts
<1>2. w \in Concord(queue) /\ w.queue = queue /\ Fits(w, r, st)
  BY ClosingAccord
<1>3. w.entries = entries
  <2>1. st \in LifeState \ {"none"} /\ AgentOf(r) \in Agent /\ host \in HostState /\ host.entries = entries
        /\ r \in Run \cup {NoRun}
    BY AgentFacts, HostType DEF LifeState, Terminal
  <2>2. Recorded(host, AgentOf(r), r, st).entries = entries
    BY <2>1, RecordedFacts DEF RecordedDone
  <2> QED BY <2>1, <2>2 DEF Closing
<1> HIDE DEF w, v
<1>4. Runs(q) = Runs(queue) /\ Queued(q) = Queued(queue)
  <2>1. r \notin Queued(queue)
    BY <1>2 DEF Concord, InAccord, Place
  <2>2. Runs(q) = Runs(queue) /\ Queued(q) = Queued(queue) \ {r}
    BY MarkQueued DEF AInv
  <2> QED BY <2>1, <2>2
<1> HIDE DEF q
<1>5. ASSUME NEW x \in Run PROVE Still(w, v, x)
  <2>1. AgentOf(x) \in Agent
    BY AgentFacts
  <2>2. LifeOf(v, x) = LifeOf(w, x) /\ Said(v, x) = Said(w, x) /\ Rulings(v, x) = Rulings(w, x)
    BY <1>1, AgentFacts DEF LifeOf, Said, Rulings
  <2>3. Resting(v, AgentOf(x)) = Resting(w, AgentOf(x))
    BY <1>1, <2>1 DEF Resting
  <2>4. Level(w, v, x)
    BY <1>1, <1>2, <1>3, <1>4, <2>2, <2>3 DEF Level
  <2> QED BY <2>2, <2>4 DEF Still
<1>6. v \in Concord(queue)
  BY <1>1, <1>2, <1>5, StillConcord
<1>7. v \in Concord(q)
  BY <1>1, <1>6, ConcordSelf
<1>8. Fits(v, r, st)
  BY <1>2, <1>5 DEF Fits, Odd, Still, Level
<1> QED BY <1>1, <1>7, <1>8 DEF v, q

LEMMA SettledAccord ==
  ASSUME AInv, held' # Stale, NEW q, NEW w \in Concord(q), NEW r \in Run, NEW st \in Terminal, Fits(w, r, st),
         NEW v, SettledDone(w, r, st, q, v)
  PROVE  v \in Concord(queue') /\ sessions' = sessions
<1> DEFINE u == Complete(w, r, st)
<1>1. u \in Concord(q)
  BY HostType, CompleteAccord
<1> HIDE DEF u
<1>2. CASE \E m \in Drainable(u, AgentOf(r)) :
             v = Started(Enqueue(u, m), m) /\ Replace(q, v.queue) /\ UNCHANGED sessions
  <2>1. PICK m \in Drainable(u, AgentOf(r)) :
               v = Started(Enqueue(u, m), m) /\ Replace(q, v.queue) /\ UNCHANGED sessions
    BY <1>2
  <2>2. /\ m \in FollowUp /\ m \in Run /\ m \notin Child /\ AgentOf(m) = Receiver[m] /\ turn[AgentOf(m)] = NoRun
        /\ CanEnqueue(u, m)
    BY <2>1, AgentFacts DEF Drainable
  <2> DEFINE z == Enqueue(u, m)
  <2>3. z \in Concord(q) /\ z \in HostState
    BY <1>1, <2>2, EnqueueAccord DEF Concord
  <2> HIDE DEF z
  <2>4. v \in Concord(q)
    BY <2>1, <2>2, <2>3, StartedStill, StillConcord DEF z
  <2>5. queue' = v.queue
    BY <2>1, NotStale
  <2> QED BY <2>1, <2>4, <2>5, ConcordSelf
<1>3. CASE v = u /\ Waiting /\ Wake(q)
  BY <1>1, <1>3, NotStale
<1>4. CASE v = u /\ \E p \in {q, v.queue} : Replace(q, p) /\ UNCHANGED sessions
  <2>1. queue' \in {q, v.queue} /\ sessions' = sessions
    BY <1>4, NotStale
  <2> QED BY <1>1, <1>4, <2>1, ConcordSelf
<1> QED BY <1>2, <1>3, <1>4 DEF SettledDone, u

LEMMA SettleAccord ==
  ASSUME AInv, ReportInv, NEW r \in Run, NEW st \in Outcome \cup {"failed"}, Settle(r, st)
  PROVE  ReportInv'
<1> SUFFICES ASSUME held' # Stale PROVE ReportInv'
  BY DEF ReportInv
<1> DEFINE a == AgentOf(r)
           q == Mark(queue, r, "settled")
<1>0. /\ st \in Terminal /\ host \in HostState /\ sessions \in Seq(Child) /\ QueueOK(queue)
      /\ host.record = record /\ host.entries = entries /\ host.queue = queue
  BY HostType, CollaborationAssumption DEF Terminal, AInv
<1>1. SettleCases(r, st) /\ phase[r] \in {"over", "again"} /\ turn' = turn /\ conflict' = conflict
  BY SettleMade
<1>2. ASSUME NEW v, v \in Concord(queue'), Write(v), sessions' = sessions, \A x \in Run : Onward(x)
      PROVE  ReportInv'
  <2>1. \A x \in Run : /\ InAccord(v, x) /\ Beyond(queue', v, x)
                       /\ Onward(x) /\ TurnAs(v, AgentOf(x)) /\ SameDispute(x)
    BY <1>1, <1>2 DEF Concord, TurnAs, SameDispute
  <2>2. \A x \in Run : InAccord(host, x)'
    BY <1>2, <2>1, AccordKept
  <2> QED BY <2>2 DEF ReportInv
<1>3. ASSUME NEW w, NEW p, w \in HostState, Settled(w, r, st, p), phase' = [phase EXCEPT ![r] = "done"],
             held # Stale => w \in Concord(p) /\ Fits(w, r, st)
      PROVE  ReportInv'
  <2>1. PICK v \in HostState : SettledDone(w, r, st, p, v) /\ Write(v)
    BY <1>0, <1>3, SettledMade
  <2>2. held # Stale
    BY <2>1, NotStale DEF SettledDone
  <2>3. v \in Concord(queue') /\ sessions' = sessions
    BY <1>0, <1>3, <2>1, <2>2, SettledAccord
  <2>4. \A x \in Run : Onward(x)
    BY <1>1, <1>3 DEF Onward, AInv, Small
  <2> QED BY <1>2, <2>1, <2>3, <2>4
<1>4. CASE CanSettle(r, st) /\ phase' = [phase EXCEPT ![r] = "done"] /\ Settled(Marked(r, st), r, st, q)
  <2>1. Marked(r, st) \in HostState
    BY <1>0, MarkedFacts
  <2>2. held # Stale => Marked(r, st) \in Concord(q) /\ Fits(Marked(r, st), r, st)
    BY <1>0, <1>1, <1>4, MarkedAccord
  <2> QED BY <1>3, <1>4, <2>1, <2>2
<1>5. CASE record[a].life[r] = st /\ phase' = [phase EXCEPT ![r] = "done"] /\ Settled(host, r, st, queue)
  <2>1. held # Stale => host \in Concord(queue) /\ Fits(host, r, st)
    <3> SUFFICES ASSUME held # Stale PROVE host \in Concord(queue) /\ Fits(host, r, st)
      OBVIOUS
    <3>1. host \in Concord(queue)
      BY HostAccord
    <3>2. InAccord(host, r)
      BY <3>1 DEF Concord
    <3> QED BY <1>0, <1>1, <1>5, <3>1, <3>2, OverFits DEF Fits
  <2> QED BY <1>0, <1>3, <1>5, <2>1
<1>6. CASE /\ queue' \in {queue, q} /\ phase' = [phase EXCEPT ![r] = IF @ = "over" THEN "again" ELSE "done"]
           /\ UNCHANGED <<record, entries, sessions, held>>
  <2>1. host \in Concord(queue) /\ Write(host)
    BY <1>0, <1>6, HostAccord DEF Write
  <2>2. host \in Concord(queue')
    <3>1. ASSUME NEW x \in Run PROVE Beyond(queue', host, x)
      <4>1. QueueOK(host.queue) /\ "settled" # "queued"
        BY <1>0
      <4>2. Beyond(Mark(host.queue, r, "settled"), host, x) /\ Beyond(host.queue, host, x)
        BY <4>1, MarkBeyond
      <4> QED BY <1>0, <1>6, <4>2
    <3> QED BY <2>1, <3>1 DEF Concord
  <2>3. \A x \in Run : Onward(x)
    BY <1>1, <1>6 DEF Onward, AInv, Small
  <2> QED BY <1>2, <1>6, <2>1, <2>2, <2>3
<1> QED BY <1>1, <1>4, <1>5, <1>6 DEF SettleCases

-----------------------------------------------------------------------------
(* The invariant, and what follows from it *)

LEMMA ReportInit ==
  ASSUME Init PROVE ReportInv
<1>1. /\ host.record = record /\ host.queue = queue /\ host.entries = entries
      /\ \A b \in Agent : /\ record[b].last = [run |-> NoRun, state |-> "none"] /\ record[b].resolved = {}
                          /\ \A r \in Run : record[b].life[r] = "none" /\ record[b].done[r] = {}
                          /\ entries[b] = <<>> /\ turn[b] = NoRun
      /\ \A r \in Run : phase[r] = "none"
      /\ \A c \in Child : conflict[c] = NoRun /\ c # NoRun
  BY AgentFacts DEF Init, host
<1>2. \A r \in Run : r \notin Runs(queue) /\ r \notin Queued(queue)
  <2>1. queue \in {<<>>, <<[run |-> Other, agent |-> Other, status |-> "running"]>>}
    BY DEF Init
  <2>2. /\ Runs(<<>>) = {} /\ Queued(<<>>) = {}
        /\ Runs(<<[run |-> Other, agent |-> Other, status |-> "running"]>>) \subseteq {Other}
        /\ Queued(<<[run |-> Other, agent |-> Other, status |-> "running"]>>) = {}
    BY DEF Runs, Queued
  <2>3. Other \notin Run
    BY CollaborationAssumption, AgentFacts
  <2> QED BY <2>1, <2>2, <2>3
<1>3. \A b \in Agent : Seen(host, b) = record[b]
  <2>1. \A b \in Agent : record[b] \in Record
    BY AInvInit, HostFacts, HostType DEF AInv, Filed
  <2> QED BY <1>1, <2>1, FlushedEmpty DEF Seen
<1>4. \A c : Rulings(host, c) = {}
  BY <1>1, <1>3 DEF Rulings
<1>5. ASSUME NEW r \in Run PROVE InAccord(host, r)
  <2>1. AgentOf(r) \in Agent /\ ParentOf[AgentOf(r)] \in Agent /\ (r \in Child => AgentOf(r) = r)
    BY AgentFacts
  <2>2. LifeOf(host, r) = "none" /\ Said(host, r) = {} /\ Rulings(host, r) = {}
    BY <1>1, <1>3, <1>4, <2>1 DEF LifeOf, Said
  <2>3. Place(host, r)
    BY <1>1, <2>1 DEF Place
  <2>4. NoLife(host.entries[AgentOf(r)], r)
    BY <1>1, <2>1 DEF NoLife
  <2>5. Agrees(host, r)
    BY <1>1, <1>2, <2>2, <2>4 DEF Agrees, Plain, Odd
  <2>6. r \in Child => Dealt(host, r)
    BY <1>1, <1>2, <2>2 DEF Dealt
  <2> QED BY <2>3, <2>5, <2>6 DEF InAccord
<1> QED BY <1>5 DEF ReportInv

LEMMA ReportStep ==
  ASSUME AInv, LeaseInv, ReportInv, [Next]_vars PROVE ReportInv'
<1>1. CASE UNCHANGED vars
  <2> SUFFICES ASSUME held' # Stale PROVE ReportInv'
    BY DEF ReportInv
  <2>1. /\ held # Stale /\ queue' = queue /\ turn' = turn /\ phase' = phase /\ conflict' = conflict
        /\ sessions' = sessions /\ record' = record /\ entries' = entries
    BY <1>1 DEF vars, agents
  <2>2. host \in Concord(queue) /\ host.record = record /\ host.entries = entries
    BY <2>1, HostAccord, HostType
  <2>3. Write(host)
    BY <2>1, <2>2 DEF Write
  <2> QED BY <2>1, <2>2, <2>3, AccordHandler
<1>2. TurnPhases
  BY DEF LeaseInv
<1>3. ASSUME NEW c \in Child
      PROVE  /\ Spawn(c) \/ Interrupt(c) \/ Close(c) \/ Serialize(c) => ReportInv'
             /\ CancelBlocked(c) \/ MoveApart(c) \/ Narrow(c) \/ ReleaseOwner(c) => ReportInv'
  BY <1>2, SpawnAccord, InterruptAccord, SimpleAccord, SerializeAccord, CancelAccord, MoveAccord
<1>4. ASSUME NEW m \in Mail PROVE Send(m) \/ SendFollowUp(m) \/ Ack(m) => ReportInv'
  BY MessageAccord, SendFollowUpAccord
<1>5. ASSUME NEW a \in Agent PROVE Consume(a) \/ Wait(a) => ReportInv'
  BY ConsumeAccord, SimpleAccord
<1>6. ASSUME NEW r \in Run PROVE Claim(r) \/ BeginTurn(r) \/ NoTurn(r) => ReportInv'
  BY ClaimAccord, BeginTurnAccord
<1> QED
  BY <1>1, <1>3, <1>4, <1>5, <1>6, SimpleAccord, RootTurnAccord, EndTurnAccord, SettleAccord DEF Next

(* What a parent is told of a run, by its settlement, an interrupt or the  *)
(* resolution of a conflict, is how the child's own record says the run    *)
(* ended, and it is told one thing: for every tree of agents, every number *)
(* of runs and every order of spawns, turns, interrupts and settlements,   *)
(* unless a wait has put an old queue back or a conflict was decided in    *)
(* two ways.                                                               *)
THEOREM SettlementAgreesHolds == Spec => []SettlementAgrees
<1>1. ReportInv => SettlementAgrees
  <2> SUFFICES ASSUME ReportInv, held # Stale, NEW r \in Run, Seen(host, AgentOf(r)).life[r] \in Terminal,
                      ~(r \in Child /\ AtOdds(r))
               PROVE  Reported(r) \subseteq {Seen(host, AgentOf(r)).life[r]}
    BY DEF SettlementAgrees
  <2>1. Agrees(host, r)
    BY DEF ReportInv, InAccord
  <2>2. Reported(r) = Said(host, r) /\ Decisions(r) = Rulings(host, r) /\ LifeOf(host, r) \in Terminal
    BY DEF Reported, Said, Decisions, Rulings, LifeOf
  <2>3. CASE Odd(host, r)
    <3>1. Rulings(host, r) = {"cancel"}
      BY <2>2, <2>3 DEF Odd, AtOdds
    <3>2. LifeOf(host, r) \in {"none", "cancelled"} /\ Said(host, r) \subseteq {"cancelled"}
      BY <2>1, <2>3, <3>1 DEF Agrees, CalledOff
    <3> QED BY <2>2, <3>2 DEF Terminal, LifeOf
  <2>4. CASE ~Odd(host, r)
    BY <2>1, <2>2, <2>4 DEF Agrees, Plain, LifeOf
  <2> QED BY <2>3, <2>4
<1>2. Init => AInv /\ LeaseInv /\ ReportInv
  BY AInvInit, LeaseInit, ReportInit
<1>3. AInv /\ LeaseInv /\ ReportInv /\ [Next]_vars => (AInv /\ LeaseInv /\ ReportInv)'
  BY AInvStep, LeaseStep, ReportStep
<1> QED BY <1>1, <1>2, <1>3, PTL DEF Spec
=============================================================================
