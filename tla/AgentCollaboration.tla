------------------------- MODULE AgentCollaboration -------------------------
(***************************************************************************)
(* Child agents of one root: PiAgentCommunicationDomain, the leases of     *)
(* PiAgentWorkspaceAuthority, and what runs/claim, turns and runs/settle   *)
(* do for a child.                                                         *)
(*                                                                         *)
(* What the Host knows of an agent it reads from the events in the         *)
(* agent's session record: `record` says, for each session, what its       *)
(* events come to.  While a turn of the agent is in progress its events go *)
(* to the turn's recorder (`entries`), where none of the handlers that     *)
(* read the record sees them.                                              *)
(* A step lies between two awaits that really wait.  The one handler that  *)
(* keeps what it read over such an await is agents/wait: `held`.           *)
(***************************************************************************)
EXTENDS Integers, Sequences, FiniteSets, SequencesExt

CONSTANTS
  Root, Child,   \* the root session and the children that are spawned
  ParentOf,      \* [Child -> Agent]
  Overlap,       \* pairs of children whose write scopes overlap
  Mail, FollowUp,  \* messages; those of them that assign work
  Receiver,      \* [Mail -> Agent]
  Other,         \* a live run of another root
  NoRun, NoWait, Stale, Live,  \* no run; no wait, or one that put old arrays back;
                 \* the array in the snapshot
  Waiters,       \* bound: the agents that call agents/wait
  Outcome,       \* bound: the outcomes of turns, and those the pump settles with
  Capacity,      \* capacity of the run queue
  MaxCalls       \* bound: calls of agents/* but spawn, and turns of the root

Agent == {Root} \cup Child
(* A child's first run and the run of a follow-up are named by their origin. *)
Run   == Child \cup FollowUp

ASSUME CollaborationAssumption ==
  /\ Root \notin Child /\ Child \cap FollowUp = {} /\ NoRun \notin Agent /\ NoWait # Stale
  /\ ParentOf \in [Child -> Agent]
  /\ \A p \in Overlap : p \in Child \X Child /\ p[1] # p[2] /\ <<p[2], p[1]>> \in Overlap
  /\ Waiters \subseteq Agent /\ Outcome \subseteq {"completed", "failed", "cancelled", "interrupted"}
  /\ FollowUp \subseteq Mail /\ Receiver \in [Mail -> Agent]
  /\ \A m \in FollowUp : Receiver[m] \in Child
  /\ NoRun \notin Run \cup {Root, Other} /\ Other \notin Run \cup {Root}
  /\ Capacity \in Nat \ {0} /\ MaxCalls \in Nat

VARIABLES
  sessions,   \* children in the snapshot, in the order of their creation
  queue,      \* run queue in the snapshot
  record,     \* what the session record of each agent says
  entries,    \* events in the recorder of an agent's turn
  turn,       \* run of the turn an agent is in
  phase,      \* what the pump that claimed a run does with it
  conflict,   \* agent whose lease blocked a child
  apart,      \* children moved to a scope or a worktree of their own
  closed,     \* archived children
  held,       \* the call of agents/wait in progress, with the arrays it read
  given,      \* history: how a follow-up was handed to its child
  calls,      \* how many calls there were
  waived      \* history: children interrupted, or released by a resolution

agents == <<turn, phase, conflict, apart, closed>>
vars   == <<sessions, queue, record, entries, agents, held, calls, given, waived>>

AgentOf(r) == IF r \in Child THEN r ELSE Receiver[r]
Lineage[a \in Agent] == IF a = Root THEN <<Root>> ELSE <<a>> \o Lineage[ParentOf[a]]
Known(a)   == a = Root \/ a \in ToSet(sessions)

(* What a handler changes; it may hold several changes before a commit.    *)
host == [record |-> record, entries |-> entries, queue |-> queue]

-----------------------------------------------------------------------------
(* Events *)

Terminal  == {"completed", "failed", "cancelled", "interrupted"}
LifeState == {"none", "admitted", "blocked", "queued", "running"} \cup Terminal
MailState == {"none", "queued", "consumed", "acknowledged"}
Choice    == {"serialize", "cancel", "release", "apart"}

Note(t, x)    == [type |-> t, of |-> x, what |-> ""]
Life(r, st)   == [type |-> "life", of |-> r, what |-> st]
Completion(r, st) == [type |-> "completion", of |-> r, what |-> st]
Resolved(c, act)  == [type |-> "resolved", of |-> c, what |-> act]

(* What the event e adds to the record R of a session. *)
Apply(R, e) ==
  CASE e.type = "life" ->
         [R EXCEPT !.life = IF e.of = NoRun THEN @ ELSE [@ EXCEPT ![e.of] = e.what],
                   !.last = [run |-> e.of, state |-> e.what]]
    [] e.type = "mail"     -> [R EXCEPT !.mail[e.of] = "queued"]
    [] e.type = "consumed" -> [R EXCEPT !.mail = [m \in Mail |-> IF m \in e.of /\ @[m] # "none"
                                                                THEN "consumed" ELSE @[m]]]
    [] e.type = "acked"    -> [R EXCEPT !.mail[e.of] = IF @ = "none" THEN @ ELSE "acknowledged"]
    [] e.type = "started"  -> [R EXCEPT !.started = @ \cup {e.of}]
    [] e.type = "completion" -> [R EXCEPT !.done[e.of] = @ \cup {e.what}, !.unread = @ \cup {e.of}]
    [] e.type = "read"     -> [R EXCEPT !.unread = @ \ e.of]
    [] e.type = "lease"    -> [R EXCEPT !.leased = TRUE]
    [] e.type = "release"  -> [R EXCEPT !.leased = FALSE]
    [] e.type = "resolved" -> [R EXCEPT !.resolved = @ \cup {<<e.of, e.what>>}]

(* The record R once the events es have been flushed into it. *)
Flushed(R, es) ==
  LET After[i \in 0 .. Len(es)] == IF i = 0 THEN R ELSE Apply(After[i - 1], es[i])
  IN After[Len(es)]

(* The record of agent a once its turn has ended. *)
Seen(w, a) == Flushed(w.record[a], w.entries[a])

(* appendEvent: to the recorder of the agent's turn, or to its record. *)
Put(w, a, e) ==
  IF turn[a] # NoRun THEN [w EXCEPT !.entries[a] = Append(@, e)]
                     ELSE [w EXCEPT !.record[a] = Apply(@, e)]

SameRunTransitions ==
  [none     |-> {"admitted", "queued", "running"},
   admitted |-> {"queued", "running", "blocked", "cancelled", "interrupted", "failed"},
   queued   |-> {"running", "cancelled", "interrupted", "failed"},
   running  |-> {"blocked"} \cup Terminal,
   blocked  |-> {"queued", "running", "failed", "cancelled", "interrupted"},
   completed |-> {}, failed |-> {}, cancelled |-> {}, interrupted |-> {}]

(* isLegalAgentLifecycleTransition, after the latest event of the run in R *)
(* or, if it has none, of the agent.                                       *)
Legal(R, r, st) ==
  LET prev == IF r # NoRun /\ R.life[r] # "none" THEN [run |-> r, state |-> R.life[r]] ELSE R.last
  IN /\ prev # [run |-> r, state |-> st]
     /\ CASE r # NoRun /\ prev.run # NoRun /\ r # prev.run ->
               st = "queued" \/ (st = "running" /\ prev.state \in Terminal)
          [] r # NoRun /\ prev.run = NoRun /\ prev.state = "admitted" -> st \in {"queued", "running"}
          [] OTHER -> st \in SameRunTransitions[prev.state]

(* appendLifecycle: what the recorder refuses is tried on the record. *)
InTurn(w, a, r, st) == turn[a] # NoRun /\ Legal(Seen(w, a), r, st)
CanPutLife(w, a, r, st) == InTurn(w, a, r, st) \/ Legal(w.record[a], r, st)
PutLife(w, a, r, st) ==
  IF InTurn(w, a, r, st) THEN Put(w, a, Life(r, st))
  ELSE IF Legal(w.record[a], r, st) THEN [w EXCEPT !.record[a] = Apply(@, Life(r, st))]
  ELSE w

-----------------------------------------------------------------------------
(* Runs and leases *)

ItemOf(q, r)    == {i \in DOMAIN q : q[i].run = r}
LiveItem(i)     == i.status \in {"queued", "running"}
LiveItems(q)    == {i \in DOMAIN q : LiveItem(q[i])}
HasLive(q, c)   == \E i \in DOMAIN q : q[i].agent = c /\ LiveItem(q[i])
Mark(q, r, st)  == [i \in DOMAIN q |-> IF q[i].run = r THEN [q[i] EXCEPT !.status = st] ELSE q[i]]

(* enqueuePiHostRun *)
CanEnqueueAny(w, r) ==                     \* mutant: the capacity is not looked at
  ItemOf(w.queue, r) = {} /\ CanPutLife(w, AgentOf(r), r, "queued")
CanEnqueue(w, r) ==
  /\ ItemOf(w.queue, r) = {}
  /\ Cardinality(LiveItems(w.queue)) < Capacity
  /\ CanPutLife(w, AgentOf(r), r, "queued")
Enqueue(w, r) ==
  [PutLife(w, AgentOf(r), r, "queued") EXCEPT
     !.queue = Append(@, [run |-> r, agent |-> AgentOf(r), status |-> "queued"])]

(* Where in the array of sessions the owners of a lease that c would need  *)
(* are, as the records show it.                                            *)
HasLease(w, c) == w.record[c].leased /\ c \notin apart \cup closed /\ w.record[c].last.state \notin Terminal
NoOwners(w, c) == {}                       \* mutant: leases are not looked up
Owners(w, c)   == {i \in DOMAIN sessions : <<c, sessions[i]>> \in Overlap /\ HasLease(w, sessions[i])}
FirstOwner(w, c) == sessions[CHOOSE i \in Owners(w, c) : \A j \in Owners(w, c) : i <= j]

Writer(c) == \E p \in Overlap : p[1] = c
Acquire(w, c) == IF Writer(c) THEN Put(w, c, Note("lease", c)) ELSE w
Release(w, c) == IF w.record[c].leased THEN Put(w, c, Note("release", c)) ELSE w

(* queueBlockedChild *)
Free(w, c) == c \in apart \/ Owners(w, c) = {}
QueueBlocked(w, c) ==
  IF CanEnqueue(Acquire(w, c), c) THEN Enqueue(Acquire(w, c), c) ELSE Acquire(w, c)

(* resumeSerializedConflicts *)
Waits(R, c, o) == R.last.state = "blocked" /\ conflict[c] = o /\ <<c, "serialize">> \in R.resolved
ResumeOne(w, c, o) == IF Waits(w.record[c], c, o) /\ Free(w, c) THEN QueueBlocked(w, c) ELSE w
Resume(w, o) ==
  LET After[i \in 0 .. Len(sessions)] == IF i = 0 THEN w ELSE ResumeOne(After[i - 1], sessions[i], o)
  IN After[Len(sessions)]

(* recordCompletion *)
Reports(w, r) == LET p == ParentOf[AgentOf(r)] IN Known(p) /\ w.record[p].done[r] = {}
Complete(w, r, st) ==
  LET c == AgentOf(r)
      v == Resume(Release(w, c), c)
  IN IF ~Known(c) \/ ~Known(ParentOf[c]) THEN w
     ELSE IF Reports(w, r) THEN Put(v, ParentOf[c], Completion(r, st)) ELSE v

-----------------------------------------------------------------------------
(* Commits.  The arrays of the snapshot are replaced, their items shared:  *)
(* a call of agents/wait sees a status that changes in place, but neither  *)
(* an appended item nor what happens to the copies.  When it ends it       *)
(* commits the arrays it read.                                             *)

Write(w) == record' = w.record /\ entries' = w.entries

Waiting == held \notin {NoWait, Stale}

(* The array that was `old` is replaced by a copy `q`. *)
Replace(old, q) ==
  /\ queue' = q
  /\ held' = IF Waiting /\ held.queue = Live THEN [held EXCEPT !.queue = old] ELSE held
Commit(old, q) == IF q = old THEN queue' = q /\ UNCHANGED held ELSE Replace(old, q)

(* notify, after the commit of `q`. *)
Wakes(a) == Waiting /\ held.agent = a
Wake(old) ==
  /\ queue' = IF held.queue = Live THEN old ELSE held.queue
  /\ sessions' = held.sessions
  /\ held' = IF queue' = old /\ sessions' = sessions THEN NoWait ELSE Stale

-----------------------------------------------------------------------------
(* agents/* *)

Call == calls < MaxCalls /\ calls' = calls + 1

Spawn(c) ==
  LET w == [host EXCEPT !.record[c].last = [run |-> NoRun, state |-> "admitted"]]
      v == Acquire(w, c)
  IN /\ record[c].last.state = "none" /\ Known(ParentOf[c])
     /\ sessions' = Append(sessions, c)
     /\ \/ /\ Owners(host, c) # {}
           /\ conflict' = [conflict EXCEPT ![c] = FirstOwner(host, c)]
           /\ Write(PutLife(w, c, NoRun, "blocked"))
           /\ UNCHANGED <<queue, held>>
        \/ /\ Owners(host, c) = {} /\ CanEnqueue(v, c)
           /\ Write(Enqueue(v, c))
           /\ Commit(queue, Enqueue(v, c).queue)
           /\ UNCHANGED conflict
        \/ /\ Owners(host, c) = {} /\ ~CanEnqueue(v, c)
           /\ Write(Release(v, c))
           /\ UNCHANGED <<queue, held, conflict>>
     /\ UNCHANGED <<turn, phase, apart, closed, given, waived, calls>>

Send(m) ==
  LET a == Receiver[m]
  IN /\ Call /\ m \notin FollowUp /\ Known(a)
     /\ record[a].mail[m] = "none"
     /\ Write(Put(host, a, Note("mail", m)))
     /\ IF Wakes(a) THEN Wake(queue) ELSE UNCHANGED <<queue, sessions, held>>
     /\ UNCHANGED <<agents, given, waived>>

(* agents/mailbox with `consume`. *)
Unread(a) == {m \in Mail : Receiver[m] = a /\ record[a].mail[m] = "queued"}
Consume(a) ==
  /\ Call /\ Known(a) /\ (Unread(a) # {} \/ record[a].unread # {})
  /\ Write(Put(Put(host, a, Note("consumed", Unread(a))), a, Note("read", record[a].unread)))
  /\ UNCHANGED <<queue, sessions, held, agents, given, waived>>

Ack(m) ==
  LET a == Receiver[m]
  IN /\ Call /\ Known(a) /\ record[a].mail[m] \notin {"none", "acknowledged"}
     /\ Write(Put(host, a, Note("acked", m)))
     /\ UNCHANGED <<queue, sessions, held, agents, given, waived>>

Started(w, m) == Put(Put(w, Receiver[m], Note("started", m)), Receiver[m], Note("consumed", {m}))

(* A message the record already has is a duplicate.  Else it becomes mail  *)
(* first; it is steered into the turn in progress, waits for the end of    *)
(* the agent's work, or is enqueued.                                       *)
SendFollowUp(m) ==
  LET c == Receiver[m]
      w == Put(host, c, Note("mail", m))
      v == Started(Enqueue(w, m), m)
  IN /\ Call /\ m \in FollowUp /\ Known(c) /\ c \notin closed
     /\ record[c].mail[m] = "none"
     /\ \/ /\ turn[c] # NoRun
           /\ Write(Started(w, m))
           /\ given' = [given EXCEPT ![m] = @ \cup {"steered"}]
           /\ UNCHANGED <<queue, held>>
        \/ /\ turn[c] # NoRun \/ HasLive(queue, c) \/ ~CanEnqueue(w, m)
           /\ Write(w)
           /\ UNCHANGED <<queue, held, given>>
        \/ /\ turn[c] = NoRun /\ ~HasLive(queue, c) /\ CanEnqueue(w, m)
           /\ Write(v)
           /\ Commit(queue, v.queue)
           /\ UNCHANGED given
     /\ UNCHANGED <<sessions, agents, waived>>

Wait(a) ==
  /\ Call /\ a \in Waiters /\ held = NoWait /\ Known(a)
  /\ Unread(a) = {} /\ record[a].unread = {}
  /\ held' = [agent |-> a, sessions |-> sessions, queue |-> Live]
  /\ UNCHANGED <<sessions, queue, record, entries, agents, given, waived>>

WaitTimesOut ==
  /\ Waiting
  /\ Wake(queue)
  /\ UNCHANGED <<record, entries, agents, given, waived, calls>>

(* The newest item of an agent that is not settled. *)
CurrentRun(c) ==
  LET own == {i \in DOMAIN queue : queue[i].agent = c /\ queue[i].status # "settled"}
  IN IF own = {} THEN NoRun ELSE queue[CHOOSE i \in own : \A j \in own : j <= i].run
QueuedRun(r) == \E i \in ItemOf(queue, r) : queue[i].status = "queued"
Stoppable(c) == LET r == CurrentRun(c) IN r = NoRun \/ QueuedRun(r) \/ turn[c] = r

(* agents/interrupt of c, or agents/cancel of c and what descends from it. *)
Targets(c) == {d \in ToSet(sessions) : c \in ToSet(Lineage[d])}
Stopped(w, c) ==
  LET r == CurrentRun(c)
      v == PutLife(w, c, r, "interrupted")
  IN IF r = NoRun THEN v ELSE Complete(v, r, "interrupted")
StopOne(w, d, go) == IF d \in go THEN Stopped(w, d) ELSE w
StopEach(w, ts, go) ==
  LET After[i \in 0 .. Len(ts)] == IF i = 0 THEN w ELSE StopOne(After[i - 1], ts[i], go)
  IN After[Len(ts)]
Stop(ts) ==
  LET go == {d \in ToSet(ts) : record[d].last.state \notin Terminal /\ Stoppable(d)}
      q  == [i \in DOMAIN queue |->
               IF \E d \in go : queue[i].run = CurrentRun(d) /\ queue[i].status = "queued"
               THEN [queue[i] EXCEPT !.status = "interrupted"] ELSE queue[i]]
      w  == StopEach([host EXCEPT !.queue = q], ts, go)
      woken == \E d \in go : CurrentRun(d) # NoRun /\ Reports(host, CurrentRun(d)) /\ Wakes(ParentOf[d])
  IN /\ go # {}
     /\ Write(w)
     /\ waived' = waived \cup go
     /\ IF woken THEN queue' = w.queue /\ held' = NoWait ELSE Commit(q, w.queue)
     /\ UNCHANGED <<sessions, agents, given>>
Interrupt(c) ==
  /\ Call /\ Known(c)
  /\ \E ts \in {<<c>>} \cup SetToSeqs(Targets(c)) : Stop(ts)

Close(c) ==
  /\ Call /\ Known(c) /\ c \notin closed /\ record[c].last.state \in Terminal
  /\ closed' = closed \cup {c}
  /\ UNCHANGED <<sessions, queue, record, entries, turn, phase, conflict, apart, held, given, waived>>

(* agents/lease/resolve *)
CommonParent(c, o) == LET i == CHOOSE i \in DOMAIN Lineage[c] :
                                 /\ Lineage[c][i] \in ToSet(Lineage[o])
                                 /\ \A j \in 1 .. i - 1 : Lineage[c][j] \notin ToSet(Lineage[o])
                      IN Lineage[c][i]
Decided(R, c) == \E x \in R.resolved : x[1] = c
Decide(w, c, act) ==
  LET to == {a \in {c, conflict[c], CommonParent(c, conflict[c])} : ~Decided(w.record[a], c)}
  IN [w EXCEPT !.record  = [a \in Agent |-> IF a \in to /\ turn[a] = NoRun
                                            THEN Apply(@[a], Resolved(c, act)) ELSE @[a]],
               !.entries = [a \in Agent |-> IF a \in to /\ turn[a] # NoRun
                                            THEN Append(@[a], Resolved(c, act)) ELSE @[a]]]
Undecided(c) ==
  /\ Call /\ conflict[c] # NoRun /\ Known(c) /\ Known(conflict[c])
  /\ \A a \in Agent : ~Decided(record[a], c)

Serialize(c) ==
  /\ Undecided(c)
  /\ Write(Decide(host, c, "serialize"))
  /\ UNCHANGED <<queue, sessions, held, agents, given, waived>>

CancelBlocked(c) ==
  LET w == Complete(PutLife(Decide(host, c, "cancel"), c, c, "cancelled"), c, "cancelled")
  IN /\ Undecided(c)
     /\ Write(w)
     /\ IF Reports(host, c) /\ Wakes(ParentOf[c]) THEN queue' = w.queue /\ held' = NoWait
                                                  ELSE Commit(queue, w.queue)
     /\ UNCHANGED <<sessions, agents, given, waived>>

(* A child that still cannot be queued is not resolved, but its new scope, *)
(* its lease and the release of the owner's stay.                          *)
QueueResolved(w, c, act) ==
  LET v == Decide(QueueBlocked(w, c), c, act)
  IN IF ~Free(w, c) THEN Write(w) /\ UNCHANGED <<queue, held>>
     ELSE IF ~CanEnqueue(Acquire(w, c), c) THEN Write(Acquire(w, c)) /\ UNCHANGED <<queue, held>>
     ELSE Write(v) /\ Commit(queue, v.queue)

MoveApart(c) ==   \* narrow-scope, isolate-worktree
  LET v == Decide(QueueBlocked(host, c), c, "apart")
  IN /\ Undecided(c)
     /\ apart' = apart \cup {c}
     /\ IF CanEnqueue(Acquire(host, c), c) THEN Write(v) /\ Commit(queue, v.queue)
        ELSE Write(Acquire(host, c)) /\ UNCHANGED <<queue, held>>
     /\ UNCHANGED <<sessions, turn, phase, conflict, closed, given, waived>>

(* A narrower scope may overlap as before: the child gets no lease before  *)
(* its owner has given it back.                                            *)
Narrow(c) ==   \* narrow-scope
  /\ Undecided(c)
  /\ QueueResolved(host, c, "apart")
  /\ UNCHANGED <<sessions, agents, given, waived>>

ReleaseOwner(c) ==   \* release-lease, transfer-lease
  /\ Undecided(c)
  /\ QueueResolved(Release(host, conflict[c]), c, "release")
  /\ waived' = waived \cup {conflict[c]}
  /\ UNCHANGED <<sessions, agents, given>>

-----------------------------------------------------------------------------
(* Runs of agents: claim, turn, settlement *)

(* A claim that the lifecycle table refuses leaves its item running. *)
Claim(r) ==
  LET a == AgentOf(r)
      q == Mark(queue, r, "running")
  IN /\ QueuedRun(r) /\ turn[a] = NoRun
     /\ \/ /\ Known(a) /\ Legal(record[a], r, "running")
           /\ record' = [record EXCEPT ![a] = Apply(@, Life(r, "running"))]
           /\ Replace(q, q)
           /\ phase' = [phase EXCEPT ![r] = "claimed"]
        \/ /\ ~(Known(a) /\ Legal(record[a], r, "running"))
           /\ queue' = q
           /\ UNCHANGED <<record, held, phase>>
     /\ UNCHANGED <<sessions, entries, turn, conflict, apart, closed, given, waived, calls>>

BeginTurn(r) ==
  LET a == AgentOf(r)
  IN /\ phase[r] = "claimed" /\ turn[a] = NoRun /\ Known(a)
     /\ phase' = [phase EXCEPT ![r] = "turn"]
     /\ turn' = [turn EXCEPT ![a] = r]
     /\ given' = [m \in FollowUp |-> IF m = r THEN given[m] \cup {"run"} ELSE given[m]]
     /\ UNCHANGED <<sessions, queue, record, entries, conflict, apart, closed, held, waived, calls>>

NoTurn(r) ==
  /\ phase[r] = "claimed"
  /\ phase' = [phase EXCEPT ![r] = "over"]
  /\ UNCHANGED <<sessions, queue, record, entries, turn, conflict, apart, closed, held, given, waived, calls>>

(* The end of a turn: its terminal event, if it has none, and the flush of *)
(* the recorder into the record.                                           *)
EndTurn(r, st) ==
  LET a == AgentOf(r)
      w == IF Legal(Seen(host, a), r, st) THEN Put(host, a, Life(r, st)) ELSE host
  IN /\ turn[a] = r
     /\ record' = IF Known(a) THEN [record EXCEPT ![a] = Seen(w, a)] ELSE record
     /\ entries' = [entries EXCEPT ![a] = <<>>]
     /\ turn' = [turn EXCEPT ![a] = NoRun]
     /\ phase' = [phase EXCEPT ![r] = "over"]
     /\ UNCHANGED <<sessions, queue, conflict, apart, closed, held, given, waived, calls>>

BeginRootTurn ==
  /\ Call /\ turn[Root] = NoRun
  /\ turn' = [turn EXCEPT ![Root] = Root]
  /\ UNCHANGED <<sessions, queue, record, entries, phase, conflict, apart, closed, held, given, waived>>
EndRootTurn ==
  /\ turn[Root] = Root
  /\ record' = [record EXCEPT ![Root] = Seen(host, Root)]
  /\ entries' = [entries EXCEPT ![Root] = <<>>]
  /\ turn' = [turn EXCEPT ![Root] = NoRun]
  /\ UNCHANGED <<sessions, queue, phase, conflict, apart, closed, held, given, waived, calls>>

(* drainNextFollowUp, in the array q: a follow-up neither started nor      *)
(* acknowledged, if the agent has nothing else to do.                      *)
DrainStarted(w, a) ==   \* mutant: a follow-up steered into a turn is run again
  {m \in FollowUp : /\ Receiver[m] = a /\ w.record[a].mail[m] \in {"queued", "consumed"}
                    /\ turn[a] = NoRun /\ ~HasLive(w.queue, a) /\ CanEnqueue(w, m)}
Drainable(w, a) ==
  {m \in FollowUp : /\ Receiver[m] = a /\ w.record[a].mail[m] \in {"queued", "consumed"}
                    /\ m \notin w.record[a].started
                    /\ turn[a] = NoRun /\ ~HasLive(w.queue, a) /\ CanEnqueue(w, m)}

(* onSettled, after the array was committed as `q` *)
Settled(w, r, st, q) ==
  LET a == AgentOf(r)
      v == Complete(w, r, st)
  IN \/ \E m \in Drainable(v, a) :
          /\ Write(Started(Enqueue(v, m), m))
          /\ Replace(q, Enqueue(v, m).queue)
          /\ UNCHANGED sessions
     \/ /\ Drainable(v, a) = {}
        /\ Write(v)
        /\ IF Reports(w, r) /\ Known(a)
           THEN IF Wakes(ParentOf[a]) THEN Wake(q) ELSE Replace(q, v.queue) /\ UNCHANGED sessions
           ELSE Replace(q, q) /\ UNCHANGED sessions

(* runs/settle, with an outcome that need not be the turn's.  It marks the *)
(* item before it asks the lifecycle table; the pump then tries "failed".  *)
CanSettleAny(r, st) == Known(AgentOf(r))    \* mutant: whatever the record says
CanSettle(r, st) ==
  LET a == AgentOf(r) IN Known(a) /\ (Legal(record[a], r, st) \/ record[a].life[r] = st)
Status(r) == {queue[i].status : i \in ItemOf(queue, r)}
Settle(r, st) ==
  LET a == AgentOf(r)
      q == Mark(queue, r, "settled")
      w == [host EXCEPT !.queue = q, !.record[a] = IF @.life[r] = st THEN @ ELSE Apply(@, Life(r, st))]
      live == Status(r) \cap {"queued", "running"} # {}
  IN /\ phase[r] = "over" \/ (phase[r] = "again" /\ st = "failed")
     /\ \/ /\ live /\ CanSettle(r, st)
           /\ Settled(w, r, st, q)
           /\ phase' = [phase EXCEPT ![r] = "done"]
        \/ /\ "settled" \in Status(r) /\ record[a].life[r] = st
           /\ Settled(host, r, st, queue)
           /\ phase' = [phase EXCEPT ![r] = "done"]
        \/ /\ ~(live /\ CanSettle(r, st)) /\ ~("settled" \in Status(r) /\ record[a].life[r] = st)
           /\ queue' = IF live THEN q ELSE queue
           /\ phase' = [phase EXCEPT ![r] = IF @ = "over" THEN "again" ELSE "done"]
           /\ UNCHANGED <<record, entries, sessions, held>>
     /\ UNCHANGED <<turn, conflict, apart, closed, given, waived, calls>>

-----------------------------------------------------------------------------
Init ==
  /\ sessions = <<>>
  /\ queue \in {<<>>, <<[run |-> Other, agent |-> Other, status |-> "running"]>>}
  /\ record = [a \in Agent |->
                [life |-> [r \in Run |-> "none"], last |-> [run |-> NoRun, state |-> "none"],
                 mail |-> [m \in Mail |-> "none"], started |-> {},
                 done |-> [r \in Run |-> {}], unread |-> {}, leased |-> FALSE, resolved |-> {}]]
  /\ entries = [a \in Agent |-> <<>>]
  /\ turn = [a \in Agent |-> NoRun]
  /\ phase = [r \in Run |-> "none"]
  /\ conflict = [c \in Child |-> NoRun]
  /\ apart = {} /\ closed = {} /\ waived = {}
  /\ held = NoWait /\ calls = 0
  /\ given = [m \in FollowUp |-> {}]

Next ==
  \/ \E c \in Child : Spawn(c)
  \/ \E m \in Mail : Send(m)
  \/ \E m \in Mail : SendFollowUp(m)
  \/ \E m \in Mail : Ack(m)
  \/ \E a \in Agent : Consume(a)
  \/ \E a \in Agent : Wait(a)
  \/ WaitTimesOut
  \/ \E c \in Child : Interrupt(c)
  \/ \E c \in Child : Close(c)
  \/ \E c \in Child : Serialize(c)
  \/ \E c \in Child : CancelBlocked(c)
  \/ \E c \in Child : MoveApart(c)
  \/ \E c \in Child : Narrow(c)
  \/ \E c \in Child : ReleaseOwner(c)
  \/ \E r \in Run : Claim(r)
  \/ \E r \in Run : BeginTurn(r)
  \/ \E r \in Run : NoTurn(r)
  \/ \E r \in Run, st \in Outcome : EndTurn(r, st)
  \/ BeginRootTurn
  \/ EndRootTurn
  \/ \E r \in Run, st \in Outcome \cup {"failed"} : Settle(r, st)

Spec == Init /\ [][Next]_vars

-----------------------------------------------------------------------------
(* Properties *)

Record ==
  [life: [Run -> LifeState], last: [run: Run \cup {NoRun}, state: LifeState], mail: [Mail -> MailState],
   started: SUBSET FollowUp, done: [Run -> SUBSET Terminal], unread: SUBSET Run, leased: BOOLEAN,
   resolved: SUBSET (Child \X Choice)]
Event ==
  [type: {"life"}, of: Run \cup {NoRun}, what: LifeState \ {"none"}]
    \cup [type: {"mail", "acked"}, of: Mail, what: {""}]
    \cup [type: {"consumed"}, of: SUBSET Mail, what: {""}]
    \cup [type: {"started"}, of: FollowUp, what: {""}]
    \cup [type: {"completion"}, of: Run, what: Terminal]
    \cup [type: {"read"}, of: SUBSET Run, what: {""}]
    \cup [type: {"lease", "release"}, of: Child, what: {""}]
    \cup [type: {"resolved"}, of: Child, what: Choice]
Item == [run: Run \cup {Other}, agent: Agent \cup {Other},
         status: {"queued", "running", "interrupted", "settled"}]

QueueOK(q) ==
  /\ q \in Seq(Item)
  /\ \A i \in DOMAIN q : q[i].agent = IF q[i].run = Other THEN Other ELSE AgentOf(q[i].run)
  /\ \A i, j \in DOMAIN q : q[i].run = q[j].run => i = j
  /\ Cardinality(LiveItems(q)) <= Capacity

(* The snapshot and the records stay of their types: an agent is in a turn *)
(* of its own run, a child is in the snapshot once, a run is in the queue  *)
(* once, and its live runs fit into it, also after a wait has put old      *)
(* arrays back.                                                            *)
ATypeOK ==
  /\ sessions \in Seq(Child) /\ IsInjective(sessions)
  /\ QueueOK(queue)
  /\ record \in [Agent -> Record] /\ entries \in [Agent -> Seq(Event)]
  /\ turn \in [Agent -> Run \cup {Root, NoRun}]
  /\ turn[Root] \in {Root, NoRun} /\ \A c \in Child : turn[c] # NoRun => turn[c] \in Run /\ AgentOf(turn[c]) = c
  /\ phase \in [Run -> {"none", "claimed", "turn", "over", "again", "done"}]
  /\ conflict \in [Child -> Child \cup {NoRun}]
  /\ apart \cup closed \cup waived \subseteq Child
  /\ Waiting => /\ held.agent \in Waiters /\ held.sessions \in Seq(Child) /\ IsInjective(held.sessions)
                /\ held.queue # Live => QueueOK(held.queue)
  /\ given \in [FollowUp -> SUBSET {"steered", "run"}] /\ calls \in 0 .. MaxCalls

(* A follow-up is given to its child once: it is steered into the turn in  *)
(* progress or becomes a run of its own, never both, in any order of       *)
(* turns, settlements, reading, acknowledgement and the drain that looks   *)
(* for follow-ups nobody started.                                          *)
FollowUpOnce == \A m \in FollowUp : given[m] # {"steered", "run"}

(* What a parent is told of a run, by its settlement, an interrupt or the  *)
(* resolution of a conflict, is how the child's own record says it ended,  *)
(* and it is told one thing.  A wait that puts an old queue back can make  *)
(* a settled run look queued, so that an interrupt reports it again; and a *)
(* conflict whose decision is still in the recorders of all its parties    *)
(* can be decided again, in another way (`AtOdds`).                        *)
Reported(r)  == Seen(host, ParentOf[AgentOf(r)]).done[r]
Decisions(c)   == {act \in Choice : \E a \in Agent : <<c, act>> \in Seen(host, a).resolved}
AtOdds(c)    == "cancel" \in Decisions(c) /\ Decisions(c) # {"cancel"}
SettlementAgrees ==
  held # Stale => \A r \in Run :
    LET st == Seen(host, AgentOf(r)).life[r]
    IN (st \in Terminal /\ ~(r \in Child /\ AtOdds(r))) => Reported(r) \subseteq {st}

(* Two children whose write scopes overlap are not both in their first     *)
(* turn, unless one was given a scope or a worktree of its own, was        *)
(* interrupted while it ran, or had to give up its lease to a decision:    *)
(* resumption, release and acquisition of leases follow one another in     *)
(* every order of settlements.  Of a child that an old array put back has  *)
(* dropped nothing is known, and nothing said; nor of one whose follow-up  *)
(* was claimed while it was still blocked: that run holds no lease, and    *)
(* its settlement releases the lease the child has got meanwhile.          *)
FollowUpFirst(c) == \E m \in FollowUp : Receiver[m] = c /\ phase[m] # "none"
WritersDisjoint ==
  \A p \in Overlap :
    (turn[p[1]] = p[1] /\ turn[p[2]] = p[2] /\ {p[1], p[2]} \subseteq ToSet(sessions))
      => \E c \in {p[1], p[2]} : c \in apart \cup waived \/ FollowUpFirst(c)

(* Work that was accepted into the queue stays in it: "existing queued     *)
(* work is never silently evicted or reordered"                            *)
(* (docs/adr/0040-durably-journal-queued-and-automated-task-runs.md:3).   *)
QueuedWorkKept ==
  [][\A i \in DOMAIN queue : queue[i].status = "queued" => ItemOf(queue', queue[i].run) # {}]_vars
=============================================================================
