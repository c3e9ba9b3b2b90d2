-------------------------- MODULE QueryJobsProofs --------------------------
(***************************************************************************)
(* Proofs about QueryJobs, for any number of jobs, users and readers and   *)
(* any limits.  A job is a record that its runner and those who cancel it  *)
(* advance, each step keeping it Sound; the registry and the shutdown then *)
(* only need to know which jobs run and which have ended.                  *)
(***************************************************************************)
EXTENDS QueryJobs, FiniteSetTheorems, TLAPS

HasEvent(x, e) == \E i \in DOMAIN x.events : x.events[i] = e

\* A job ends when its status becomes terminal; only then is its source released
\* and can its retention pass.
Lives(x) ==
    /\ x.run = "done" <=> x.status \in TerminalStatus
    /\ x.released => x.run = "done"
    /\ x.expired => x.run = "done"

\* The audit entry is written before the end and tells the final status.
Audits(x) ==
    /\ x.run \in {"finish", "done"} =>
        \/ x.audit = "lost"
        \/ x.audit = IF x.final = "succeeded" THEN "success" ELSE "failure"
    /\ x.run = "done" => x.status = x.final

\* The terminal events a job holds are those its provider said while it streams,
\* and those of its final status afterwards.
Retains(x) ==
    /\ \A e \in x.retained : HasEvent(x, e)
    /\ x.run \in {"none", "stream"} =>
        /\ \A e \in {"completed", "error"} : HasEvent(x, e) <=> e \in x.saw
        /\ ~HasEvent(x, "cancelled")
    /\ x.run \in {"audit", "finish", "done"} =>
        /\ x.final = "succeeded" <=> HasEvent(x, "completed") /\ ~HasEvent(x, "error")
        /\ x.final = "failed" <=> HasEvent(x, "error")
        /\ x.final = "cancelled" <=> HasEvent(x, "cancelled")

Excess(x) == Cardinality(x.retained) + (IF x.truncated THEN 1 ELSE 0)
Bounded(x) == Len(x.events) <= MaxEvents + Excess(x)

Sound(x) == Lives(x) /\ Audits(x) /\ Retains(x) /\ Bounded(x)

\* What any step may do to a job, but for the one that starts it.
Advance(x, y) ==
    /\ y \in JobState
    /\ Len(y.events) >= Len(x.events)
    /\ y.owner = x.owner
    /\ x.cancelled => y.cancelled
    /\ x.run = "none" <=> y.run = "none"
    /\ x.run = "done" => y.run = "done"
    /\ Sound(x) =>
        /\ Sound(y)
        /\ x.status \in TerminalStatus => y.status = x.status /\ y.events = x.events

-----------------------------------------------------------------------------
(* Publishing an event *)

\* What is left of a job by an event that is appended to it.
LEMMA AppendedEvent ==
    ASSUME NEW x \in JobState, NEW d \in Event
    PROVE  LET y == Append1(x, d)
           IN /\ y \in JobState
              /\ y.events = Append(x.events, d) /\ Len(y.events) = Len(x.events) + 1
              /\ \A e : HasEvent(y, e) <=> HasEvent(x, e) \/ e = d
<1> DEFINE y == Append1(x, d)
<1>1. x.events \in Seq(Event) BY DEF JobState
<1>2. Append(x.events, d) \in Seq(Event) /\ Len(Append(x.events, d)) = Len(x.events) + 1
  BY <1>1
<1>3. y \in JobState BY <1>2 DEF Append1, JobState
<1>4. y.events = Append(x.events, d) BY DEF Append1, JobState
<1>5. ASSUME NEW e PROVE HasEvent(y, e) <=> HasEvent(x, e) \/ e = d
  <2>1. DOMAIN x.events = 1..Len(x.events) /\ DOMAIN y.events = 1..(Len(x.events) + 1)
    BY <1>1, <1>2, <1>4
  <2>2. Len(x.events) \in Nat BY <1>1
  <2>3. /\ \A i \in 1..Len(x.events) : y.events[i] = x.events[i]
        /\ y.events[Len(x.events) + 1] = d
    BY <1>1, <1>4
  <2>4. ASSUME HasEvent(y, e) PROVE HasEvent(x, e) \/ e = d
    <3>1. PICK i \in 1..(Len(x.events) + 1) : y.events[i] = e BY <2>1, <2>4 DEF HasEvent
    <3>2. CASE i = Len(x.events) + 1 BY <2>3, <3>1, <3>2
    <3>3. CASE i # Len(x.events) + 1
      <4>1. i \in 1..Len(x.events) BY <2>2, <3>3
      <4> QED BY <2>1, <2>3, <3>1, <4>1 DEF HasEvent
    <3> QED BY <3>2, <3>3
  <2>5. ASSUME HasEvent(x, e) PROVE HasEvent(y, e)
    <3>1. PICK i \in 1..Len(x.events) : x.events[i] = e BY <2>1, <2>5 DEF HasEvent
    <3>2. i \in 1..(Len(x.events) + 1) BY <2>2
    <3> QED BY <2>1, <2>3, <3>1, <3>2 DEF HasEvent
  <2>6. ASSUME e = d PROVE HasEvent(y, e)
    <3>1. Len(x.events) + 1 \in 1..(Len(x.events) + 1) BY <2>2
    <3> QED BY <2>1, <2>3, <2>6, <3>1 DEF HasEvent
  <2> QED BY <2>4, <2>5, <2>6
<1> QED BY <1>2, <1>3, <1>4, <1>5

\* The fields no event changes.
SameBut(x, y) ==
    /\ y.owner = x.owner /\ y.status = x.status /\ y.released = x.released
    /\ y.cancelled = x.cancelled /\ y.cancelDue = x.cancelDue /\ y.expired = x.expired
    /\ y.run = x.run /\ y.audit = x.audit /\ y.saw = x.saw /\ y.final = x.final

\* How much a job that holds an event more holds beyond the limit.
LEMMA RetainedIsFinite ==
    ASSUME NEW x \in JobState
    PROVE  IsFiniteSet(x.retained) /\ Cardinality(x.retained) \in Nat
<1>1. IsFiniteSet({"completed", "error", "cancelled"})
  <2>1. IsFiniteSet({}) /\ IsFiniteSet({"completed"}) BY FS_EmptySet, FS_Singleton
  <2>2. IsFiniteSet({"completed"} \cup {"error"}) BY <2>1, FS_AddElement
  <2>3. IsFiniteSet(({"completed"} \cup {"error"}) \cup {"cancelled"}) BY <2>2, FS_AddElement
  <2>4. ({"completed"} \cup {"error"}) \cup {"cancelled"} = {"completed", "error", "cancelled"}
    OBVIOUS
  <2> QED BY <2>3, <2>4
<1>2. x.retained \subseteq {"completed", "error", "cancelled"} BY DEF JobState, TerminalEvent
<1> QED BY <1>1, <1>2, FS_Subset, FS_CardinalityType

\* What Publish makes of a job: a terminal event is held, now if not before, and
\* what exceeds the limit is one marker and one event of each retained kind.
LEMMA PublishedJob ==
    ASSUME NEW x \in JobState, NEW e \in Event, NEW fits \in BOOLEAN
    PROVE  LET y == Published(x, e, fits)
           IN /\ y \in JobState /\ SameBut(x, y)
              /\ Len(y.events) >= Len(x.events)
              /\ \A t \in TerminalEvent \ {e} : HasEvent(y, t) <=> HasEvent(x, t)
              /\ (\A t \in x.retained : HasEvent(x, t)) =>
                    /\ e \in TerminalEvent => HasEvent(y, e)
                    /\ \A t \in y.retained : HasEvent(y, t)
              /\ Bounded(x) => Bounded(y)
<1> DEFINE Grown(y) ==
             /\ y \in JobState /\ SameBut(x, y)
             /\ Len(y.events) >= Len(x.events)
             /\ \A t \in TerminalEvent \ {e} : HasEvent(y, t) <=> HasEvent(x, t)
             /\ HasEvent(x, e) => HasEvent(y, e)
           Holds(y) == \A t \in y.retained : HasEvent(y, t)
<1>0. Len(x.events) \in Nat /\ MaxEvents \in Nat BY JobsAssumption DEF JobState
<1>1. ASSUME NEW y, Grown(y), NEW d \in Event, d \in {e, "omitted"}
      PROVE  /\ Grown(Append1(y, d))
             /\ Append1(y, d).retained = y.retained /\ Append1(y, d).truncated = y.truncated
             /\ Len(Append1(y, d).events) = Len(y.events) + 1
             /\ d = e => HasEvent(Append1(y, d), e)
             /\ Holds(y) => Holds(Append1(y, d))
  <2>1. y \in JobState BY <1>1
  <2>2. SameBut(x, Append1(y, d)) BY <1>1 DEF SameBut, Append1, JobState
  <2>3. /\ Append1(y, d).retained = y.retained
        /\ Append1(y, d).truncated = y.truncated
    BY <2>1 DEF Append1, JobState
  <2>4. Len(y.events) \in Nat BY <2>1 DEF JobState
  <2>5. /\ Append1(y, d) \in JobState /\ Len(Append1(y, d).events) = Len(y.events) + 1
        /\ \A t : HasEvent(Append1(y, d), t) <=> HasEvent(y, t) \/ t = d
    BY <2>1, AppendedEvent
  <2>6. Len(Append1(y, d).events) >= Len(x.events) BY <1>0, <1>1, <2>4, <2>5
  <2>7. \A t \in TerminalEvent \ {e} : t # d BY <1>1 DEF TerminalEvent
  <2> QED BY <1>1, <2>2, <2>3, <2>5, <2>6, <2>7
<1>2. Grown(x) BY <1>0 DEF SameBut
<1> DEFINE a == Append1(x, e)
           m == IF x.truncated THEN x ELSE Truncate(x)
           r == Retain(m, e)
<1>3. Grown(a) /\ HasEvent(a, e) /\ Len(a.events) = Len(x.events) + 1
      /\ a.retained = x.retained /\ a.truncated = x.truncated /\ (Holds(x) => Holds(a))
  BY <1>1, <1>2
<1>4. Grown(m) /\ m.truncated /\ m.retained = x.retained /\ (Holds(x) => Holds(m))
      /\ (x.truncated => m = x) /\ (~x.truncated => Len(m.events) = Len(x.events) + 1)
  <2>1. CASE x.truncated BY <1>2, <2>1
  <2>2. CASE ~x.truncated
    <3> DEFINE o == Append1(x, "omitted")
    <3>1. Grown(o) /\ o.retained = x.retained /\ Len(o.events) = Len(x.events) + 1
          /\ (Holds(x) => Holds(o))
      BY <1>1, <1>2 DEF Event
    <3>2. m = [o EXCEPT !.truncated = TRUE] BY <2>2 DEF Truncate
    <3>3. m \in JobState /\ m.events = o.events /\ m.retained = o.retained /\ m.truncated
          /\ SameBut(o, m)
      <4>1. ASSUME NEW z \in JobState, NEW w, w = [z EXCEPT !.truncated = TRUE]
            PROVE  w \in JobState /\ w.events = z.events /\ w.retained = z.retained
                   /\ w.truncated /\ SameBut(z, w)
        <5>1. w \in JobState BY <4>1 DEF JobState
        <5>2. w.events = z.events /\ w.retained = z.retained /\ w.truncated
          BY <4>1 DEF JobState
        <5>3. SameBut(z, w) BY <4>1 DEF SameBut, JobState
        <5> QED BY <5>1, <5>2, <5>3
      <4>2. o \in JobState BY <3>1
      <4> HIDE DEF o, m
      <4> QED BY <3>2, <4>1, <4>2
    <3>4. \A t : HasEvent(m, t) <=> HasEvent(o, t) BY <3>3 DEF HasEvent
    <3>5. SameBut(x, m) BY <3>1, <3>3 DEF SameBut
    <3> QED BY <2>2, <3>1, <3>3, <3>4, <3>5
  <2> QED BY <2>1, <2>2
<1>5. ASSUME e \in TerminalEvent \ m.retained
      PROVE  Grown(r) /\ HasEvent(r, e) /\ (Holds(x) => Holds(r)) /\ (Bounded(x) => Bounded(r))
  <2> DEFINE b == Append1(m, e)
  <2>1. Grown(b) /\ HasEvent(b, e) /\ Len(b.events) = Len(m.events) + 1
        /\ b.retained = m.retained /\ b.truncated /\ (Holds(m) => Holds(b))
    BY <1>1, <1>4
  <2>2. r = [b EXCEPT !.retained = b.retained \cup {e}]
    BY <1>4, <1>5, <2>1 DEF Retain, Append1, JobState
  <2>3. r \in JobState
    <3>1. ASSUME NEW z \in JobState PROVE [z EXCEPT !.retained = z.retained \cup {e}] \in JobState
      BY <1>5 DEF JobState
    <3>2. b \in JobState BY <2>1
    <3> HIDE DEF b, r
    <3> QED BY <2>2, <3>1, <3>2
  <2>4. r.events = b.events /\ r.retained = b.retained \cup {e} /\ r.truncated /\ SameBut(b, r)
    BY <2>1, <2>2 DEF JobState, SameBut
  <2>5. \A t : HasEvent(r, t) <=> HasEvent(b, t) BY <2>4 DEF HasEvent
  <2>6. SameBut(x, r) BY <2>1, <2>4 DEF SameBut
  <2>7. Grown(r) /\ HasEvent(r, e) /\ (Holds(x) => Holds(r))
    BY <1>4, <2>1, <2>3, <2>4, <2>5, <2>6
  <2>8. Cardinality(r.retained) = Cardinality(x.retained) + 1
    BY <1>4, <1>5, <2>1, <2>4, RetainedIsFinite, FS_AddElement
  <2>9. Bounded(x) => Bounded(r)
    <3>1. /\ Cardinality(x.retained) \in Nat /\ Len(m.events) \in Nat
      BY <1>4, RetainedIsFinite DEF JobState
    <3>2. Len(r.events) = Len(m.events) + 1 BY <2>1, <2>4
    <3>3. Excess(r) = Cardinality(x.retained) + 2 BY <2>4, <2>8, <3>1 DEF Excess
    <3>4. CASE x.truncated BY <1>0, <1>4, <3>1, <3>2, <3>3, <3>4 DEF Bounded, Excess
    <3>5. CASE ~x.truncated BY <1>0, <1>4, <3>1, <3>2, <3>3, <3>5 DEF Bounded, Excess
    <3> QED BY <3>4, <3>5
  <2> QED BY <2>7, <2>9
<1>6. Bounded(x) => Bounded(m)
  <2>1. Cardinality(x.retained) \in Nat /\ Len(m.events) \in Nat
    BY <1>4, RetainedIsFinite DEF JobState
  <2>2. CASE x.truncated BY <1>4, <2>2
  <2>3. CASE ~x.truncated BY <1>0, <1>4, <2>1, <2>3 DEF Bounded, Excess
  <2> QED BY <2>2, <2>3
<1>7. ASSUME e \notin TerminalEvent \ m.retained
      PROVE  /\ Grown(r) /\ (Bounded(x) => Bounded(r))
             /\ Holds(x) => Holds(r) /\ (e \in TerminalEvent => HasEvent(r, e))
  BY <1>4, <1>6, <1>7 DEF Retain
<1>8. Len(x.events) < MaxEvents => Bounded(a)
  <2>1. Cardinality(x.retained) \in Nat BY RetainedIsFinite
  <2> QED BY <1>0, <1>3, <2>1 DEF Bounded, Excess
<1> DEFINE y == Published(x, e, fits)
<1>9. CASE x.truncated /\ e \notin TerminalEvent
  <2>1. y = x BY <1>9 DEF Published
  <2> QED BY <1>2, <1>9, <2>1
<1>10. CASE ~(x.truncated /\ e \notin TerminalEvent) /\ Len(x.events) < MaxEvents /\ fits
  <2>1. y = a BY <1>10 DEF Published
  <2> QED BY <1>3, <1>8, <1>10, <2>1
<1>11. CASE ~(x.truncated /\ e \notin TerminalEvent) /\ ~(Len(x.events) < MaxEvents /\ fits)
  <2>1. y = r BY <1>11 DEF Published
  <2> QED BY <1>5, <1>7, <2>1
<1> QED BY <1>9, <1>10, <1>11

-----------------------------------------------------------------------------
(* The steps of one job *)

\* The job after Publish.
Stamped(y, run, saw, final) == [y EXCEPT !.run = run, !.saw = saw, !.final = final]

\* Publish writes where the runner is, what it saw and what it makes of it.
LEMMA StampedJob ==
    ASSUME NEW y \in JobState, NEW run \in {"stream", "audit"},
           NEW saw \in SUBSET {"completed", "error"}, NEW final \in TerminalStatus,
           NEW z, z = Stamped(y, run, saw, final)
    PROVE  /\ z \in JobState
           /\ z.run = run /\ z.saw = saw /\ z.final = final
           /\ z.events = y.events /\ z.retained = y.retained /\ z.truncated = y.truncated
           /\ z.owner = y.owner /\ z.status = y.status /\ z.released = y.released
           /\ z.cancelled = y.cancelled /\ z.expired = y.expired
<1>1. z \in JobState BY DEF JobState, Stamped
<1>2. z.run = run /\ z.saw = saw /\ z.final = final BY DEF JobState, Stamped
<1>3. z.events = y.events /\ z.retained = y.retained /\ z.truncated = y.truncated
  BY DEF JobState, Stamped
<1>4. z.owner = y.owner /\ z.status = y.status /\ z.released = y.released
      /\ z.cancelled = y.cancelled /\ z.expired = y.expired
  BY DEF JobState, Stamped
<1> QED BY <1>1, <1>2, <1>3, <1>4

\* The three ways the runner publishes: an event of the provider, the error of
\* one that throws, and the event of a cancellation.
PublishMode(x, e, run, saw, final) ==
    \/ /\ e \in Emits /\ run = "stream"
       /\ saw = x.saw \cup ({e} \cap {"completed", "error"}) /\ final = "failed"
    \/ e = "error" /\ run = "audit" /\ saw = x.saw /\ final = "failed"
    \/ e = "cancelled" /\ x.saw = {} /\ run = "audit" /\ saw = {} /\ final = "cancelled"

\* A runner that publishes advances its job.
LEMMA PublishAdvances ==
    ASSUME NEW x \in JobState, NEW e, NEW run, NEW saw, NEW final, NEW fits \in BOOLEAN,
           x.run = "stream", PublishMode(x, e, run, saw, final),
           NEW y, y = Published(x, e, fits),
           NEW z, z = Stamped(y, run, saw, final)
    PROVE  Advance(x, z)
<1>1. e \in Event /\ run \in {"stream", "audit"} /\ saw \in SUBSET {"completed", "error"}
      /\ final \in TerminalStatus
  BY DEF PublishMode, Event, TerminalEvent, TerminalStatus, JobState
<1>2. /\ y \in JobState /\ SameBut(x, y) /\ Len(y.events) >= Len(x.events)
      /\ \A t \in TerminalEvent \ {e} : HasEvent(y, t) <=> HasEvent(x, t)
      /\ (\A t \in x.retained : HasEvent(x, t)) =>
            (e \in TerminalEvent => HasEvent(y, e)) /\ (\A t \in y.retained : HasEvent(y, t))
      /\ Bounded(x) => Bounded(y)
  BY <1>1, PublishedJob
<1>3. /\ z \in JobState
      /\ z.run = run /\ z.saw = saw /\ z.final = final
      /\ z.events = y.events /\ z.retained = y.retained /\ z.truncated = y.truncated
      /\ z.owner = y.owner /\ z.status = y.status /\ z.released = y.released
      /\ z.cancelled = y.cancelled /\ z.expired = y.expired
  BY <1>1, <1>2, StampedJob
<1>4. \A t : HasEvent(z, t) <=> HasEvent(y, t) BY <1>3 DEF HasEvent
<1>5. ASSUME Sound(x) PROVE Sound(z) /\ x.status \notin TerminalStatus
  <2>1. x.status \notin TerminalStatus /\ ~x.released /\ ~x.expired BY <1>5 DEF Sound, Lives
  <2>2. Lives(z) BY <1>1, <1>2, <1>3, <2>1 DEF Lives, SameBut
  <2>3. Audits(z) BY <1>1, <1>3 DEF Audits
  <2>4. Bounded(z) BY <1>2, <1>3, <1>5 DEF Bounded, Excess, Sound
  <2>5. Retains(z)
    <3>1. /\ \A t \in x.retained : HasEvent(x, t)
          /\ \A t \in {"completed", "error"} : HasEvent(x, t) <=> t \in x.saw
          /\ ~HasEvent(x, "cancelled")
      BY <1>5 DEF Sound, Retains
    <3>2. /\ e \in TerminalEvent => HasEvent(z, e)
          /\ \A t \in z.retained : HasEvent(z, t)
          /\ \A t \in TerminalEvent \ {e} : HasEvent(z, t) <=> HasEvent(x, t)
      BY <1>2, <1>3, <1>4, <3>1
    <3>3. CASE e \in Emits /\ run = "stream"
      <4>1. saw = x.saw \cup ({e} \cap {"completed", "error"}) /\ e # "cancelled"
        BY <3>3, JobsAssumption DEF PublishMode
      <4>2. \A t \in {"completed", "error"} : HasEvent(z, t) <=> t \in saw
        BY <3>1, <3>2, <4>1 DEF TerminalEvent
      <4>3. ~HasEvent(z, "cancelled") BY <3>1, <3>2, <4>1 DEF TerminalEvent
      <4> QED BY <1>3, <3>2, <3>3, <4>2, <4>3 DEF Retains
    <3>4. CASE e = "error" /\ run = "audit"
      <4>1. final = "failed" BY <3>4 DEF PublishMode
      <4>2. HasEvent(z, "error") /\ ~HasEvent(z, "cancelled")
        BY <3>1, <3>2, <3>4 DEF TerminalEvent
      <4> QED BY <1>3, <3>2, <3>4, <4>1, <4>2 DEF Retains
    <3>5. CASE e = "cancelled" /\ run = "audit"
      <4>1. final = "cancelled" /\ x.saw = {} BY <3>5 DEF PublishMode
      <4>2. HasEvent(z, "cancelled") /\ ~HasEvent(z, "completed") /\ ~HasEvent(z, "error")
        BY <3>1, <3>2, <3>5, <4>1 DEF TerminalEvent
      <4> QED BY <1>3, <3>2, <3>5, <4>1, <4>2 DEF Retains
    <3> QED BY <3>3, <3>4, <3>5 DEF PublishMode
  <2> QED BY <2>1, <2>2, <2>3, <2>4, <2>5 DEF Sound
<1> QED BY <1>1, <1>2, <1>3, <1>5 DEF Advance, SameBut

\* So does one that passes from one phase to the next, and so does a cancellation;
\* the events stay what they are.
LEMMA PhaseAdvances ==
    ASSUME NEW x \in JobState, NEW y \in JobState,
           /\ y.events = x.events /\ y.retained = x.retained /\ y.truncated = x.truncated
           /\ y.owner = x.owner /\ y.released = x.released /\ y.expired = x.expired
           /\ y.saw = x.saw,
           x.cancelled => y.cancelled,
           \/ /\ x.run = "stream" /\ x.saw # {} /\ y.run = "audit" /\ y.status = x.status
              /\ y.final = IF "error" \in x.saw THEN "failed" ELSE "succeeded"
           \/ /\ x.run = "audit" /\ y.run = "finish" /\ y.status = x.status /\ y.final = x.final
              /\ \/ y.audit = "lost"
                 \/ y.audit = IF x.final = "succeeded" THEN "success" ELSE "failure"
           \/ /\ x.run = "finish" /\ y.run = "done" /\ y.status = x.final
              /\ y.final = x.final /\ y.audit = x.audit
           \/ /\ x.run # "none" /\ x.status \notin TerminalStatus
              /\ y.run = x.run /\ y.status = "cancelling"
              /\ y.final = x.final /\ y.audit = x.audit
           \/ /\ y.run = x.run /\ y.status = x.status
              /\ y.final = x.final /\ y.audit = x.audit
    PROVE  Advance(x, y)
<1>1. Len(x.events) \in Nat BY DEF JobState
<1>2. \A t : HasEvent(y, t) <=> HasEvent(x, t) BY DEF HasEvent
<1>3. ASSUME Sound(x)
      PROVE  Sound(y) /\ (x.status \in TerminalStatus => y.status = x.status)
  <2>1. Bounded(y) BY <1>3 DEF Sound, Bounded, Excess
  <2>2. Lives(x) /\ Audits(x) /\ Retains(x) BY <1>3 DEF Sound
  <2>3. x.final \in TerminalStatus BY DEF JobState
  <2>4. Lives(y) /\ (x.status \in TerminalStatus => y.status = x.status)
    BY <2>2, <2>3 DEF Lives, TerminalStatus
  <2>5. Audits(y) BY <2>2 DEF Audits, Lives
  <2>6. Retains(y)
    <3>1. CASE x.run = "stream" /\ y.run = "audit"
      <4>1. x.saw \subseteq {"completed", "error"} /\ x.saw # {} BY <3>1 DEF JobState
      <4>2. y.final = IF "error" \in x.saw THEN "failed" ELSE "succeeded" BY <3>1
      <4>3. /\ HasEvent(y, "error") <=> "error" \in x.saw
            /\ HasEvent(y, "completed") <=> "completed" \in x.saw
            /\ ~HasEvent(y, "cancelled")
        BY <1>2, <2>2, <3>1 DEF Retains
      <4>4. \A e \in y.retained : HasEvent(y, e) BY <1>2, <2>2 DEF Retains
      <4> QED BY <3>1, <4>1, <4>2, <4>3, <4>4 DEF Retains
    <3>2. CASE ~(x.run = "stream" /\ y.run = "audit")
      <4>1. y.final = x.final BY <3>2
      <4>2. /\ y.run \in {"none", "stream"} => x.run \in {"none", "stream"}
            /\ y.run \in {"audit", "finish", "done"} => x.run \in {"audit", "finish", "done"}
        BY <3>2
      <4>3. \A e \in y.retained : HasEvent(y, e) BY <1>2, <2>2 DEF Retains
      <4> QED BY <1>2, <2>2, <4>1, <4>2, <4>3 DEF Retains
    <3> QED BY <3>1, <3>2
  <2> QED BY <2>1, <2>4, <2>5, <2>6 DEF Sound
<1>4. /\ x.run = "none" <=> y.run = "none"
      /\ x.run = "done" => y.run = "done"
  OBVIOUS
<1> QED BY <1>1, <1>3, <1>4 DEF Advance

\* The end of its retention and the release of its source advance a job that has
\* ended.
LEMMA EndedAdvances ==
    ASSUME NEW x \in JobState, NEW y, Sound(x) => x.run = "done",
           y \in {x, [x EXCEPT !.released = TRUE], [x EXCEPT !.expired = TRUE]}
    PROVE  Advance(x, y)
<1>1. y \in JobState
  <2>1. CASE y = x BY <2>1
  <2>2. CASE y = [x EXCEPT !.released = TRUE] BY <2>2 DEF JobState
  <2>3. CASE y = [x EXCEPT !.expired = TRUE] BY <2>3 DEF JobState
  <2> QED BY <2>1, <2>2, <2>3
<1>2. /\ y.events = x.events /\ y.retained = x.retained /\ y.truncated = x.truncated
      /\ y.owner = x.owner /\ y.status = x.status /\ y.run = x.run /\ y.saw = x.saw
      /\ y.final = x.final /\ y.audit = x.audit /\ y.cancelled = x.cancelled
  BY DEF JobState
<1>3. Len(x.events) \in Nat BY DEF JobState
<1>4. \A t : HasEvent(y, t) <=> HasEvent(x, t) BY <1>2 DEF HasEvent
<1>5. Sound(x) => Sound(y)
  <2>1. Bounded(x) => Bounded(y) BY <1>2 DEF Bounded, Excess
  <2>2. Retains(x) => Retains(y) BY <1>2, <1>4 DEF Retains
  <2>3. Audits(x) => Audits(y) BY <1>2 DEF Audits
  <2>4. Lives(x) /\ x.run = "done" => Lives(y) BY <1>2 DEF Lives
  <2> QED BY <2>1, <2>2, <2>3, <2>4 DEF Sound
<1> QED BY <1>1, <1>2, <1>3, <1>5 DEF Advance

\* A job that is not disturbed.
LEMMA StayAdvances ==
    ASSUME NEW x \in JobState
    PROVE  Advance(x, x)
<1>1. Len(x.events) \in Nat BY DEF JobState
<1> QED BY <1>1 DEF Advance

\* A job before it starts and just started.
LEMMA FreshIsSound ==
    ASSUME NEW o \in Owner \cup {Anonymous}, NEW y,
           y \in {Fresh(o), [Fresh(o) EXCEPT !.run = "stream"]}
    PROVE  y \in JobState /\ Sound(y) /\ y.events = <<>> /\ y.owner = o
<1>1. y \in JobState
  <2>1. Fresh(o) \in JobState
    <3>1. <<>> \in Seq(Event) /\ 0 \in Nat /\ {} \in SUBSET TerminalEvent OBVIOUS
    <3> QED BY <3>1 DEF Fresh, JobState, TerminalStatus
  <2>2. [Fresh(o) EXCEPT !.run = "stream"] \in JobState
    <3>1. ASSUME NEW x \in JobState PROVE [x EXCEPT !.run = "stream"] \in JobState
      BY DEF JobState
    <3> QED BY <2>1, <3>1
  <2> QED BY <2>1, <2>2
<1>2. /\ y.events = <<>> /\ y.retained = {} /\ y.truncated = FALSE
      /\ y.owner = o /\ y.status = "running" /\ y.run \in {"none", "stream"} /\ y.saw = {}
      /\ y.released = FALSE /\ y.expired = FALSE
  BY DEF Fresh
<1>3. \A t : ~HasEvent(y, t) BY <1>2 DEF HasEvent
<1>4. Bounded(y) BY <1>2, FS_EmptySet, JobsAssumption DEF Bounded, Excess
<1>5. Retains(y) BY <1>2, <1>3 DEF Retains
<1>6. Lives(y) /\ Audits(y) BY <1>2 DEF Lives, Audits, TerminalStatus
<1> QED BY <1>1, <1>2, <1>4, <1>5, <1>6 DEF Sound

-----------------------------------------------------------------------------
(* The steps of the manager *)

\* The runner and the cancellations of one job.  Its readers are notified of what
\* they wait for.
Works(j) ==
    \E y :
        /\ Advance(job[j], y)
        /\ job' = [job EXCEPT ![j] = y]
        /\ UNCHANGED <<jobs, disposed, shutdown>>
        /\ \/ Notify(j)
           \/ /\ UNCHANGED poller /\ y.events = job[j].events
              /\ y.status \in TerminalStatus => job[j].status \in TerminalStatus

\* Publishing is such a step.
LEMMA PublishWorks ==
    ASSUME TypeOK, NEW j \in Job, NEW e, NEW run, NEW saw, NEW final,
           job[j].run = "stream", PublishMode(job[j], e, run, saw, final),
           Publish(j, e, run, saw, final)
    PROVE  Works(j)
<1>1. job[j] \in JobState BY DEF TypeOK
<1>2. PICK fits \in Fits :
         /\ job' = [job EXCEPT ![j] =
                       Stamped(Published(job[j], e, fits), run, saw, final)]
         /\ IF Published(job[j], e, fits).events # job[j].events
            THEN Notify(j) ELSE UNCHANGED poller
         /\ UNCHANGED <<jobs, disposed, shutdown>>
  BY Zenon DEF Publish, Stamped
<1>3. fits \in BOOLEAN BY JobsAssumption
<1> DEFINE x == Published(job[j], e, fits)
           y == Stamped(x, run, saw, final)
<1>4. Advance(job[j], y) BY <1>1, <1>3, PublishAdvances
<1>5. e \in Event /\ run \in {"stream", "audit"} /\ saw \in SUBSET {"completed", "error"}
      /\ final \in TerminalStatus
  BY <1>1 DEF PublishMode, Event, TerminalEvent, TerminalStatus, JobState
<1>6. x \in JobState /\ x.status = job[j].status
  <2>1. x \in JobState /\ SameBut(job[j], x) BY <1>1, <1>3, <1>5, PublishedJob
  <2> HIDE DEF x
  <2> QED BY <2>1 DEF SameBut
<1>8. /\ x.events # job[j].events => Notify(j)
      /\ x.events = job[j].events => UNCHANGED poller
  BY <1>2
<1> HIDE DEF x
<1>7. y.events = x.events /\ y.status = x.status BY <1>5, <1>6, StampedJob
<1> HIDE DEF y
<1>9. job' = [job EXCEPT ![j] = y] /\ UNCHANGED <<jobs, disposed, shutdown>>
  BY <1>2 DEF y, x
<1> QED BY <1>4, <1>6, <1>7, <1>8, <1>9 DEF Works

\* Every step of a job's runner and of its cancellation is one.
LEMMA WorkSteps ==
    ASSUME TypeOK, NEW j \in Job, Runner(j) \/ Cancel(j) \/ SignalCancel(j)
    PROVE  Works(j)
<1> DEFINE x == job[j]
<1>0. x \in JobState /\ job \in [Job -> JobState] BY DEF TypeOK
<1>1. ASSUME NEW e \in Emits, ProviderEvent(j, e) PROVE Works(j)
  <2>1. PublishMode(x, e, "stream", x.saw \cup ({e} \cap {"completed", "error"}), "failed")
    BY <1>1 DEF ProviderEvent, PublishMode
  <2> QED BY <1>1, <2>1, PublishWorks DEF ProviderEvent
<1>2. CASE EndCancelled(j)
  <2>1. PublishMode(x, "cancelled", "audit", {}, "cancelled")
    BY <1>2 DEF EndCancelled, PublishMode
  <2> QED BY <1>2, <2>1, PublishWorks DEF EndCancelled
<1>3. CASE Fail(j)
  <2>1. PublishMode(x, "error", "audit", x.saw, "failed") BY DEF PublishMode
  <2> QED BY <1>3, <2>1, PublishWorks DEF Fail
<1>4. CASE EndOfStream(j)
  <2> DEFINE f == IF "error" \in x.saw THEN "failed" ELSE "succeeded"
             y == [x EXCEPT !.run = "audit", !.final = f]
  <2>1. job' = [job EXCEPT ![j] = y] BY <1>0, <1>4 DEF EndOfStream
  <2>2. f \in TerminalStatus BY DEF TerminalStatus
  <2> HIDE DEF f
  <2>3. y \in JobState /\ y.events = x.events /\ y.status = x.status
    BY <1>0, <2>2 DEF JobState
  <2>4. Advance(x, y)
    <3>1. /\ y.events = x.events /\ y.retained = x.retained /\ y.truncated = x.truncated
          /\ y.owner = x.owner /\ y.released = x.released /\ y.expired = x.expired
          /\ y.saw = x.saw /\ y.cancelled = x.cancelled
          /\ y.run = "audit" /\ y.status = x.status /\ y.final = f
      BY <1>0 DEF JobState
    <3>2. x.run = "stream" /\ x.saw # {} BY <1>4 DEF EndOfStream
    <3> HIDE DEF x, y
    <3> QED BY <1>0, <2>3, <3>1, <3>2, PhaseAdvances DEF f
  <2>5. UNCHANGED <<jobs, poller, disposed, shutdown>> BY <1>4 DEF EndOfStream
  <2> HIDE DEF y
  <2> QED BY <2>1, <2>3, <2>4, <2>5 DEF Works
<1>5. CASE Audit(j)
  <2>1. PICK entry \in {"lost", IF x.final = "succeeded" THEN "success" ELSE "failure"} :
           job' = [job EXCEPT ![j].run = "finish", ![j].audit = entry]
    BY <1>5 DEF Audit
  <2> DEFINE y == [x EXCEPT !.run = "finish", !.audit = entry]
  <2>2. job' = [job EXCEPT ![j] = y] BY <1>0, <2>1
  <2>3. y \in JobState /\ y.events = x.events /\ y.status = x.status BY <1>0 DEF JobState
  <2>4. Advance(x, y)
    <3>1. /\ y.events = x.events /\ y.retained = x.retained /\ y.truncated = x.truncated
          /\ y.owner = x.owner /\ y.released = x.released /\ y.expired = x.expired
          /\ y.saw = x.saw /\ y.cancelled = x.cancelled
          /\ y.run = "finish" /\ y.status = x.status /\ y.final = x.final /\ y.audit = entry
      BY <1>0 DEF JobState
    <3>2. x.run = "audit" BY <1>5 DEF Audit
    <3> HIDE DEF x, y
    <3> QED BY <1>0, <2>1, <2>3, <3>1, <3>2, PhaseAdvances
  <2>5. UNCHANGED <<jobs, poller, disposed, shutdown>> BY <1>5 DEF Audit
  <2> HIDE DEF y
  <2> QED BY <2>2, <2>3, <2>4, <2>5 DEF Works
<1>6. CASE Finish(j)
  <2> DEFINE n == Cardinality({k \in Job : Done(k)}) + 1
             y == [x EXCEPT !.run = "done", !.status = x.final, !.ended = n]
  <2>1. n \in Nat
    <3>1. IsFiniteSet({k \in Job : Done(k)}) BY JobsAssumption, FS_Subset
    <3> QED BY <3>1, FS_CardinalityType
  <2>2. job' = [job EXCEPT ![j] = y] BY <1>0, <1>6 DEF Finish
  <2> HIDE DEF n
  <2>3. y \in JobState BY <1>0, <2>1 DEF JobState
  <2>4. Advance(x, y)
    <3>1. /\ y.events = x.events /\ y.retained = x.retained /\ y.truncated = x.truncated
          /\ y.owner = x.owner /\ y.released = x.released /\ y.expired = x.expired
          /\ y.saw = x.saw /\ y.cancelled = x.cancelled
          /\ y.run = "done" /\ y.status = x.final /\ y.final = x.final /\ y.audit = x.audit
      BY <1>0 DEF JobState
    <3>2. x.run = "finish" BY <1>6 DEF Finish
    <3> HIDE DEF x, y
    <3> QED BY <1>0, <2>3, <3>1, <3>2, PhaseAdvances
  <2>5. Notify(j) /\ UNCHANGED <<jobs, disposed, shutdown>> BY <1>6 DEF Finish
  <2> HIDE DEF y
  <2> QED BY <2>2, <2>4, <2>5 DEF Works
<1>7. CASE Cancel(j)
  <2> DEFINE y == [x EXCEPT !.status = "cancelling", !.cancelDue = TRUE]
  <2>1. job' = [job EXCEPT ![j] = y] BY <1>0, <1>7 DEF Cancel
  <2>2. y \in JobState BY <1>0 DEF JobState
  <2>3. Advance(x, y)
    <3>1. /\ y.events = x.events /\ y.retained = x.retained /\ y.truncated = x.truncated
          /\ y.owner = x.owner /\ y.released = x.released /\ y.expired = x.expired
          /\ y.saw = x.saw /\ y.cancelled = x.cancelled
          /\ y.run = x.run /\ y.status = "cancelling" /\ y.final = x.final /\ y.audit = x.audit
      BY <1>0 DEF JobState
    <3>2. x.run # "none" /\ x.status \notin TerminalStatus
      BY <1>7 DEF Cancel, Started, IsTerminal
    <3> HIDE DEF x, y
    <3> QED BY <1>0, <2>2, <3>1, <3>2, PhaseAdvances
  <2>4. Notify(j) /\ UNCHANGED <<jobs, disposed, shutdown>> BY <1>7 DEF Cancel
  <2> HIDE DEF y
  <2> QED BY <2>1, <2>3, <2>4 DEF Works
<1>8. CASE SignalCancel(j)
  <2>1. PICK y \in {[x EXCEPT !.cancelDue = FALSE, !.cancelled = TRUE],
                    [x EXCEPT !.cancelDue = FALSE]} :
           job' = [job EXCEPT ![j] = y]
    BY <1>0, <1>8 DEF SignalCancel
  <2>2. y \in JobState
    <3>1. CASE y = [x EXCEPT !.cancelDue = FALSE, !.cancelled = TRUE]
      BY <1>0, <3>1 DEF JobState
    <3>2. CASE y = [x EXCEPT !.cancelDue = FALSE] BY <1>0, <3>2 DEF JobState
    <3> QED BY <2>1, <3>1, <3>2
  <2>3. /\ y.events = x.events /\ y.retained = x.retained /\ y.truncated = x.truncated
        /\ y.owner = x.owner /\ y.released = x.released /\ y.expired = x.expired
        /\ y.saw = x.saw /\ (x.cancelled => y.cancelled)
        /\ y.run = x.run /\ y.status = x.status /\ y.final = x.final /\ y.audit = x.audit
    BY <1>0, <2>1 DEF JobState
  <2>4. UNCHANGED <<jobs, poller, disposed, shutdown>> BY <1>8 DEF SignalCancel
  <2> HIDE DEF x
  <2>5. Advance(x, y) BY <1>0, <2>2, <2>3, PhaseAdvances
  <2> QED BY <2>1, <2>3, <2>4, <2>5 DEF Works, x
<1> QED BY <1>1, <1>2, <1>3, <1>4, <1>5, <1>6, <1>7, <1>8 DEF Runner, StreamEnds

\* RemoveLocked: the jobs of a set lose their source, the others are left alone.
LEMMA ReleaseWrites ==
    ASSUME TypeOK, NEW S
    PROVE  /\ Release(S) \in [Job -> JobState]
           /\ \A k \in S \cap Job : Release(S)[k] = [job[k] EXCEPT !.released = TRUE]
           /\ \A k \in Job \ S : Release(S)[k] = job[k]
<1>1. ASSUME NEW k \in Job PROVE [job[k] EXCEPT !.released = TRUE] \in JobState
  <2>1. ASSUME NEW x \in JobState PROVE [x EXCEPT !.released = TRUE] \in JobState
    BY DEF JobState
  <2> QED BY <2>1 DEF TypeOK
<1>2. \A k \in Job : job[k] \in JobState BY DEF TypeOK
<1>3. Release(S) \in [Job -> JobState] BY <1>1, <1>2 DEF Release
<1> QED BY <1>3 DEF Release

\* What the sweep and a start remove has ended.
LEMMA RemovedHaveEnded ==
    ASSUME TypeOK, NEW o
    PROVE  /\ Kept(o) \subseteq jobs \ Expired
           /\ \A k \in Expired : k \in jobs /\ job[k].expired
           /\ \A k \in jobs \ Kept(o) :
                 job[k].expired \/ (IsTerminal(k) /\ job[k].owner = o)
<1> DEFINE fresh == jobs \ Expired
<1>1. \A k \in Expired : k \in jobs /\ job[k].expired BY DEF Expired
<1>2. \A k \in OldestCompleted(fresh, o) : IsTerminal(k) /\ job[k].owner = o
  BY DEF OldestCompleted, OwnedBy
<1>3. Kept(o) = fresh \/ Kept(o) = fresh \ OldestCompleted(fresh, o) BY DEF Kept
<1>4. \A k \in jobs \ fresh : job[k].expired BY DEF Expired
<1>5. Kept(o) \subseteq fresh BY <1>3
<1>6. \A k \in jobs \ Kept(o) : k \in jobs \ fresh \/ k \in OldestCompleted(fresh, o)
  BY <1>3
<1>7. \A k \in jobs \ Kept(o) : job[k].expired \/ (IsTerminal(k) /\ job[k].owner = o)
  BY <1>2, <1>4, <1>6
<1> QED BY <1>1, <1>5, <1>7

\* A job that has just started.
Begun(y, o) == y \in JobState /\ Sound(y) /\ y.events = <<>> /\ y.run = "stream" /\ y.owner = o

\* Releasing what has ended advances every job.
LEMMA ReleaseAdvances ==
    ASSUME TypeOK, NEW S, \A k \in S \cap Job : Sound(job[k]) => Done(k), NEW k \in Job
    PROVE  Advance(job[k], Release(S)[k])
<1>1. job[k] \in JobState BY DEF TypeOK
<1>2. CASE k \in S
  <2>1. Sound(job[k]) => job[k].run = "done" BY <1>2 DEF Done
  <2>2. Release(S)[k] = [job[k] EXCEPT !.released = TRUE] BY <1>2, ReleaseWrites
  <2> QED BY <1>1, <2>1, <2>2, EndedAdvances
<1>3. CASE k \notin S
  <2>1. Release(S)[k] = job[k] BY <1>3, ReleaseWrites
  <2> QED BY <1>1, <2>1, StayAdvances
<1> QED BY <1>2, <1>3

\* Start, for the job it starts and for the others.
LEMMA StartSteps ==
    ASSUME TypeOK, NEW j \in Job, NEW o \in Owner \cup {Anonymous}, Start(j, o)
    PROVE  /\ job' \in [Job -> JobState]
           /\ Begun(job'[j], o) /\ ~Started(j)
           /\ \A k \in Job \ {j} : Advance(job[k], job'[k])
<1> DEFINE S == jobs \ Kept(o)
           f == [Fresh(o) EXCEPT !.run = "stream"]
<1>1. /\ job' = [Release(S) EXCEPT ![j] = f]
      /\ ~Started(j)
  BY DEF Start
<1>2. f \in JobState /\ Sound(f) /\ f.events = <<>> /\ f.owner = o BY FreshIsSound
<1>3. f.run = "stream" BY DEF Fresh
<1>4. \A k \in S \cap Job : Sound(job[k]) => Done(k)
  BY RemovedHaveEnded DEF Sound, Lives, Done, IsTerminal
<1> HIDE DEF f, S
<1>5. Release(S) \in [Job -> JobState] BY ReleaseWrites
<1>6. job' \in [Job -> JobState] /\ job'[j] = f BY <1>1, <1>2, <1>5
<1>7. \A k \in Job \ {j} : job'[k] = Release(S)[k] BY <1>1, <1>5
<1>8. \A k \in Job \ {j} : Advance(job[k], job'[k]) BY <1>4, <1>7, ReleaseAdvances
<1> QED BY <1>1, <1>2, <1>3, <1>6, <1>8 DEF Begun

\* A step of the readers, and one that writes nothing, leaves the jobs alone.
Reads == (\E p \in Poller : Polls(p) \/ Detach(p)) \/ (\E p \in Poller, j \in Job : Attach(p, j))
LEMMA ReadsWriteNothing ==
    ASSUME Reads PROVE UNCHANGED <<jobs, job, disposed, shutdown>>
  BY DEF Reads, Polls, Detach, Attach, Lookup, Read, Answer

\* Every step of the manager advances every job, or starts it.
Begins == \E j \in Job, o \in Owner \cup {Anonymous} : Start(j, o)
Drops == Sweep \/ \E o \in Owner \cup {Anonymous} : RefuseStart(o)
Disposes == BeginDispose \/ CancelNext \/ EndWait \/ ReleaseNext \/ EndDispose
JobsAdvance ==
    /\ job' \in [Job -> JobState]
    /\ \A k \in Job :
        \/ Advance(job[k], job'[k])
        \/ ~Started(k) /\ \E o \in Owner \cup {Anonymous} : Start(k, o) /\ Begun(job'[k], o)

LEMMA NextCases ==
    ASSUME [Next]_vars
    PROVE  \/ Begins \/ Drops \/ Disposes \/ Reads \/ UNCHANGED vars
           \/ \E j \in Job : Runner(j) \/ Cancel(j) \/ SignalCancel(j)
           \/ \E j \in Job : Expire(j)
  BY DEF Next, Begins, Drops, Disposes, Reads

LEMMA JobSteps ==
    ASSUME TypeOK, [Next]_vars
    PROVE  JobsAdvance
<1>0. job \in [Job -> JobState] /\ \A k \in Job : Advance(job[k], job[k])
  BY StayAdvances DEF TypeOK
<1>1. CASE Begins
  <2>1. PICK j \in Job, o \in Owner \cup {Anonymous} : Start(j, o) BY <1>1 DEF Begins
  <2>2. /\ job' \in [Job -> JobState]
        /\ Begun(job'[j], o) /\ ~Started(j)
        /\ \A k \in Job \ {j} : Advance(job[k], job'[k])
    BY <2>1, StartSteps
  <2> QED BY <2>1, <2>2 DEF JobsAdvance
<1>2. ASSUME NEW S, \A k \in S \cap Job : Sound(job[k]) => Done(k), job' = Release(S)
      PROVE  JobsAdvance
  BY <1>2, ReleaseWrites, ReleaseAdvances DEF JobsAdvance
<1>3. CASE Drops
  <2>1. \A k \in Expired \cap Job : Sound(job[k]) => Done(k)
    BY RemovedHaveEnded DEF Sound, Lives, Done
  <2>2. job' = Release(Expired) BY <1>3 DEF Drops, Sweep, RefuseStart
  <2> QED BY <1>2, <2>1, <2>2
<1>4. ASSUME UNCHANGED job PROVE JobsAdvance BY <1>0, <1>4 DEF JobsAdvance
<1>5. ASSUME NEW j \in Job, NEW y, job' = [job EXCEPT ![j] = y], Advance(job[j], y)
      PROVE  JobsAdvance
  <2>1. y \in JobState BY <1>5 DEF Advance
  <2>2. job' \in [Job -> JobState] /\ job'[j] = y BY <1>0, <1>5, <2>1
  <2>3. \A k \in Job \ {j} : job'[k] = job[k] BY <1>0, <1>5
  <2> QED BY <1>0, <1>5, <2>2, <2>3 DEF JobsAdvance
<1>6. CASE \E j \in Job : Runner(j) \/ Cancel(j) \/ SignalCancel(j)
  <2>1. PICK j \in Job : Works(j) BY <1>6, WorkSteps
  <2> QED BY <1>5, <2>1 DEF Works
<1>7. CASE \E j \in Job : Expire(j)
  <2>1. PICK j \in Job : Expire(j) BY <1>7
  <2> DEFINE y == [job[j] EXCEPT !.expired = TRUE]
  <2>2. job' = [job EXCEPT ![j] = y] /\ job[j].run = "done" BY <1>0, <2>1 DEF Expire, Done
  <2>3. Advance(job[j], y) BY <1>0, <2>2, EndedAdvances
  <2> HIDE DEF y
  <2> QED BY <1>5, <2>2, <2>3
<1>8. CASE Disposes
  <2>1. CASE CancelNext
    <3>1. PICK j \in shutdown.rest :
             \/ ~job[j].released /\ job' = [job EXCEPT ![j].cancelled = TRUE]
             \/ job[j].released /\ UNCHANGED job
      BY <2>1 DEF CancelNext
    <3>2. j \in Job BY DEF TypeOK
    <3>3. CASE UNCHANGED job BY <1>4, <3>3
    <3>4. CASE job' = [job EXCEPT ![j].cancelled = TRUE]
      <4> DEFINE x == job[j]
                 y == [x EXCEPT !.cancelled = TRUE]
      <4>1. job' = [job EXCEPT ![j] = y] /\ x \in JobState BY <1>0, <3>2, <3>4
      <4>2. /\ y \in JobState
            /\ y.events = x.events /\ y.retained = x.retained /\ y.truncated = x.truncated
            /\ y.owner = x.owner /\ y.released = x.released /\ y.expired = x.expired
            /\ y.saw = x.saw /\ (x.cancelled => y.cancelled)
            /\ y.run = x.run /\ y.status = x.status /\ y.final = x.final /\ y.audit = x.audit
        BY <4>1 DEF JobState
      <4> HIDE DEF y
      <4>3. Advance(x, y) BY <4>1, <4>2, PhaseAdvances
      <4> QED BY <1>5, <3>2, <4>1, <4>3
    <3> QED BY <3>1, <3>3, <3>4
  <2>2. CASE ReleaseNext
    <3>1. PICK j \in shutdown.rest : (Done(j) /\ job' = Release({j})) \/ UNCHANGED job
      BY <2>2 DEF ReleaseNext
    <3> QED BY <1>2, <1>4, <3>1
  <2>3. CASE BeginDispose \/ EndWait \/ EndDispose
    BY <1>4, <2>3 DEF BeginDispose, EndWait, EndDispose
  <2> QED BY <1>8, <2>1, <2>2, <2>3 DEF Disposes
<1>9. CASE Reads \/ UNCHANGED vars BY <1>4, <1>9, ReadsWriteNothing DEF vars
<1> QED BY <1>1, <1>3, <1>6, <1>7, <1>8, <1>9, NextCases

-----------------------------------------------------------------------------
(* The readers *)

\* A reader that polls a job, at a place in its events.
Follows(v) ==
    /\ v \in Poll
    /\ v.at # "off" => /\ v.on \in Job /\ Started(v.on)
                       /\ v.after <= Len(job[v.on].events)
\* One that waits has nothing to read yet.
WaitsInVain(v) == v.after = Len(job[v.on].events) /\ ~IsTerminal(v.on)

\* A request writes the reader it serves.
LEMMA ReadSteps ==
    ASSUME TypeOK, Reads
    PROVE  \E p \in Poller : \E v :
              /\ poller' = [poller EXCEPT ![p] = v]
              /\ Follows(v) /\ (v.at = "waiting" => WaitsInVain(v))
<1>0. poller \in [Poller -> Poll] /\ job \in [Job -> JobState] /\ PageSize \in Nat \ {0}
  BY JobsAssumption DEF TypeOK
<1>1. ASSUME NEW p \in Poller, NEW v, poller' = [poller EXCEPT ![p] = v],
             Follows(v), v.at # "waiting"
      PROVE  \E q \in Poller : \E w :
                /\ poller' = [poller EXCEPT ![q] = w]
                /\ Follows(w) /\ (w.at = "waiting" => WaitsInVain(w))
  BY <1>1
<1>2. NoPoll \in Poll /\ NoPoll.at = "off" BY DEF NoPoll, Poll
<1>3. ASSUME NEW p \in Poller, NEW j \in Job, Attach(p, j)
      PROVE  \E v : poller' = [poller EXCEPT ![p] = v] /\ Follows(v) /\ v.at # "waiting"
  <2> DEFINE v == [NoPoll EXCEPT !.at = "ready", !.on = j]
  <2>1. v \in Poll /\ v.at = "ready" /\ v.on = j /\ v.after = 0 BY DEF NoPoll, Poll
  <2>2. Started(j) /\ poller' = [poller EXCEPT ![p] = v] BY <1>3 DEF Attach
  <2>3. job[j].events \in Seq(Event) BY <1>0 DEF JobState
  <2>4. 0 <= Len(job[j].events) BY <2>3
  <2> HIDE DEF v
  <2> QED BY <2>1, <2>2, <2>4 DEF Follows
<1>4. ASSUME NEW p \in Poller, Detach(p) \/ Lookup(p)
      PROVE  \E v : poller' = [poller EXCEPT ![p] = v] /\ Follows(v) /\ v.at # "waiting"
  <2>1. CASE poller' = [poller EXCEPT ![p] = NoPoll] BY <1>2, <2>1 DEF Follows
  <2>2. CASE poller' = [poller EXCEPT ![p] = [poller[p] EXCEPT !.at = "found"]]
             /\ poller[p].at = "ready"
    <3> DEFINE v == [poller[p] EXCEPT !.at = "found"]
    <3>1. v \in Poll /\ v.at = "found" /\ v.on = poller[p].on /\ v.after = poller[p].after
      BY <1>0 DEF Poll
    <3>2. poller[p].at # "off" BY <2>2
    <3>3. poller[p].on \in Job /\ Started(poller[p].on)
          /\ poller[p].after <= Len(job[poller[p].on].events)
      BY <3>2 DEF TypeOK
    <3> HIDE DEF v
    <3>4. Follows(v) BY <3>1, <3>3 DEF Follows
    <3> QED BY <2>2, <3>1, <3>4 DEF v
  <2> QED BY <1>0, <1>4, <2>1, <2>2 DEF Detach, Lookup
<1>5. ASSUME NEW p \in Poller, Snapshot(p), poller[p].at # "off"
      PROVE  \E v : poller' = [poller EXCEPT ![p] = v] /\ Follows(v) /\ v.at # "waiting"
  <2> DEFINE n == NextCursor(p)
             s == job[poller[p].on].status
             v == [poller[p] EXCEPT !.at = "ready", !.woken = FALSE, !.after = n, !.told = s]
  <2>1. poller[p].on \in Job /\ Started(poller[p].on) /\ poller[p].after \in Nat
    BY <1>0, <1>5 DEF TypeOK, Poll
  <2>2. Len(job[poller[p].on].events) \in Nat /\ s \in TerminalStatus \cup {"running", "cancelling"}
    BY <1>0, <2>1 DEF JobState
  <2>3. n \in Nat /\ n <= Len(job[poller[p].on].events) BY <1>0, <2>1, <2>2 DEF NextCursor
  <2>4. poller' = [poller EXCEPT ![p] = v] BY <1>0, <1>5 DEF Snapshot
  <2> HIDE DEF n, s
  <2>5. v \in Poll /\ v.at = "ready" /\ v.on = poller[p].on /\ v.after = n
    BY <1>0, <2>2, <2>3 DEF Poll
  <2> HIDE DEF v
  <2> QED BY <2>1, <2>3, <2>4, <2>5 DEF Follows
<1>6. ASSUME NEW p \in Poller, Read(p), ~Snapshot(p)
      PROVE  \E v : /\ poller' = [poller EXCEPT ![p] = v]
                    /\ Follows(v) /\ WaitsInVain(v)
  <2> DEFINE v == [poller[p] EXCEPT !.at = "waiting"]
  <2>1. /\ poller[p].after = Len(job[poller[p].on].events) /\ ~IsTerminal(poller[p].on)
        /\ poller' = [poller EXCEPT ![p] = v] /\ poller[p].at = "found"
    BY <1>0, <1>6 DEF Read
  <2>2. v \in Poll /\ v.on = poller[p].on /\ v.after = poller[p].after BY <1>0 DEF Poll
  <2>3. poller[p].on \in Job /\ Started(poller[p].on)
        /\ poller[p].after <= Len(job[poller[p].on].events)
    BY <2>1 DEF TypeOK
  <2> HIDE DEF v
  <2> QED BY <2>1, <2>2, <2>3 DEF Follows, WaitsInVain
<1>7. PICK p \in Poller : Polls(p) \/ Detach(p) \/ \E j \in Job : Attach(p, j)
  BY DEF Reads
<1>8. CASE \E j \in Job : Attach(p, j) BY <1>1, <1>3, <1>8
<1>9. CASE Detach(p) \/ Lookup(p) BY <1>1, <1>4, <1>9
<1>10. CASE Answer(p) \/ (Read(p) /\ Snapshot(p))
  <2>1. Snapshot(p) /\ poller[p].at # "off" BY <1>10 DEF Answer, Read
  <2> QED BY <1>1, <1>5, <2>1
<1>11. CASE Read(p) /\ ~Snapshot(p) BY <1>6, <1>11
<1> QED BY <1>7, <1>8, <1>9, <1>10, <1>11 DEF Polls

\* NotifyLocked wakes those who wait for the job.
LEMMA NotifyWrites ==
    ASSUME TypeOK, NEW j \in Job, Notify(j)
    PROVE  /\ poller' \in [Poller -> Poll]
           /\ \A p \in Poller :
                 /\ poller'[p].at = poller[p].at /\ poller'[p].on = poller[p].on
                 /\ poller'[p].after = poller[p].after
                 /\ poller[p].at = "waiting" /\ poller[p].on = j => poller'[p].woken
                 /\ poller[p].on # j => poller'[p] = poller[p]
<1>0. poller \in [Poller -> Poll] BY DEF TypeOK
<1>1. ASSUME NEW v \in Poll, NEW w, w = [v EXCEPT !.woken = TRUE]
      PROVE  w \in Poll /\ w.at = v.at /\ w.on = v.on /\ w.after = v.after /\ w.woken
  BY <1>1 DEF Poll
<1>2. ASSUME NEW p \in Poller
      PROVE  /\ poller'[p] \in Poll
             /\ poller'[p].at = poller[p].at /\ poller'[p].on = poller[p].on
             /\ poller'[p].after = poller[p].after
             /\ poller[p].at = "waiting" /\ poller[p].on = j => poller'[p].woken
             /\ poller[p].on # j => poller'[p] = poller[p]
  <2>1. poller[p] \in Poll BY <1>0
  <2>2. CASE poller[p].at = "waiting" /\ poller[p].on = j
    <3>1. poller'[p] = [poller[p] EXCEPT !.woken = TRUE] BY <2>2 DEF Notify
    <3> QED BY <1>1, <2>1, <2>2, <3>1
  <2>3. CASE ~(poller[p].at = "waiting" /\ poller[p].on = j)
    <3>1. poller'[p] = poller[p] BY <2>3 DEF Notify
    <3> QED BY <2>1, <2>3, <3>1
  <2> QED BY <2>2, <2>3
<1>3. poller' \in [Poller -> Poll] BY <1>2 DEF Notify
<1> QED BY <1>2, <1>3

\* No other step moves a reader.
LEMMA ReadersStay ==
    ASSUME TypeOK, [Next]_vars, ~Reads
    PROVE  /\ poller' \in [Poller -> Poll]
           /\ \A p \in Poller : /\ poller'[p].at = poller[p].at /\ poller'[p].on = poller[p].on
                                /\ poller'[p].after = poller[p].after
<1>1. ASSUME UNCHANGED poller
      PROVE  /\ poller' \in [Poller -> Poll]
             /\ \A p \in Poller : /\ poller'[p].at = poller[p].at
                                  /\ poller'[p].on = poller[p].on
                                  /\ poller'[p].after = poller[p].after
  BY <1>1 DEF TypeOK
<1>2. CASE \E j \in Job : Runner(j) \/ Cancel(j) \/ SignalCancel(j)
  <2>1. PICK j \in Job : Works(j) BY <1>2, WorkSteps
  <2>2. Notify(j) \/ UNCHANGED poller BY <2>1 DEF Works
  <2> QED BY <1>1, <2>2, NotifyWrites
<1>3. CASE Begins \/ Drops BY <1>1, <1>3 DEF Begins, Drops, Start, Sweep, RefuseStart
<1>4. CASE Disposes
  BY <1>1, <1>4 DEF Disposes, BeginDispose, CancelNext, EndWait, ReleaseNext, EndDispose
<1>5. CASE \E j \in Job : Expire(j) BY <1>1, <1>5 DEF Expire
<1>6. CASE UNCHANGED vars BY <1>1, <1>6 DEF vars
<1> QED BY <1>2, <1>3, <1>4, <1>5, <1>6, NextCases

-----------------------------------------------------------------------------
(* Type correctness *)

\* The state has its types, and a reader polls a job that was started at a place
\* among its events: a job's events only grow (Publish).
THEOREM TypeCorrect == Spec => []TypeOK
<1>1. Init => TypeOK
  <2>1. ASSUME Init PROVE TypeOK
    <3>1. \A j \in Job : job[j] \in JobState BY <2>1, FreshIsSound DEF Init
    <3>2. job \in [Job -> JobState] BY <2>1, <3>1 DEF Init
    <3>3. NoPoll \in Poll /\ NoPoll.at = "off" BY DEF NoPoll, Poll
    <3>4. poller \in [Poller -> Poll] /\ \A p \in Poller : poller[p].at = "off"
      BY <2>1, <3>3 DEF Init
    <3>5. /\ jobs \in SUBSET Job /\ disposed \in BOOLEAN
          /\ shutdown \in [at : {"none", "cancel", "release", "done"},
                           rest : SUBSET Job, remaining : SUBSET Job]
      BY <2>1 DEF Init
    <3> QED BY <3>2, <3>4, <3>5 DEF TypeOK
  <2> QED BY <2>1
<1>2. ASSUME TypeOK, [Next]_vars PROVE TypeOK'
  <2>0. JobsAdvance BY <1>2, JobSteps
  <2>1. jobs' \in SUBSET Job
    <3>1. CASE Begins
      <4>1. PICK j \in Job, o \in Owner \cup {Anonymous} : Start(j, o) BY <3>1 DEF Begins
      <4>2. Kept(o) \subseteq jobs BY <1>2, RemovedHaveEnded
      <4> QED BY <1>2, <4>1, <4>2 DEF Start, TypeOK
    <3>2. CASE Drops BY <1>2, <3>2 DEF Drops, Sweep, RefuseStart, TypeOK
    <3>3. CASE Disposes
      BY <1>2, <3>3 DEF Disposes, BeginDispose, CancelNext, EndWait, ReleaseNext, EndDispose,
                        TypeOK
    <3>4. CASE \E j \in Job : Runner(j) \/ Cancel(j) \/ SignalCancel(j)
      BY <1>2, <3>4, WorkSteps DEF Works, TypeOK
    <3>5. CASE \E j \in Job : Expire(j) BY <1>2, <3>5 DEF Expire, TypeOK
    <3>6. CASE Reads \/ UNCHANGED vars BY <1>2, <3>6, ReadsWriteNothing DEF vars, TypeOK
    <3> QED BY <1>2, <3>1, <3>2, <3>3, <3>4, <3>5, <3>6, NextCases
  <2>2. /\ disposed' \in BOOLEAN
        /\ shutdown' \in [at : {"none", "cancel", "release", "done"},
                          rest : SUBSET Job, remaining : SUBSET Job]
    <3>1. CASE BeginDispose BY <1>2, <3>1 DEF BeginDispose, TypeOK
    <3>2. CASE CancelNext \/ ReleaseNext
      <4>1. PICK j : shutdown' = [shutdown EXCEPT !.rest = shutdown.rest \ {j}]
                     /\ UNCHANGED disposed
        BY <3>2 DEF CancelNext, ReleaseNext
      <4> QED BY <1>2, <4>1 DEF TypeOK
    <3>3. CASE EndWait BY <1>2, <3>3 DEF EndWait, TypeOK
    <3>4. CASE EndDispose BY <1>2, <3>4 DEF EndDispose, TypeOK
    <3>5. ASSUME UNCHANGED <<disposed, shutdown>> 
          PROVE  /\ disposed' \in BOOLEAN
                 /\ shutdown' \in [at : {"none", "cancel", "release", "done"},
                                   rest : SUBSET Job, remaining : SUBSET Job]
      BY <1>2, <3>5 DEF TypeOK
    <3>6. CASE Begins \/ Drops BY <3>5, <3>6 DEF Begins, Drops, Start, Sweep, RefuseStart
    <3>7. CASE \E j \in Job : Runner(j) \/ Cancel(j) \/ SignalCancel(j)
      BY <1>2, <3>5, <3>7, WorkSteps DEF Works
    <3>8. CASE \E j \in Job : Expire(j) BY <3>5, <3>8 DEF Expire
    <3>9. CASE Reads \/ UNCHANGED vars BY <3>5, <3>9, ReadsWriteNothing DEF vars
    <3> QED BY <1>2, <3>1, <3>2, <3>3, <3>4, <3>6, <3>7, <3>8, <3>9, NextCases DEF Disposes
  <2>3. ASSUME NEW j \in Job, Started(j)
        PROVE  job'[j].run # "none" /\ Len(job[j].events) <= Len(job'[j].events)
               /\ Len(job[j].events) \in Nat /\ Len(job'[j].events) \in Nat
    <3>1. Advance(job[j], job'[j]) BY <2>0, <2>3 DEF JobsAdvance
    <3>2. job[j] \in JobState BY <1>2 DEF TypeOK
    <3> QED BY <2>3, <3>1, <3>2 DEF Advance, Started, JobState
  <2>4. /\ poller' \in [Poller -> Poll]
        /\ \A p \in Poller : poller'[p].at # "off" =>
              /\ poller'[p].on \in Job /\ job'[poller'[p].on].run # "none"
              /\ poller'[p].after <= Len(job'[poller'[p].on].events)
    <3>1. CASE Reads
      <4>0. PICK p \in Poller : \E v : poller' = [poller EXCEPT ![p] = v] /\ Follows(v)
        BY <1>2, <3>1, ReadSteps
      <4>1. PICK v : poller' = [poller EXCEPT ![p] = v] /\ Follows(v) BY <4>0
      <4>2. job' = job BY <3>1, ReadsWriteNothing
      <4>3. poller' \in [Poller -> Poll] /\ poller'[p] = v BY <1>2, <4>1 DEF TypeOK, Follows
      <4>4. \A q \in Poller \ {p} : poller'[q] = poller[q] BY <1>2, <4>1 DEF TypeOK
      <4>5. \A q \in Poller \ {p} : poller[q].at # "off" =>
               /\ poller[q].on \in Job /\ job[poller[q].on].run # "none"
               /\ poller[q].after <= Len(job[poller[q].on].events)
        BY <1>2 DEF TypeOK, Started
      <4> QED BY <4>1, <4>2, <4>3, <4>4, <4>5 DEF Follows, Started
    <3>2. CASE ~Reads
      <4>1. /\ poller' \in [Poller -> Poll]
            /\ \A p \in Poller : /\ poller'[p].at = poller[p].at
                                 /\ poller'[p].on = poller[p].on
                                 /\ poller'[p].after = poller[p].after
        BY <1>2, <3>2, ReadersStay
      <4>2. ASSUME NEW p \in Poller, poller'[p].at # "off"
            PROVE  /\ poller'[p].on \in Job /\ job'[poller'[p].on].run # "none"
                   /\ poller'[p].after <= Len(job'[poller'[p].on].events)
        <5>1. /\ poller[p].on \in Job /\ Started(poller[p].on) /\ poller[p].after \in Nat
              /\ poller[p].after <= Len(job[poller[p].on].events)
          BY <1>2, <4>1, <4>2 DEF TypeOK, Poll
        <5> QED BY <2>3, <4>1, <5>1
      <4> QED BY <4>1, <4>2
    <3> QED BY <3>1, <3>2
  <2> QED BY <2>0, <2>1, <2>2, <2>4 DEF TypeOK, JobsAdvance, Started
<1> QED BY <1>1, <1>2, PTL DEF Spec

-----------------------------------------------------------------------------
(* The end of a job *)

EverySound == \A j \in Job : Sound(job[j])

\* Each step of a job keeps it sound.
LEMMA SoundStep ==
    ASSUME TypeOK, EverySound, [Next]_vars
    PROVE  EverySound'
<1>1. JobsAdvance BY JobSteps
<1> QED BY <1>1 DEF JobsAdvance, EverySound, Advance, Begun

LEMMA JobsAreSound == Spec => []EverySound
<1>1. ASSUME Init PROVE EverySound
  BY <1>1, FreshIsSound DEF Init, EverySound
<1> QED BY <1>1, SoundStep, TypeCorrect, PTL DEF Spec

\* A cancellation source is disposed only when the task of its job is over
\* (RemoveLocked, SweepCompletedLocked, DisposeAsync).
THEOREM SourcesAreReleasedLate == Spec => []NoSourceReleasedInUse
<1>1. EverySound => NoSourceReleasedInUse
  BY DEF EverySound, Sound, Lives, NoSourceReleasedInUse, Done
<1> QED BY <1>1, JobsAreSound, PTL

\* The terminal events a job retains tell its status, whatever was truncated,
\* cancelled or thrown (RetainTerminalEvent, RunAsync).
THEOREM OutcomesAreRetained == Spec => []OutcomeRetained
<1>1. ASSUME EverySound PROVE OutcomeRetained
  <2>1. ASSUME NEW j \in Job, IsTerminal(j)
        PROVE  /\ job[j].status = "succeeded" <=> Has(j, "completed") /\ ~Has(j, "error")
               /\ job[j].status = "failed" <=> Has(j, "error")
               /\ job[j].status = "cancelled" <=> Has(j, "cancelled")
    <3>1. Lives(job[j]) /\ Audits(job[j]) /\ Retains(job[j]) BY <1>1 DEF EverySound, Sound
    <3>2. job[j].run = "done" BY <2>1, <3>1 DEF Lives, IsTerminal
    <3>3. job[j].status = job[j].final BY <3>1, <3>2 DEF Audits
    <3>4. \A e : Has(j, e) <=> HasEvent(job[j], e) BY DEF Has, HasEvent
    <3> QED BY <3>1, <3>2, <3>3, <3>4 DEF Retains
  <2> QED BY <2>1 DEF OutcomeRetained
<1> QED BY <1>1, JobsAreSound, PTL

\* A terminal status is preceded by the audit, which agrees with it (RunAsync).
THEOREM AuditsPrecedeOutcomes == Spec => []AuditPrecedesOutcome
<1>1. EverySound => AuditPrecedesOutcome
  BY DEF EverySound, Sound, Lives, Audits, AuditPrecedesOutcome, IsTerminal
<1> QED BY <1>1, JobsAreSound, PTL

\* A job never retains all three terminal events.
LEMMA FewAreRetained ==
    ASSUME NEW x \in JobState, Retains(x)
    PROVE  Cardinality(x.retained) <= 2
<1>1. x.retained \subseteq {"completed", "error", "cancelled"} BY DEF JobState, TerminalEvent
<1>2. x.retained \subseteq {"completed", "error"} \/ x.retained \subseteq {"cancelled", "completed"}
  <2>1. \A e \in x.retained : HasEvent(x, e) BY DEF Retains
  <2>2. ~(HasEvent(x, "error") /\ HasEvent(x, "cancelled"))
    BY DEF Retains, JobState, TerminalStatus
  <2> QED BY <1>1, <2>1, <2>2
<1>3. ASSUME NEW a, NEW b, x.retained \subseteq {a, b} PROVE Cardinality(x.retained) <= 2
  <2>1. IsFiniteSet({a}) /\ Cardinality({a}) = 1 BY FS_Singleton
  <2>2. {a, b} = {a} \cup {b} OBVIOUS
  <2>3. IsFiniteSet({a, b}) /\ Cardinality({a, b}) <= 2
    BY <2>1, <2>2, FS_AddElement
  <2> QED BY <1>3, <2>3, FS_Subset, FS_CardinalityType
<1> QED BY <1>2, <1>3

\* A job retains its limit of events, one marker and at most two terminal events
\* (Publish, RetainTerminalEvent).
THEOREM EventsAreBounded == Spec => []EventBound
<1>1. ASSUME TypeOK, EverySound PROVE EventBound
  <2>1. ASSUME NEW j \in Job PROVE Len(job[j].events) <= MaxEvents + 3
    <3>1. job[j] \in JobState /\ Retains(job[j]) /\ Bounded(job[j])
      BY <1>1 DEF TypeOK, EverySound, Sound
    <3>2. Cardinality(job[j].retained) \in Nat /\ Cardinality(job[j].retained) <= 2
      BY <3>1, FewAreRetained, RetainedIsFinite
    <3>3. Len(job[j].events) \in Nat /\ MaxEvents \in Nat BY <3>1, JobsAssumption DEF JobState
    <3> QED BY <3>1, <3>2, <3>3 DEF Bounded, Excess
  <2> QED BY <2>1 DEF EventBound
<1> QED BY <1>1, TypeCorrect, JobsAreSound, PTL

\* The status and the events of a job that has ended stay what they are: Cancel
\* comes too late and RunAsync is done.
THEOREM OutcomesAreFinal == Spec => OutcomeIsFinal
<1>1. ASSUME TypeOK, EverySound, [Next]_vars
      PROVE  [\A j \in Job : IsTerminal(j) =>
                  job'[j].status = job[j].status /\ job'[j].events = job[j].events]_vars
  <2>1. ASSUME NEW j \in Job, IsTerminal(j)
        PROVE  job'[j].status = job[j].status /\ job'[j].events = job[j].events
    <3>1. Sound(job[j]) /\ Started(j)
      BY <1>1, <2>1 DEF EverySound, Sound, Lives, IsTerminal, Started
    <3>2. JobsAdvance BY <1>1, JobSteps
    <3>3. Advance(job[j], job'[j]) BY <3>1, <3>2 DEF JobsAdvance
    <3> QED BY <2>1, <3>1, <3>3 DEF Advance, IsTerminal
  <2> QED BY <2>1
<1> QED BY <1>1, TypeCorrect, JobsAreSound, PTL DEF Spec, OutcomeIsFinal

-----------------------------------------------------------------------------
(* The registry and the shutdown *)

\* The dictionary holds every job that runs until the shutdown takes them over,
\* which then signals each of them.
Runs(j) == Started(j) /\ ~Done(j)
Registered ==
    /\ \A j \in jobs : Started(j)
    /\ shutdown.at = "none" <=> ~disposed
    /\ ~disposed => \A j \in Job : Runs(j) => j \in jobs
    /\ disposed => jobs = {}
    /\ shutdown.at = "cancel" =>
          \A j \in Job : Runs(j) => job[j].cancelled \/ j \in shutdown.rest
    /\ shutdown.at \in {"release", "done"} => \A j \in Job : Runs(j) => job[j].cancelled

\* A job that is not started goes on running, cancelled as it was, or ends.
LEMMA RunsOn ==
    ASSUME TypeOK, [Next]_vars, NEW j \in Job, Started(j)
    PROVE  /\ Started(j)'
           /\ Runs(j)' => Runs(j)
           /\ job[j].cancelled => job'[j].cancelled
           /\ job'[j].owner = job[j].owner
<1>1. Advance(job[j], job'[j]) BY JobSteps DEF JobsAdvance
<1> QED BY <1>1 DEF Advance, Started, Done, Runs

\* Without a start nothing new runs.
LEMMA NothingStarts ==
    ASSUME TypeOK, [Next]_vars, ~Begins, NEW j \in Job, Runs(j)'
    PROVE  Runs(j) /\ (job[j].cancelled => job'[j].cancelled)
<1>1. Advance(job[j], job'[j]) BY JobSteps DEF JobsAdvance, Begins
<1> QED BY <1>1 DEF Advance, Started, Done, Runs

\* What the registry drops has ended.
LEMMA DroppedHaveEnded ==
    ASSUME TypeOK, EverySound, NEW o
    PROVE  /\ \A k \in jobs \ Kept(o) : Done(k)
           /\ \A k \in Expired : Done(k)
  BY RemovedHaveEnded DEF EverySound, Sound, Lives, Done, IsTerminal, TypeOK

LEMMA RegisteredStep ==
    ASSUME TypeOK, EverySound, Registered, [Next]_vars
    PROVE  Registered'
<1>1. \A k \in Job : Started(k) => Started(k)' BY RunsOn
<1>2. CASE Begins
  <2>1. PICK j \in Job, o \in Owner \cup {Anonymous} : Start(j, o) BY <1>2 DEF Begins
  <2>2. /\ ~disposed /\ jobs' = Kept(o) \cup {j} /\ UNCHANGED <<disposed, shutdown>>
    BY <2>1 DEF Start
  <2>3. Started(j)' BY <2>1, StartSteps DEF Begun, Started
  <2>4. Kept(o) \subseteq jobs BY RemovedHaveEnded
  <2>5. \A k \in jobs' : Started(k)' BY <1>1, <2>2, <2>3, <2>4 DEF Registered, TypeOK
  <2>6. ASSUME NEW k \in Job, Runs(k)', k # j PROVE k \in jobs'
    <3>1. Advance(job[k], job'[k]) BY <2>1, <2>6, StartSteps
    <3>2. Runs(k) BY <2>6, <3>1 DEF Advance, Runs, Started, Done
    <3>3. k \in jobs BY <2>2, <3>2 DEF Registered
    <3>4. k \in Kept(o) BY <3>2, <3>3, DroppedHaveEnded DEF Runs
    <3> QED BY <2>2, <3>4
  <2>7. \A k \in Job : Runs(k)' => k \in jobs' BY <2>2, <2>6
  <2> QED BY <2>2, <2>5, <2>7 DEF Registered
<1>3. CASE ~Begins
  <2>0. \A k \in Job : Runs(k)' => Runs(k) /\ (job[k].cancelled => job'[k].cancelled)
    BY <1>3, NothingStarts
  <2>1. CASE Drops
    <3>1. jobs' = jobs \ Expired /\ UNCHANGED <<disposed, shutdown>>
      BY <2>1 DEF Drops, Sweep, RefuseStart
    <3>2. \A k \in Job : Runs(k)' => k \notin Expired
      BY <2>0, DroppedHaveEnded DEF Runs
    <3>3. \A k \in jobs' : Started(k)' BY <1>1, <3>1 DEF Registered, TypeOK
    <3>4. /\ ~disposed' => \A k \in Job : Runs(k)' => k \in jobs'
          /\ disposed' => jobs' = {}
      BY <2>0, <3>1, <3>2 DEF Registered
    <3> QED BY <2>0, <3>1, <3>3, <3>4 DEF Registered
  <2>2. ASSUME UNCHANGED <<jobs, disposed, shutdown>> PROVE Registered'
    <3>1. \A k \in jobs' : Started(k)' BY <1>1, <2>2 DEF Registered, TypeOK
    <3>2. ~disposed' => \A k \in Job : Runs(k)' => k \in jobs'
      BY <2>0, <2>2 DEF Registered
    <3>3. /\ shutdown'.at = "cancel" =>
                \A k \in Job : Runs(k)' => job'[k].cancelled \/ k \in shutdown'.rest
          /\ shutdown'.at \in {"release", "done"} =>
                \A k \in Job : Runs(k)' => job'[k].cancelled
      BY <2>0, <2>2 DEF Registered
    <3> QED BY <2>2, <3>1, <3>2, <3>3 DEF Registered
  <2>3. CASE \E j \in Job : Runner(j) \/ Cancel(j) \/ SignalCancel(j)
    BY <2>2, <2>3, WorkSteps DEF Works
  <2>4. CASE \E j \in Job : Expire(j) BY <2>2, <2>4 DEF Expire
  <2>5. CASE Reads \/ UNCHANGED vars BY <2>2, <2>5, ReadsWriteNothing DEF vars
  <2>6. CASE BeginDispose
    <3>1. /\ ~disposed /\ disposed' = TRUE /\ jobs' = {}
          /\ shutdown'.at = "cancel" /\ shutdown'.rest = jobs
      BY <2>6 DEF BeginDispose
    <3>2. \A k \in Job : Runs(k)' => k \in shutdown'.rest BY <2>0, <3>1 DEF Registered
    <3> QED BY <3>1, <3>2 DEF Registered
  <2>7. CASE CancelNext
    <3>1. PICK j \in shutdown.rest :
             /\ \/ ~job[j].released /\ job' = [job EXCEPT ![j].cancelled = TRUE]
                \/ job[j].released
             /\ shutdown' = [shutdown EXCEPT !.rest = shutdown.rest \ {j}]
      BY <2>7 DEF CancelNext
    <3>2. shutdown.at = "cancel" /\ UNCHANGED <<jobs, disposed>> BY <2>7 DEF CancelNext
    <3>3. j \in Job /\ shutdown'.at = "cancel" /\ shutdown'.rest = shutdown.rest \ {j}
      BY <3>1, <3>2 DEF TypeOK
    <3>4. Runs(j)' => job'[j].cancelled
      <4>1. CASE job' = [job EXCEPT ![j].cancelled = TRUE]
        <5>1. job[j] \in JobState /\ job \in [Job -> JobState] BY <3>3 DEF TypeOK
        <5>2. job'[j].cancelled BY <3>3, <4>1, <5>1 DEF JobState
        <5> QED BY <5>2
      <4>2. CASE job[j].released
        <5>1. ~Runs(j) BY <3>3, <4>2 DEF EverySound, Sound, Lives, Runs, Done
        <5> QED BY <2>0, <3>3, <5>1
      <4> QED BY <3>1, <4>1, <4>2
    <3>5. \A k \in Job : Runs(k)' => job'[k].cancelled \/ k \in shutdown'.rest
      BY <2>0, <3>2, <3>3, <3>4 DEF Registered
    <3>6. disposed' /\ jobs' = {} BY <3>2 DEF Registered, TypeOK
    <3> QED BY <3>3, <3>5, <3>6 DEF Registered
  <2>8. CASE EndWait
    <3>1. shutdown.at = "cancel" /\ shutdown.rest = {} /\ shutdown'.at = "release"
          /\ UNCHANGED <<jobs, job, disposed>>
      BY <2>8 DEF EndWait, TypeOK
    <3>2. \A k \in Job : Runs(k)' => job'[k].cancelled BY <2>0, <3>1 DEF Registered
    <3>3. disposed' /\ jobs' = {} BY <3>1 DEF Registered, TypeOK
    <3> QED BY <3>1, <3>2, <3>3 DEF Registered
  <2>9. CASE ReleaseNext \/ EndDispose
    <3>1. shutdown.at = "release" /\ shutdown'.at \in {"release", "done"}
          /\ UNCHANGED <<jobs, disposed>>
      BY <2>9 DEF ReleaseNext, EndDispose, TypeOK
    <3>2. \A k \in Job : Runs(k)' => job'[k].cancelled BY <2>0, <3>1 DEF Registered
    <3>3. disposed' /\ jobs' = {} BY <3>1 DEF Registered, TypeOK
    <3> QED BY <3>1, <3>2, <3>3 DEF Registered
  <2> QED BY <1>3, <2>1, <2>3, <2>4, <2>5, <2>6, <2>7, <2>8, <2>9, NextCases DEF Disposes
<1> QED BY <1>2, <1>3

\* A job runs unseen by the shutdown in no state.
LEMMA RegistryIsRight == Spec => []Registered
<1>1. ASSUME Init PROVE Registered
  BY <1>1 DEF Init, Registered, Runs, Started, Fresh
<1> QED BY <1>1, RegisteredStep, TypeCorrect, JobsAreSound, PTL DEF Spec

\* Every job that outlives the shutdown's signals is cancelled (Start,
\* DisposeAsync).
THEOREM ShutdownReachesJobs == Spec => []ShutdownReachesEveryJob
<1>1. Registered => ShutdownReachesEveryJob
  BY DEF Registered, Runs, ShutdownReachesEveryJob
<1> QED BY <1>1, RegistryIsRight, PTL

\* A start evicts the results of its own owner only, and ended ones (Start,
\* OldestCompleted).
THEOREM EvictionIsOwn == Spec => OnlyOwnResultsEvicted
<1>1. ASSUME TypeOK, EverySound, Registered, [Next]_vars
      PROVE  [\A j \in jobs \ jobs' :
                 ~disposed' =>
                    /\ IsTerminal(j)
                    /\ job[j].expired \/ \E k \in jobs' \ jobs : job'[k].owner = job[j].owner]_vars
  <2>1. ASSUME NEW j \in jobs \ jobs', ~disposed'
        PROVE  /\ IsTerminal(j)
               /\ job[j].expired \/ \E k \in jobs' \ jobs : job'[k].owner = job[j].owner
    <3>0. j \in Job /\ (Done(j) <=> IsTerminal(j))
      BY <1>1 DEF TypeOK, EverySound, Sound, Lives, Done, IsTerminal
    <3>1. CASE Begins
      <4>1. PICK i \in Job, o \in Owner \cup {Anonymous} : Start(i, o) BY <3>1 DEF Begins
      <4>2. jobs' = Kept(o) \cup {i} BY <4>1 DEF Start
      <4>3. ~Started(i) /\ job'[i].owner = o BY <1>1, <4>1, StartSteps DEF Begun
      <4>4. i \in jobs' \ jobs BY <1>1, <4>2, <4>3 DEF Registered
      <4>5. j \in jobs \ Kept(o) BY <4>2
      <4>6. Done(j) /\ (job[j].expired \/ job[j].owner = o)
        BY <1>1, <4>5, RemovedHaveEnded, DroppedHaveEnded
      <4> QED BY <3>0, <4>3, <4>4, <4>6
    <3>2. CASE Drops
      <4>1. j \in Expired BY <2>1, <3>2 DEF Drops, Sweep, RefuseStart
      <4> QED BY <1>1, <3>0, <4>1, RemovedHaveEnded, DroppedHaveEnded
    <3>3. CASE Disposes
      BY <1>1, <2>1, <3>3
         DEF Disposes, BeginDispose, CancelNext, EndWait, ReleaseNext, EndDispose
    <3>4. CASE \E k \in Job : Runner(k) \/ Cancel(k) \/ SignalCancel(k)
      BY <1>1, <2>1, <3>4, WorkSteps DEF Works
    <3>5. CASE \E k \in Job : Expire(k) BY <2>1, <3>5 DEF Expire
    <3>6. CASE Reads \/ UNCHANGED vars BY <2>1, <3>6, ReadsWriteNothing DEF vars
    <3> QED BY <1>1, <3>1, <3>2, <3>3, <3>4, <3>5, <3>6, NextCases
  <2> QED BY <2>1
<1> QED BY <1>1, TypeCorrect, JobsAreSound, RegistryIsRight, PTL DEF Spec, OnlyOwnResultsEvicted

-----------------------------------------------------------------------------
(* The limits *)

\* The jobs of an owner after a start.
LEMMA StartOwns ==
    ASSUME TypeOK, Registered, NEW j \in Job, NEW o \in Owner \cup {Anonymous}, Start(j, o),
           NEW u
    PROVE  OwnedBy(jobs, u)' = OwnedBy(Kept(o), u) \cup (IF u = o THEN {j} ELSE {})
<1>1. jobs' = Kept(o) \cup {j} /\ Kept(o) \subseteq jobs /\ jobs \subseteq Job
  BY RemovedHaveEnded DEF Start, TypeOK
<1>2. job'[j].owner = o BY StartSteps DEF Begun
<1>3. j \notin Kept(o) BY <1>1, StartSteps DEF Registered
<1>4. \A k \in Kept(o) : job'[k].owner = job[k].owner BY <1>1, <1>3, StartSteps DEF Advance
<1> QED BY <1>1, <1>2, <1>4 DEF OwnedBy

\* The limits hold: a start looks for room after its eviction (Start).
LEMMA CapacityStep ==
    ASSUME TypeOK, Registered, CapacityBound, [Next]_vars
    PROVE  CapacityBound'
<1>0. /\ IsFiniteSet(jobs) /\ \A u : IsFiniteSet(OwnedBy(jobs, u))
      /\ MaxJobs \in Nat /\ OwnerLimit \in Nat
  <2>1. IsFiniteSet(jobs) BY JobsAssumption, FS_Subset DEF TypeOK
  <2>2. \A u : OwnedBy(jobs, u) \subseteq jobs BY DEF OwnedBy
  <2> QED BY <2>1, <2>2, FS_Subset, JobsAssumption DEF OwnerLimit
<1>1. CASE Begins
  <2>1. PICK j \in Job, o \in Owner \cup {Anonymous} : Start(j, o) BY <1>1 DEF Begins
  <2>2. jobs' = Kept(o) \cup {j} /\ Kept(o) \subseteq jobs /\ ~Full(Kept(o), o)
    BY <2>1, RemovedHaveEnded DEF Start
  <2>3. IsFiniteSet(Kept(o)) /\ \A u : IsFiniteSet(OwnedBy(Kept(o), u))
    <3>1. \A u : OwnedBy(Kept(o), u) \subseteq Kept(o) BY DEF OwnedBy
    <3> QED BY <1>0, <2>2, <3>1, FS_Subset
  <2>4. ASSUME NEW S, IsFiniteSet(S), NEW n \in Nat, ~(Cardinality(S) >= n)
        PROVE  Cardinality(S \cup {j}) <= n
    <3>1. Cardinality(S) \in Nat BY <2>4, FS_CardinalityType
    <3>2. Cardinality(S \cup {j}) \in {Cardinality(S), Cardinality(S) + 1}
      BY <2>4, FS_AddElement
    <3> QED BY <2>4, <3>1, <3>2
  <2>5. Cardinality(jobs') <= MaxJobs BY <1>0, <2>2, <2>3, <2>4 DEF Full
  <2>6. ASSUME NEW u \in Owner PROVE Cardinality(OwnedBy(jobs, u)') <= OwnerLimit
    <3>1. OwnedBy(jobs, u)' = OwnedBy(Kept(o), u) \cup (IF u = o THEN {j} ELSE {})
      BY <2>1, StartOwns
    <3>2. CASE u = o
      <4>1. o # Anonymous BY <3>2, JobsAssumption
      <4>2. ~(Cardinality(OwnedBy(Kept(o), o)) >= OwnerLimit) BY <2>2, <4>1 DEF Full
      <4>3. OwnedBy(jobs, u)' = OwnedBy(Kept(o), o) \cup {j} BY <3>1, <3>2
      <4> HIDE DEF OwnerLimit
      <4> QED BY <1>0, <2>3, <2>4, <4>2, <4>3
    <3>3. CASE u # o
      <4>1. OwnedBy(jobs, u)' = OwnedBy(Kept(o), u) BY <3>1, <3>3
      <4>2. OwnedBy(Kept(o), u) \subseteq OwnedBy(jobs, u) BY <2>2 DEF OwnedBy
      <4>3. Cardinality(OwnedBy(Kept(o), u)) <= Cardinality(OwnedBy(jobs, u))
            /\ Cardinality(OwnedBy(Kept(o), u)) \in Nat /\ Cardinality(OwnedBy(jobs, u)) \in Nat
        BY <1>0, <2>3, <4>2, FS_Subset, FS_CardinalityType
      <4>4. Cardinality(OwnedBy(jobs, u)) <= OwnerLimit BY DEF CapacityBound
      <4> QED BY <1>0, <4>1, <4>3, <4>4
    <3> QED BY <3>2, <3>3
  <2> QED BY <2>5, <2>6 DEF CapacityBound
<1>2. CASE ~Begins
  <2>1. jobs' \subseteq jobs
    <3>1. CASE Drops BY <3>1 DEF Drops, Sweep, RefuseStart
    <3>2. CASE Disposes
      BY <3>2 DEF Disposes, BeginDispose, CancelNext, EndWait, ReleaseNext, EndDispose
    <3>3. CASE \E k \in Job : Runner(k) \/ Cancel(k) \/ SignalCancel(k)
      BY <3>3, WorkSteps DEF Works
    <3>4. CASE \E k \in Job : Expire(k) BY <3>4 DEF Expire
    <3>5. CASE Reads \/ UNCHANGED vars BY <3>5, ReadsWriteNothing DEF vars
    <3> QED BY <1>2, <3>1, <3>2, <3>3, <3>4, <3>5, NextCases
  <2>2. \A k \in jobs : job'[k].owner = job[k].owner BY RunsOn DEF Registered, TypeOK
  <2>3. \A u : OwnedBy(jobs, u)' \subseteq OwnedBy(jobs, u) BY <2>1, <2>2 DEF OwnedBy
  <2>4. ASSUME NEW S, IsFiniteSet(S), NEW T, T \subseteq S, NEW n \in Nat, Cardinality(S) <= n
        PROVE  Cardinality(T) <= n
    <3>1. /\ Cardinality(T) <= Cardinality(S) /\ IsFiniteSet(T)
      BY <2>4, FS_Subset
    <3>2. Cardinality(S) \in Nat /\ Cardinality(T) \in Nat BY <2>4, <3>1, FS_CardinalityType
    <3> QED BY <2>4, <3>1, <3>2
  <2>5. Cardinality(jobs') <= MaxJobs BY <1>0, <2>1, <2>4 DEF CapacityBound
  <2>6. \A u \in Owner : Cardinality(OwnedBy(jobs, u)') <= OwnerLimit
    BY <1>0, <2>3, <2>4 DEF CapacityBound
  <2> QED BY <2>5, <2>6 DEF CapacityBound
<1> QED BY <1>1, <1>2

\* MaxQueryJobs and MaxQueryJobsPerOwner are never exceeded (Start).
THEOREM CapacityIsBounded == Spec => []CapacityBound
<1>1. ASSUME Init PROVE CapacityBound
  <2>1. jobs = {} /\ \A u : OwnedBy(jobs, u) = {} BY <1>1 DEF Init, OwnedBy
  <2>2. MaxJobs \in Nat /\ OwnerLimit \in Nat BY JobsAssumption DEF OwnerLimit
  <2>3. Cardinality({}) = 0 BY FS_EmptySet
  <2> QED BY <2>1, <2>2, <2>3 DEF CapacityBound
<1> QED BY <1>1, CapacityStep, TypeCorrect, RegistryIsRight, PTL DEF Spec

-----------------------------------------------------------------------------
(* The wait for an event *)

\* Only the runner's and the cancellation's steps give a reader something to see,
\* and they notify it.
LEMMA WakeupStep ==
    ASSUME TypeOK, EverySound, NoLostWakeup, [Next]_vars
    PROVE  NoLostWakeup'
<1> DEFINE Waits(p) == poller[p].at = "waiting" /\ ~poller[p].woken
           Vain(p) == /\ poller[p].after = Len(job[poller[p].on].events)
                      /\ ~IsTerminal(poller[p].on)
<1>1. ASSUME NEW p \in Poller, Waits(p)
      PROVE  Vain(p) /\ poller[p].on \in Job /\ Started(poller[p].on)
  BY <1>1 DEF NoLostWakeup, TypeOK
<1>2. ASSUME UNCHANGED poller,
             \A k \in Job : Started(k) => /\ job'[k].events = job[k].events
                                          /\ IsTerminal(k)' => IsTerminal(k)
      PROVE  NoLostWakeup'
  <2>1. ASSUME NEW p \in Poller, Waits(p)'
        PROVE  /\ (poller[p].after)' = Len(job'[(poller[p].on)'].events)
               /\ ~IsTerminal(poller[p].on)'
    <3>1. Waits(p) /\ poller'[p] = poller[p] BY <1>2, <2>1
    <3>2. Vain(p) /\ poller[p].on \in Job /\ Started(poller[p].on) BY <1>1, <3>1
    <3>3. /\ job'[poller[p].on].events = job[poller[p].on].events
          /\ job'[poller[p].on].status \notin TerminalStatus
      BY <1>2, <3>2 DEF IsTerminal
    <3> QED BY <3>1, <3>2, <3>3 DEF IsTerminal
  <2> QED BY <2>1 DEF NoLostWakeup
<1>3. ASSUME NEW S, job' = Release(S), UNCHANGED poller PROVE NoLostWakeup'
  <2>1. ASSUME NEW k \in Job
        PROVE  job'[k].events = job[k].events /\ job'[k].status = job[k].status
    <3>1. job[k] \in JobState BY DEF TypeOK
    <3>2. job'[k] = job[k] \/ job'[k] = [job[k] EXCEPT !.released = TRUE]
      BY <1>3, ReleaseWrites
    <3> QED BY <3>1, <3>2 DEF JobState
  <2> QED BY <1>2, <1>3, <2>1 DEF IsTerminal
<1>4. CASE Begins
  <2>1. PICK j \in Job, o \in Owner \cup {Anonymous} : Start(j, o) BY <1>4 DEF Begins
  <2> DEFINE S == jobs \ Kept(o)
  <2>2. /\ ~Started(j) /\ UNCHANGED poller
        /\ job' = [Release(S) EXCEPT ![j] = [Fresh(o) EXCEPT !.run = "stream"]]
    BY <2>1 DEF Start
  <2>3. ASSUME NEW k \in Job, Started(k)
        PROVE  job'[k].events = job[k].events /\ job'[k].status = job[k].status
    <3>1. job[k] \in JobState BY DEF TypeOK
    <3>2. job'[k] = Release(S)[k] BY <2>2, <2>3, ReleaseWrites
    <3>3. Release(S)[k] = job[k] \/ Release(S)[k] = [job[k] EXCEPT !.released = TRUE]
      BY ReleaseWrites
    <3> HIDE DEF S
    <3> QED BY <3>1, <3>2, <3>3 DEF JobState
  <2> QED BY <1>2, <2>2, <2>3 DEF IsTerminal
<1>5. CASE Drops BY <1>3, <1>5 DEF Drops, Sweep, RefuseStart
<1>6. ASSUME NEW k \in Job, UNCHANGED poller,
             \/ job' = [job EXCEPT ![k].cancelled = TRUE]
             \/ job' = [job EXCEPT ![k].expired = TRUE]
      PROVE  NoLostWakeup'
  <2>1. ASSUME NEW i \in Job
        PROVE  job'[i].events = job[i].events /\ job'[i].status = job[i].status
    <3>1. job[i] \in JobState /\ job \in [Job -> JobState] BY DEF TypeOK
    <3>2. CASE job' = [job EXCEPT ![k].cancelled = TRUE] BY <3>1, <3>2 DEF JobState
    <3>3. CASE job' = [job EXCEPT ![k].expired = TRUE] BY <3>1, <3>3 DEF JobState
    <3> QED BY <1>6, <3>2, <3>3
  <2> QED BY <1>2, <1>6, <2>1 DEF IsTerminal
<1>7. CASE \E j \in Job : Expire(j) BY <1>6, <1>7 DEF Expire
<1>8. CASE Disposes
  <2>1. CASE CancelNext
    <3>1. PICK j \in shutdown.rest :
             \/ job' = [job EXCEPT ![j].cancelled = TRUE]
             \/ UNCHANGED job
      BY <2>1 DEF CancelNext
    <3>2. j \in Job /\ UNCHANGED poller BY <2>1 DEF CancelNext, TypeOK
    <3> QED BY <1>2, <1>6, <3>1, <3>2 DEF IsTerminal
  <2>2. CASE ReleaseNext
    <3>1. PICK j \in shutdown.rest : job' = Release({j}) \/ UNCHANGED job
      BY <2>2 DEF ReleaseNext
    <3>2. UNCHANGED poller BY <2>2 DEF ReleaseNext
    <3> QED BY <1>2, <1>3, <3>1, <3>2 DEF IsTerminal
  <2>3. CASE BeginDispose \/ EndWait \/ EndDispose
    BY <1>2, <2>3 DEF BeginDispose, EndWait, EndDispose, IsTerminal
  <2> QED BY <1>8, <2>1, <2>2, <2>3 DEF Disposes
<1>9. CASE UNCHANGED vars BY <1>2, <1>9 DEF vars, IsTerminal
<1>10. CASE Reads
  <2>1. PICK p \in Poller : \E v : /\ poller' = [poller EXCEPT ![p] = v]
                                   /\ Follows(v) /\ (v.at = "waiting" => WaitsInVain(v))
    BY <1>10, ReadSteps
  <2>2. PICK v : /\ poller' = [poller EXCEPT ![p] = v]
                 /\ Follows(v) /\ (v.at = "waiting" => WaitsInVain(v))
    BY <2>1
  <2>3. job' = job BY <1>10, ReadsWriteNothing
  <2>4. poller'[p] = v /\ \A q \in Poller \ {p} : poller'[q] = poller[q]
    BY <2>2 DEF TypeOK
  <2>5. ASSUME NEW q \in Poller, Waits(q)'
        PROVE  /\ (poller[q].after)' = Len(job'[(poller[q].on)'].events)
               /\ ~IsTerminal(poller[q].on)'
    <3>1. CASE q = p BY <2>2, <2>3, <2>4, <2>5, <3>1 DEF WaitsInVain, IsTerminal
    <3>2. CASE q # p BY <1>1, <2>3, <2>4, <2>5, <3>2 DEF IsTerminal
    <3> QED BY <3>1, <3>2
  <2> QED BY <2>5 DEF NoLostWakeup
<1>11. CASE \E j \in Job : Runner(j) \/ Cancel(j) \/ SignalCancel(j)
  <2>1. PICK j \in Job : Works(j) BY <1>11, WorkSteps
  <2>2. PICK y : /\ job' = [job EXCEPT ![j] = y]
                 /\ \/ Notify(j)
                    \/ /\ UNCHANGED poller /\ y.events = job[j].events
                       /\ y.status \in TerminalStatus => job[j].status \in TerminalStatus
    BY <2>1 DEF Works
  <2>3. job'[j] = y /\ \A k \in Job \ {j} : job'[k] = job[k] BY <2>2 DEF TypeOK
  <2>4. CASE Notify(j)
    <3>1. ASSUME NEW p \in Poller, Waits(p)'
          PROVE  /\ (poller[p].after)' = Len(job'[(poller[p].on)'].events)
                 /\ ~IsTerminal(poller[p].on)'
      <4>1. /\ poller'[p].at = poller[p].at
            /\ poller[p].at = "waiting" /\ poller[p].on = j => poller'[p].woken
            /\ poller[p].on # j => poller'[p] = poller[p]
        BY <2>4, NotifyWrites
      <4>2. poller'[p] = poller[p] /\ poller[p].on # j BY <3>1, <4>1
      <4>3. Vain(p) /\ poller[p].on \in Job \ {j} BY <1>1, <3>1, <4>2
      <4> QED BY <2>3, <4>2, <4>3 DEF IsTerminal
    <3> QED BY <3>1 DEF NoLostWakeup
  <2>5. CASE UNCHANGED poller /\ y.events = job[j].events
             /\ (y.status \in TerminalStatus => job[j].status \in TerminalStatus)
    BY <1>2, <2>3, <2>5 DEF IsTerminal
  <2> QED BY <2>2, <2>4, <2>5
<1> QED BY <1>4, <1>5, <1>7, <1>8, <1>9, <1>10, <1>11, NextCases

\* A reader that waits, unnotified, has missed nothing (GetAsync, Publish,
\* NotifyLocked).
THEOREM NoWakeupIsLost == Spec => []NoLostWakeup
<1>1. ASSUME Init PROVE NoLostWakeup BY <1>1 DEF Init, NoPoll, NoLostWakeup
<1> QED BY <1>1, WakeupStep, TypeCorrect, JobsAreSound, PTL DEF Spec

-----------------------------------------------------------------------------
(* The manager implements the service that its browsers rely on *)

\* The status of a job as a browser sees it.
Seen(x) == IF x.run # "none" THEN x.status ELSE "none"

\* What a browser may see of a step of one job.
Told(x, y) ==
    \/ y.events = x.events /\ Seen(y) = Seen(x)
    \/ /\ Seen(x) \in Service!Live /\ Seen(y) = Seen(x)
       /\ \E b \in Service!Burst : y.events = x.events \o b
    \/ Seen(x) = "running" /\ Seen(y) = "cancelling" /\ y.events = x.events
    \/ /\ Seen(x) \in Service!Live /\ Seen(y) \in Service!Ended
       /\ Service!Tells(x.events, Seen(y)) /\ y.events = x.events

\* A published event comes alone, after the marker, or not at all, where only the
\* marker may be left of it.
LEMMA PublishedBurst ==
    ASSUME NEW x \in JobState, NEW e \in Event, NEW fits \in BOOLEAN
    PROVE  \/ Published(x, e, fits).events = x.events
           \/ \E b \in Service!Burst : Published(x, e, fits).events = x.events \o b
<1> DEFINE m == Append1(x, "omitted")
           t == Truncate(x)
<1>1. x.events \in Seq(Event) BY DEF JobState
<1>2. "omitted" \in Event BY DEF Event
<1>3. \A d \in Event : Append(x.events, d) = x.events \o <<d>> BY <1>1
<1>4. \A d \in Event : <<d>> \in Service!Burst /\ <<"omitted", d>> \in Service!Burst
  BY DEF Service!Burst
<1>5. \A d \in Event : Append1(x, d).events = x.events \o <<d>>
  BY <1>3 DEF Append1, JobState
<1>6. t \in JobState /\ t.events = x.events \o <<"omitted">>
  <2>1. m \in JobState /\ m.events = x.events \o <<"omitted">>
    BY <1>2, <1>5, AppendedEvent
  <2> HIDE DEF m
  <2>2. [m EXCEPT !.truncated = TRUE] \in JobState /\ [m EXCEPT !.truncated = TRUE].events = m.events
    BY <2>1 DEF JobState
  <2> QED BY <2>1, <2>2 DEF Truncate, m
<1>7. ASSUME NEW z \in JobState
      PROVE  Retain(z, e).events \in {z.events, z.events \o <<e>>}
  <2>1. z.events \in Seq(Event) /\ Append(z.events, e) = z.events \o <<e>> BY DEF JobState
  <2>2. e \in TerminalEvent \ z.retained => Retain(z, e).events = Append(z.events, e)
    BY DEF Retain, JobState
  <2>3. e \notin TerminalEvent \ z.retained => Retain(z, e).events = z.events BY DEF Retain
  <2> QED BY <2>1, <2>2, <2>3
<1>8. (x.events \o <<"omitted">>) \o <<e>> = x.events \o <<"omitted", e>>
  BY <1>1, <1>2
<1> HIDE DEF t, m
<1>9. Retain(t, e).events \in {x.events \o <<"omitted">>, x.events \o <<"omitted", e>>}
  BY <1>6, <1>7, <1>8
<1>10. Retain(x, e).events \in {x.events, x.events \o <<e>>} BY <1>7
<1>11. \/ Published(x, e, fits) = x
       \/ Published(x, e, fits) = Append1(x, e)
       \/ Published(x, e, fits) = Retain(x, e)
       \/ Published(x, e, fits) = Retain(t, e)
  BY DEF Published, t
<1> QED BY <1>2, <1>4, <1>5, <1>9, <1>10, <1>11

\* A job whose stream goes on is told to run; publishing adds a burst and tells
\* nothing else.
LEMMA PublishTells ==
    ASSUME TypeOK, EverySound, NEW j \in Job, NEW e, NEW run, NEW saw, NEW final,
           job[j].run = "stream", PublishMode(job[j], e, run, saw, final),
           Publish(j, e, run, saw, final)
    PROVE  Told(job[j], job'[j])
<1>1. job[j] \in JobState /\ job \in [Job -> JobState] BY DEF TypeOK
<1>2. PICK fits \in Fits :
         job' = [job EXCEPT ![j] = Stamped(Published(job[j], e, fits), run, saw, final)]
  BY Zenon DEF Publish, Stamped
<1>3. fits \in BOOLEAN BY JobsAssumption
<1> DEFINE x == Published(job[j], e, fits)
           y == Stamped(x, run, saw, final)
<1>4. e \in Event /\ run \in {"stream", "audit"} /\ saw \in SUBSET {"completed", "error"}
      /\ final \in TerminalStatus
  BY <1>1 DEF PublishMode, Event, TerminalEvent, TerminalStatus, JobState
<1>5. x \in JobState /\ x.status = job[j].status
  <2>1. x \in JobState /\ SameBut(job[j], x) BY <1>1, <1>3, <1>4, PublishedJob
  <2> HIDE DEF x
  <2> QED BY <2>1 DEF SameBut
<1>6. \/ x.events = job[j].events
      \/ \E b \in Service!Burst : x.events = job[j].events \o b
  BY <1>1, <1>3, <1>4, PublishedBurst
<1>7. job'[j] = y BY <1>1, <1>2
<1> HIDE DEF x
<1>8. y.events = x.events /\ y.status = x.status /\ y.run = run BY <1>4, <1>5, StampedJob DEF Stamped, JobState
<1> HIDE DEF y
<1>9. job[j].status \in Service!Live
  <2>1. job[j].status \notin TerminalStatus BY DEF EverySound, Sound, Lives
  <2> QED BY <1>1, <2>1 DEF JobState, Service!Live
<1>10. Seen(job[j]) = job[j].status /\ Seen(y) = job[j].status
  BY <1>4, <1>5, <1>8 DEF Seen
<1> QED BY <1>6, <1>7, <1>8, <1>9, <1>10 DEF Told

\* The events of a job that is about to end tell its final status.
LEMMA FinalIsTold ==
    ASSUME NEW x \in JobState, Retains(x), x.run = "finish"
    PROVE  x.final \in Service!Ended /\ Service!Tells(x.events, x.final)
<1>1. \A e : Service!Has(x.events, e) <=> HasEvent(x, e) BY DEF Service!Has, HasEvent
<1>2. x.final \in {"succeeded", "failed", "cancelled"} BY DEF JobState, TerminalStatus
<1>3. /\ x.final = "succeeded" <=> HasEvent(x, "completed") /\ ~HasEvent(x, "error")
      /\ x.final = "failed" <=> HasEvent(x, "error")
      /\ x.final = "cancelled" <=> HasEvent(x, "cancelled")
  BY DEF Retains
<1> QED BY <1>1, <1>2, <1>3 DEF Service!Ended, Service!Tells

\* What the runner of a job and those who cancel it let a browser see.
LEMMA WorkTells ==
    ASSUME TypeOK, EverySound, NEW j \in Job, Runner(j) \/ Cancel(j) \/ SignalCancel(j)
    PROVE  Told(job[j], job'[j])
<1> DEFINE x == job[j]
<1>0. x \in JobState /\ job \in [Job -> JobState] BY DEF TypeOK
<1>1. ASSUME NEW e \in Emits, ProviderEvent(j, e) PROVE Told(x, job'[j])
  <2>1. PublishMode(x, e, "stream", x.saw \cup ({e} \cap {"completed", "error"}), "failed")
    BY <1>1 DEF ProviderEvent, PublishMode
  <2> QED BY <1>1, <2>1, PublishTells DEF ProviderEvent
<1>2. CASE EndCancelled(j)
  <2>1. PublishMode(x, "cancelled", "audit", {}, "cancelled")
    BY <1>2 DEF EndCancelled, PublishMode
  <2> QED BY <1>2, <2>1, PublishTells DEF EndCancelled
<1>3. CASE Fail(j)
  <2>1. PublishMode(x, "error", "audit", x.saw, "failed") BY DEF PublishMode
  <2> QED BY <1>3, <2>1, PublishTells DEF Fail
<1>4. CASE EndOfStream(j)
  <2>1. /\ x.run = "stream" /\ job'[j].run = "audit"
        /\ job'[j].events = x.events /\ job'[j].status = x.status
    BY <1>0, <1>4 DEF EndOfStream, JobState
  <2> QED BY <2>1 DEF Told, Seen
<1>5. CASE Audit(j)
  <2>1. /\ x.run = "audit" /\ job'[j].run = "finish"
        /\ job'[j].events = x.events /\ job'[j].status = x.status
    BY <1>0, <1>5 DEF Audit, JobState
  <2> QED BY <2>1 DEF Told, Seen
<1>6. CASE Finish(j)
  <2>1. /\ x.run = "finish" /\ job'[j].run = "done"
        /\ job'[j].events = x.events /\ job'[j].status = x.final
    BY <1>0, <1>6 DEF Finish, JobState
  <2>2. x.status \in Service!Live
    BY <1>0, <2>1 DEF EverySound, Sound, Lives, JobState, Service!Live
  <2>3. x.final \in Service!Ended /\ Service!Tells(x.events, x.final)
    BY <1>0, <2>1, FinalIsTold DEF EverySound, Sound
  <2> QED BY <2>1, <2>2, <2>3 DEF Told, Seen
<1>7. CASE Cancel(j)
  <2>1. /\ x.run # "none" /\ job'[j].run = x.run
        /\ job'[j].events = x.events /\ job'[j].status = "cancelling"
    BY <1>0, <1>7 DEF Cancel, Started, JobState
  <2>2. x.status = "running"
    BY <1>0, <1>7 DEF Cancel, IsTerminal, JobState
  <2> QED BY <2>1, <2>2 DEF Told, Seen
<1>8. CASE SignalCancel(j)
  <2>1. job'[j].run = x.run /\ job'[j].events = x.events /\ job'[j].status = x.status
    BY <1>0, <1>8 DEF SignalCancel, JobState
  <2> QED BY <2>1 DEF Told, Seen
<1> QED BY <1>1, <1>2, <1>3, <1>4, <1>5, <1>6, <1>7, <1>8 DEF Runner, StreamEnds

\* A job that has not begun has published nothing.
Unbegun == \A j \in Job : ~Started(j) => job[j].events = <<>>

\* What a step leaves of a job that it neither starts nor works on.
Untouched(x, y) == y.events = x.events /\ y.status = x.status /\ y.run = x.run

LEMMA ReleaseTellsNothing ==
    ASSUME TypeOK, NEW S, NEW k \in Job
    PROVE  Untouched(job[k], Release(S)[k])
<1>1. job[k] \in JobState BY DEF TypeOK
<1>2. Release(S)[k] = job[k] \/ Release(S)[k] = [job[k] EXCEPT !.released = TRUE]
  BY ReleaseWrites
<1> QED BY <1>1, <1>2 DEF Untouched, JobState

\* Releasing sources, signalling them and the passing of time is not seen.
LEMMA OthersTellNothing ==
    ASSUME TypeOK, [Next]_vars, ~Begins,
           ~\E j \in Job : Runner(j) \/ Cancel(j) \/ SignalCancel(j)
    PROVE  \A k \in Job : Untouched(job[k], job'[k])
<1>0. job \in [Job -> JobState] BY DEF TypeOK
<1>1. ASSUME NEW S, NEW k \in Job, job' = Release(S) PROVE Untouched(job[k], job'[k])
  BY <1>1, ReleaseTellsNothing
<1>2. ASSUME UNCHANGED job, NEW k \in Job PROVE Untouched(job[k], job'[k])
  BY <1>2 DEF Untouched
<1>3. CASE Drops
  <2>1. job' = Release(Expired) BY <1>3 DEF Drops, Sweep, RefuseStart
  <2> QED BY <1>1, <2>1
<1>4. CASE \E j \in Job : Expire(j)
  <2>1. PICK j \in Job : job' = [job EXCEPT ![j].expired = TRUE] BY <1>4 DEF Expire
  <2> QED BY <1>0, <2>1 DEF Untouched, JobState
<1>5. CASE CancelNext
  <2>1. PICK j \in shutdown.rest : job' = [job EXCEPT ![j].cancelled = TRUE] \/ UNCHANGED job
    BY <1>5 DEF CancelNext
  <2>2. j \in Job /\ job[j] \in JobState BY <1>0 DEF TypeOK
  <2>3. CASE job' = [job EXCEPT ![j].cancelled = TRUE]
    BY <1>0, <2>2, <2>3 DEF Untouched, JobState
  <2> QED BY <1>2, <2>1, <2>3
<1>6. CASE ReleaseNext
  <2>1. PICK j \in shutdown.rest : job' = Release({j}) \/ UNCHANGED job
    BY <1>6 DEF ReleaseNext
  <2> QED BY <1>1, <1>2, <2>1
<1>7. CASE BeginDispose \/ EndWait \/ EndDispose \/ Reads \/ UNCHANGED vars
  BY <1>2, <1>7, ReadsWriteNothing DEF BeginDispose, EndWait, EndDispose, vars
<1> QED BY <1>3, <1>4, <1>5, <1>6, <1>7, NextCases DEF Disposes

LEMMA UnbegunStep ==
    ASSUME TypeOK, Unbegun, [Next]_vars
    PROVE  Unbegun'
<1>1. ASSUME NEW k \in Job, ~Started(k)' PROVE job'[k].events = <<>>
  <2>0. job[k] \in JobState /\ job \in [Job -> JobState] BY DEF TypeOK
  <2>1. CASE Begins
    <3>1. PICK j \in Job, o \in Owner \cup {Anonymous} : Start(j, o) BY <2>1 DEF Begins
    <3>2. CASE k = j BY <3>1, <3>2, StartSteps DEF Begun
    <3>3. CASE k # j
      <4>1. job'[k] = Release(jobs \ Kept(o))[k]
        BY <2>0, <3>1, <3>3, ReleaseWrites DEF Start
      <4>2. job'[k].events = job[k].events /\ job'[k].run = job[k].run
        BY <4>1, ReleaseTellsNothing DEF Untouched
      <4> QED BY <1>1, <4>2 DEF Unbegun, Started
    <3> QED BY <3>2, <3>3
  <2>2. CASE \E j \in Job : Runner(j) \/ Cancel(j) \/ SignalCancel(j)
    <3>1. PICK j \in Job : Runner(j) \/ Cancel(j) \/ SignalCancel(j) BY <2>2
    <3>2. PICK y : Advance(job[j], y) /\ job' = [job EXCEPT ![j] = y]
      BY <3>1, WorkSteps DEF Works
    <3>3. CASE k # j BY <1>1, <2>0, <3>2, <3>3 DEF Unbegun, Started
    <3>4. CASE k = j
      <4>1. ~Started(j) BY <1>1, <2>0, <3>2, <3>4 DEF Advance, Started
      <4>2. SignalCancel(j)
        BY <3>1, <4>1 DEF Started, Runner, ProviderEvent, StreamEnds, EndOfStream, EndCancelled,
                          Fail, Audit, Finish, Cancel
      <4>3. job'[j].events = job[j].events
        BY <2>0, <3>4, <4>2 DEF SignalCancel, JobState
      <4> QED BY <3>4, <4>1, <4>3 DEF Unbegun
    <3> QED BY <3>3, <3>4
  <2>3. CASE ~Begins /\ ~\E j \in Job : Runner(j) \/ Cancel(j) \/ SignalCancel(j)
    BY <1>1, <2>3, OthersTellNothing DEF Unbegun, Untouched, Started
  <2> QED BY <2>1, <2>2, <2>3
<1> QED BY <1>1 DEF Unbegun

LEMMA NothingBeforeTheStart == Spec => []Unbegun
<1>1. ASSUME Init PROVE Unbegun BY <1>1 DEF Init, Unbegun, Fresh
<1> QED BY <1>1, UnbegunStep, TypeCorrect, PTL DEF Spec

\* The functions that JobService has in place of the jobs.
SeenStatus == [j \in Job |-> IF Started(j) THEN job[j].status ELSE "none"]
SeenEvents == [j \in Job |-> job[j].events]

\* A step that is seen of one job at most.
LEMMA OneIsTold ==
    ASSUME NEW j \in Job, Told(job[j], job'[j]),
           \A k \in Job \ {j} : Untouched(job[k], job'[k]),
           UNCHANGED <<jobs, disposed>>
    PROVE  [Service!Next]_Service!vars
<1>1. \A k \in Job : SeenStatus[k] = Seen(job[k]) /\ SeenStatus'[k] = Seen(job'[k])
  BY DEF SeenStatus, Seen, Started
<1>2. \A k \in Job : SeenEvents[k] = job[k].events /\ SeenEvents'[k] = job'[k].events
  BY DEF SeenEvents
<1>3. \A k \in Job \ {j} : SeenStatus'[k] = SeenStatus[k] /\ SeenEvents'[k] = SeenEvents[k]
  BY <1>1, <1>2 DEF Untouched, Seen
<1>4. SeenStatus' = [SeenStatus EXCEPT ![j] = SeenStatus'[j]] BY <1>3 DEF SeenStatus
<1>5. SeenEvents' = [SeenEvents EXCEPT ![j] = SeenEvents'[j]] BY <1>3 DEF SeenEvents
<1>6. SeenStatus'[j] = SeenStatus[j] => SeenStatus' = SeenStatus BY <1>4 DEF SeenStatus
<1>7. SeenEvents'[j] = SeenEvents[j] => SeenEvents' = SeenEvents BY <1>5 DEF SeenEvents
<1>8. CASE job'[j].events = job[j].events /\ Seen(job'[j]) = Seen(job[j])
  <2>1. UNCHANGED <<jobs, SeenStatus, SeenEvents, disposed>> BY <1>1, <1>2, <1>6, <1>7, <1>8
  <2> QED BY <2>1 DEF Service!vars, SeenStatus, SeenEvents
<1>9. ASSUME Seen(job[j]) \in Service!Live, Seen(job'[j]) = Seen(job[j]),
             NEW b \in Service!Burst, job'[j].events = job[j].events \o b
      PROVE  Service!Publish(j, b)
  <2>1. SeenStatus[j] \in Service!Live /\ SeenStatus' = SeenStatus BY <1>1, <1>6, <1>9
  <2>2. SeenEvents' = [SeenEvents EXCEPT ![j] = SeenEvents[j] \o b] BY <1>2, <1>5, <1>9
  <2> QED BY <2>1, <2>2 DEF Service!Publish, SeenStatus, SeenEvents
<1>10. ASSUME Seen(job[j]) = "running", Seen(job'[j]) = "cancelling",
              job'[j].events = job[j].events
       PROVE  Service!RequestCancel(j)
  <2>1. SeenStatus[j] = "running" /\ SeenStatus' = [SeenStatus EXCEPT ![j] = "cancelling"]
    BY <1>1, <1>4, <1>10
  <2>2. SeenEvents' = SeenEvents BY <1>2, <1>7, <1>10
  <2> QED BY <2>1, <2>2 DEF Service!RequestCancel, SeenStatus, SeenEvents
<1>11. ASSUME Seen(job[j]) \in Service!Live, NEW s \in Service!Ended, Seen(job'[j]) = s,
              Service!Tells(job[j].events, s), job'[j].events = job[j].events
       PROVE  Service!End(j, s)
  <2>1. SeenStatus[j] \in Service!Live /\ SeenStatus' = [SeenStatus EXCEPT ![j] = s]
    BY <1>1, <1>4, <1>11
  <2>2. SeenEvents' = SeenEvents /\ Service!Tells(SeenEvents[j], s) BY <1>2, <1>7, <1>11
  <2> QED BY <2>1, <2>2 DEF Service!End, SeenStatus, SeenEvents
<1> QED BY <1>8, <1>9, <1>10, <1>11 DEF Told, Service!Next

\* A step that nothing is seen of but what the registry drops.
LEMMA DropsAreForgotten ==
    ASSUME \A k \in Job : Untouched(job[k], job'[k]),
           jobs' \subseteq jobs, jobs \subseteq Job,
           \A k \in jobs \ jobs' : Started(k) /\ IsTerminal(k),
           UNCHANGED disposed
    PROVE  [Service!Next]_Service!vars
<1>1. SeenStatus' = SeenStatus /\ SeenEvents' = SeenEvents
  BY DEF SeenStatus, SeenEvents, Untouched, Started
<1>2. CASE jobs' = jobs BY <1>1, <1>2 DEF Service!vars, SeenStatus, SeenEvents
<1>3. CASE jobs' # jobs
  <2>1. jobs \ jobs' \in (SUBSET Service!Forgettable) \ {{}}
    BY <1>3 DEF Service!Forgettable, Service!Ended, IsTerminal, TerminalStatus
  <2>2. jobs' = jobs \ (jobs \ jobs') OBVIOUS
  <2>3. Service!Forget BY <1>1, <2>1, <2>2 DEF Service!Forget, SeenStatus, SeenEvents
  <2> QED BY <2>3 DEF Service!Next
<1> QED BY <1>2, <1>3

LEMMA StartIsTold ==
    ASSUME TypeOK, EverySound, Registered, Unbegun,
           NEW j \in Job, NEW o \in Owner \cup {Anonymous}, Start(j, o)
    PROVE  Service!Start(j)
<1>1. job \in [Job -> JobState] /\ ~Started(j) /\ job[j].events = <<>>
  BY StartSteps DEF TypeOK, Unbegun
<1>2. /\ job'[j].run = "stream" /\ job'[j].status = "running" /\ job'[j].events = <<>>
      /\ \A k \in Job \ {j} : job'[k] = Release(jobs \ Kept(o))[k]
  <2> DEFINE f == [Fresh(o) EXCEPT !.run = "stream"]
  <2>1. f.run = "stream" /\ f.status = "running" /\ f.events = <<>> BY DEF Fresh
  <2> HIDE DEF f
  <2>2. job' = [Release(jobs \ Kept(o)) EXCEPT ![j] = f] BY DEF Start, f
  <2> QED BY <2>1, <2>2, ReleaseWrites
<1>3. \A k \in Job \ {j} : Untouched(job[k], job'[k])
  BY <1>2, ReleaseTellsNothing
<1>4. SeenEvents' = SeenEvents BY <1>1, <1>2, <1>3 DEF SeenEvents, Untouched
<1>5. SeenStatus[j] = "none" BY <1>1 DEF SeenStatus
<1>6. SeenStatus' = [SeenStatus EXCEPT ![j] = "running"]
  BY <1>2, <1>3 DEF SeenStatus, Untouched, Started
<1>7. jobs \ Kept(o) \in SUBSET Service!Forgettable
  <2>1. ASSUME NEW k \in jobs \ Kept(o) PROVE Started(k) /\ IsTerminal(k)
    BY DroppedHaveEnded DEF TypeOK, EverySound, Sound, Lives, Done, Started, IsTerminal
  <2> QED BY <2>1 DEF Service!Forgettable, Service!Ended, IsTerminal, TerminalStatus, TypeOK
<1>8. jobs' = (jobs \ (jobs \ Kept(o))) \cup {j} /\ ~disposed /\ UNCHANGED disposed
  BY RemovedHaveEnded DEF Start
<1> QED BY <1>4, <1>5, <1>6, <1>7, <1>8 DEF Service!Start, SeenStatus, SeenEvents

\* Every step of the manager is one of the service, or is not seen.
LEMMA StepsAreTold ==
    ASSUME TypeOK, EverySound, Registered, Unbegun, [Next]_vars
    PROVE  [Service!Next]_Service!vars
<1>0. job \in [Job -> JobState] /\ jobs \subseteq Job BY DEF TypeOK
<1>1. CASE Begins
  <2>1. PICK j \in Job, o \in Owner \cup {Anonymous} : Start(j, o) BY <1>1 DEF Begins
  <2> QED BY <2>1, StartIsTold DEF Service!Next
<1>2. CASE \E j \in Job : Runner(j) \/ Cancel(j) \/ SignalCancel(j)
  <2>1. PICK j \in Job : Runner(j) \/ Cancel(j) \/ SignalCancel(j) BY <1>2
  <2>2. PICK y : job' = [job EXCEPT ![j] = y] /\ UNCHANGED <<jobs, disposed>>
    BY <2>1, WorkSteps DEF Works
  <2>3. \A k \in Job \ {j} : Untouched(job[k], job'[k]) BY <1>0, <2>2 DEF Untouched
  <2> QED BY <2>1, <2>2, <2>3, WorkTells, OneIsTold
<1>3. CASE ~Begins /\ ~\E j \in Job : Runner(j) \/ Cancel(j) \/ SignalCancel(j)
  <2>1. \A k \in Job : Untouched(job[k], job'[k]) BY <1>3, OthersTellNothing
  <2>2. CASE BeginDispose
    <3>1. SeenStatus' = SeenStatus /\ SeenEvents' = SeenEvents
      BY <2>1 DEF SeenStatus, SeenEvents, Untouched, Started
    <3>2. Service!Shutdown
      BY <2>2, <3>1 DEF BeginDispose, Service!Shutdown, SeenStatus, SeenEvents
    <3> QED BY <3>2 DEF Service!Next
  <2>3. CASE Drops
    <3>1. jobs' = jobs \ Expired /\ UNCHANGED disposed
      BY <2>3 DEF Drops, Sweep, RefuseStart
    <3>2. \A k \in Expired : Started(k) /\ IsTerminal(k)
      BY DroppedHaveEnded DEF Expired, TypeOK, EverySound, Sound, Lives, Done, Started, IsTerminal
    <3> QED BY <1>0, <2>1, <3>1, <3>2, DropsAreForgotten
  <2>4. CASE UNCHANGED <<jobs, disposed>>
    BY <1>0, <2>1, <2>4, DropsAreForgotten
  <2>5. UNCHANGED <<jobs, disposed>> \/ BeginDispose \/ Drops
    BY <1>3, NextCases, ReadsWriteNothing
       DEF Disposes, CancelNext, EndWait, ReleaseNext, EndDispose, Expire, vars
  <2> QED BY <2>2, <2>3, <2>4, <2>5
<1> QED BY <1>1, <1>2, <1>3

\* The manager of background jobs implements JobService, the service its browsers
\* rely on (GridletQueryJobManager).
THEOREM ImplementsTheService == Spec => ImplementsJobService
<1>1. ASSUME Init PROVE Service!Init
  BY <1>1 DEF Init, Service!Init, Started, Fresh
<1> QED
  BY <1>1, StepsAreTold, TypeCorrect, JobsAreSound, RegistryIsRight, NothingBeforeTheStart, PTL
     DEF Spec, ImplementsJobService, Service!Spec
=============================================================================
