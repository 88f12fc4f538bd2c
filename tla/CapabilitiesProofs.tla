-------------------------- MODULE CapabilitiesProofs --------------------------
(***************************************************************************)
(* Proofs about Capabilities, for any number of calls, statuses and facts. *)
(* CapsInv says, call by call, which tool may be at which await, what an   *)
(* update may target, which rows a call may have written by then, and what *)
(* it must have written; with TypeOK it is inductive.  LastInv, at the     *)
(* end, follows an application's status against its last event.            *)
(***************************************************************************)
EXTENDS Capabilities, TLAPS

\* The events of each application and the writers of each fact, as sets.
EventSets == [a \in Calls |-> EventsOf(a)]
WriterSets == [k \in Keys |-> Writers(k)]

Event == [by : Calls, status : Statuses]

LogsNew == {"adding_job", "creating", "logging"}
UpdatesOld == {"adding_event", "setting_status"}

\* Which tool is at which await, and that a write tool gets there approved.
StageInv(c) ==
  /\ pc[c] = "asked" => tool[c] \in WriteIntents
  /\ pc[c] \in LogsNew \cup UpdatesOld \cup {"looking_up"} => tool[c] = "application_track"
  /\ pc[c] = "saving" => tool[c] = "profile_save"
  /\ pc[c] \in {"decomposing", "storing"} => tool[c] = "resume_store"
  /\ pc[c] \in {"extracting", "capturing"} => tool[c] = "job_capture"
  /\ pc[c] \in {"listing", "answering"} => tool[c] \notin WriteIntents
  /\ tool[c] \in WriteIntents /\ pc[c] \in Body \cup {"done", "nothing", "broken"}
       => c \in approved

\* What an update targets: an application whose logging is over.
TargetInv(c) ==
  /\ target[c] \in Calls =>
       /\ tool[c] = "application_track" /\ target[c] # c
       /\ pc[target[c]] = "done" /\ status[target[c]] # "none"
  /\ pc[c] = "looking_up" => target[c] # NoApplication
  /\ pc[c] \in UpdatesOld => target[c] \in Calls
  /\ pc[c] \in LogsNew => target[c] \notin Calls
  /\ tool[c] = "application_track" => wanted[c] \in Statuses

\* Which rows a call may have written.
EventInv(a, e) ==
  /\ tool[e.by] = "application_track"
  /\ \/ a = e.by /\ target[a] \notin Calls /\ pc[a] \in {"done", "broken"}
     \/ a = target[e.by] /\ pc[e.by] \in {"setting_status", "done", "broken"}

RowsInv(c) ==
  /\ status[c] # "none" =>
       /\ tool[c] = "application_track" /\ target[c] \notin Calls
       /\ pc[c] \in {"logging", "done", "broken"}
  /\ \A e \in EventSets[c] : EventInv(c, e)
  /\ \A k \in Keys : c \in WriterSets[k] =>
       tool[c] = "profile_save" /\ k \in facts[c] /\ pc[c] \in {"saving", "done", "broken"}
  /\ left[c] \subseteq facts[c]
  /\ c \in creds => tool[c] = "resume_store" /\ pc[c] \in {"done", "broken"}
  /\ c \in jobs =>
       \/ tool[c] = "job_capture" /\ pc[c] \in {"done", "broken"}
       \/ /\ tool[c] = "application_track" /\ target[c] \notin Calls
          /\ pc[c] \in {"creating", "logging", "done", "broken"}

\* Which rows it must have written.
Updated(c) ==
  \/ pc[c] = "setting_status"
  \/ pc[c] = "done" /\ tool[c] = "application_track" /\ target[c] \in Calls
LoggedNew(c) ==
  pc[c] = "done" /\ tool[c] = "application_track" /\ target[c] \notin Calls
EventBy(c) == [by |-> c, status |-> wanted[c]]

DoneInv(c) ==
  /\ Updated(c) => EventBy(c) \in EventSets[target[c]]
  /\ pc[c] \in {"creating", "logging"} \/ LoggedNew(c) => c \in jobs
  /\ pc[c] = "logging" \/ LoggedNew(c) => status[c] # "none"
  /\ LoggedNew(c) => EventBy(c) \in EventSets[c]
  /\ tool[c] = "profile_save" /\ pc[c] \in {"asked", "saving", "done"} =>
       \A k \in facts[c] : k \in left[c] \/ c \in WriterSets[k]
  /\ tool[c] = "profile_save" /\ pc[c] = "done" => left[c] = {}
  /\ tool[c] = "resume_store" /\ pc[c] = "done" => c \in creds
  /\ tool[c] = "job_capture" /\ pc[c] = "done" => c \in jobs

HistoryInv(a) ==
  status[a] # "none" =>
    status[a] = wanted[a] \/ \E e \in EventSets[a] : e.status = status[a]

CapsInv == \A c \in Calls :
  StageInv(c) /\ TargetInv(c) /\ RowsInv(c) /\ DoneInv(c) /\ HistoryInv(c)

-----------------------------------------------------------------------------
\* What appending to a sequence does to the set of its elements.
LEMMA AppendElements ==
  ASSUME NEW S, NEW s \in Seq(S), NEW x
  PROVE  {Append(s, x)[i] : i \in DOMAIN Append(s, x)} = {s[i] : i \in DOMAIN s} \cup {x}
  OBVIOUS

\* The elements of a sequence over S are in S.
LEMMA ElementsIn ==
  ASSUME NEW S, NEW s \in Seq(S)
  PROVE  {s[i] : i \in DOMAIN s} \subseteq S
  OBVIOUS

\* Appending to one sequence of a family keeps its type.
LEMMA AppendTo ==
  ASSUME NEW D, NEW S, NEW f \in [D -> Seq(S)], NEW d, NEW x \in S
  PROVE  [f EXCEPT ![d] = Append(@, x)] \in [D -> Seq(S)]
<1>1. d \in D => Append(f[d], x) \in Seq(S)
  OBVIOUS
<1> QED
  BY <1>1

\* Nothing has been called and nothing is written.
LEMMA InitInv == Init => TypeOK /\ CapsInv
<1> SUFFICES ASSUME Init PROVE TypeOK /\ CapsInv
  OBVIOUS
<1> USE CapabilitiesAssumption DEF Init
<1>1. TypeOK
  BY DEF TypeOK
<1>2. /\ \A a \in Calls : EventSets[a] = {}
      /\ \A k \in Keys : WriterSets[k] = {}
  BY DEF EventSets, EventsOf, WriterSets, Writers
<1>3. CapsInv
  BY <1>2 DEF CapsInv, StageInv, TargetInv, RowsInv, DoneInv, HistoryInv, LogsNew,
       UpdatesOld, Updated, LoggedNew, WriteIntents, Body
<1> QED
  BY <1>1, <1>3

\* Every step keeps the types.
LEMMA TypeStep == TypeOK /\ CapsInv /\ [Next]_vars => TypeOK'
<1> SUFFICES ASSUME TypeOK, CapsInv, [Next]_vars PROVE TypeOK'
  OBVIOUS
<1>1. CASE UNCHANGED vars
  BY <1>1 DEF vars, args, rows, TypeOK
<1>2. ASSUME NEW c \in Calls, RequestAny(c) PROVE TypeOK'
  <2>1. ASSUME NEW t \in Tools, NEW a \in Calls \cup {NoApplication, Unknown},
               NEW s \in Statuses \cup {"none"}, NEW f \in SUBSET Keys,
               Request(c, t, a, s, f)
        PROVE  TypeOK'
    <3>1. FirstStep(t, a) \in Body
      BY DEF FirstStep, Body
    <3> QED
      BY <2>1, <3>1 DEF Request, TypeOK, Goto, rows
  <2>2. {} \in SUBSET Keys /\ "application_track" \in Tools /\ "profile_save" \in Tools
    BY DEF Tools
  <2>3. CASE \E a \in {NoApplication, Unknown} \cup Echoed, s \in Statuses :
               Request(c, "application_track", a, s, {})
    BY <2>1, <2>2, <2>3 DEF Echoed
  <2>4. CASE \E f \in SUBSET Keys : Request(c, "profile_save", NoApplication, "none", f)
    BY <2>1, <2>2, <2>4
  <2>5. CASE \E t \in Tools \ {"application_track", "profile_save"} :
               Request(c, t, NoApplication, "none", {})
    BY <2>1, <2>2, <2>5
  <2> QED
    BY <1>2, <2>3, <2>4, <2>5 DEF RequestAny
<1>3. ASSUME NEW c \in Calls, Allow(c) PROVE TypeOK'
  <2>1. FirstStep(tool[c], target[c]) \in Body
    BY DEF FirstStep, Body
  <2> QED
    BY <1>3, <2>1 DEF Allow, TypeOK, Goto, args, rows
<1>4. ASSUME NEW c \in Calls, Refuse(c) PROVE TypeOK'
  BY <1>4 DEF Refuse, TypeOK, Goto, args, rows, Ended
<1>5. ASSUME NEW c \in Calls, BodyStep(c) PROVE TypeOK'
  <2>1. pc[c] \in {"adding_event", "setting_status", "creating", "logging"} =>
          wanted[c] \in Statuses
    BY DEF CapsInv, StageInv, TargetInv, LogsNew, UpdatesOld
  <2>2. pc' \in [Calls -> {"idle", "asked"} \cup Body \cup Ended]
    BY <1>5 DEF TypeOK, BodyStep, Goto, Awaits, LookUp, AddEvent, SetStatus, AddJob,
         Create, Log, SaveNothing, SaveFact, Decompose, AddCredentials, ExtractJob,
         CaptureJob, ListJobs, AnswerRead, Body, Ended
  <2>3. events' \in [Calls -> Seq(Event)]
    <3>1. CASE AddEvent(c)
      <4>1. EventBy(c) \in Event
        BY <2>1, <3>1 DEF AddEvent, Awaits, Goto, EventBy, Event
      <4>2. [events EXCEPT ![target[c]] = Append(@, EventBy(c))]
              \in [Calls -> Seq(Event)]
        <5>1. events \in [Calls -> Seq(Event)]
          BY DEF TypeOK, Event
        <5> QED
          BY <4>1, <5>1, AppendTo
      <4>3. events' \in {events, [events EXCEPT ![target[c]] = Append(@, EventBy(c))]}
        BY <3>1 DEF AddEvent, Awaits, Logged, EventBy
      <4> QED
        BY <4>2, <4>3 DEF TypeOK, Event
    <3>2. CASE Log(c)
      <4>1. EventBy(c) \in Event
        BY <2>1, <3>2 DEF Log, Awaits, Goto, EventBy, Event
      <4>2. [events EXCEPT ![c] = Append(@, EventBy(c))]
              \in [Calls -> Seq(Event)]
        <5>1. events \in [Calls -> Seq(Event)]
          BY DEF TypeOK, Event
        <5> QED
          BY <4>1, <5>1, AppendTo
      <4>3. events' \in {events, [events EXCEPT ![c] = Append(@, EventBy(c))]}
        BY <3>2 DEF Log, Awaits, Logged, EventBy
      <4> QED
        BY <4>2, <4>3 DEF TypeOK, Event
    <3>3. CASE UNCHANGED events
      BY <3>3 DEF TypeOK, Event
    <3> QED
      BY <1>5, <3>1, <3>2, <3>3 DEF BodyStep, LookUp, SetStatus, AddJob, Create,
           SaveNothing, SaveFact, Decompose, AddCredentials, ExtractJob, CaptureJob,
           ListJobs, AnswerRead, rows
  <2>4. status' \in [Calls -> Statuses \cup {"none"}]
    <3>1. CASE SetStatus(c)
      BY <3>1 DEF SetStatus, Awaits, TypeOK
    <3>2. CASE Create(c)
      BY <3>2 DEF Create, Awaits, TypeOK
    <3>3. CASE UNCHANGED status
      BY <3>3 DEF TypeOK
    <3> QED
      BY <1>5, <3>1, <3>2, <3>3 DEF BodyStep, LookUp, AddEvent, AddJob, Log,
           SaveNothing, SaveFact, Decompose, AddCredentials, ExtractJob, CaptureJob,
           ListJobs, AnswerRead, rows
  <2>5. /\ profile' \in [Keys -> Seq(Calls)]
        /\ left' \in [Calls -> SUBSET Keys]
    <3>1. CASE SaveFact(c)
      <4>1. PICK k \in left[c] :
              /\ profile' \in {profile, [profile EXCEPT ![k] = Append(@, c)]}
              /\ left' = [left EXCEPT ![c] = @ \ {k}]
        BY <3>1 DEF SaveFact, Awaits
      <4>2. [profile EXCEPT ![k] = Append(@, c)] \in [Keys -> Seq(Calls)]
        <5>1. profile \in [Keys -> Seq(Calls)]
          BY DEF TypeOK
        <5> QED
          BY <5>1, AppendTo
      <4> QED
        BY <4>1, <4>2 DEF TypeOK
    <3>2. CASE UNCHANGED <<profile, left>>
      BY <3>2 DEF TypeOK
    <3> QED
      BY <1>5, <3>1, <3>2 DEF BodyStep, LookUp, AddEvent, SetStatus, AddJob, Create, Log,
           SaveNothing, Decompose, AddCredentials, ExtractJob, CaptureJob,
           ListJobs, AnswerRead, rows
  <2>6. /\ UNCHANGED <<tool, target, wanted, facts, approved>>
        /\ jobs' \in {jobs, jobs \cup {c}} /\ creds' \in {creds, creds \cup {c}}
        /\ overlapped' \in {overlapped, overlapped \cup {target[c]}}
    BY <1>5 DEF BodyStep, Awaits, LookUp, AddEvent, SetStatus, AddJob,
         Create, Log, SaveNothing, SaveFact, Decompose, AddCredentials, ExtractJob,
         CaptureJob, ListJobs, AnswerRead, args, rows
  <2>7. overlapped' # overlapped => target[c] \in Calls
    <3>1. pc[c] = "adding_event" => target[c] \in Calls
      BY DEF CapsInv, TargetInv, UpdatesOld
    <3> QED
      BY <1>5, <3>1 DEF BodyStep, Awaits, Goto, LookUp, AddEvent, SetStatus, AddJob,
         Create, Log, SaveNothing, SaveFact, Decompose, AddCredentials, ExtractJob,
         CaptureJob, ListJobs, AnswerRead, args, rows
  <2> QED
    BY <2>2, <2>3, <2>4, <2>5, <2>6, <2>7 DEF TypeOK, Event
<1> QED
  BY <1>1, <1>2, <1>3, <1>4, <1>5 DEF Next

-----------------------------------------------------------------------------
\* What the steps change of the rows, as sets.
LEMMA EventsGrow ==
  ASSUME TypeOK, NEW c \in Calls, NEW a \in Calls, wanted[c] \in Statuses, Logged(a, c)
  PROVE  EventSets' = [EventSets EXCEPT ![a] = @ \cup {EventBy(c)}]
<1>1. events \in [Calls -> Seq(Event)] /\ EventBy(c) \in Event
  BY DEF TypeOK, Event, EventBy
<1>2. events' = [events EXCEPT ![a] = Append(events[a], EventBy(c))]
  BY DEF Logged, EventBy
<1>3. events'[a] = Append(events[a], EventBy(c))
  BY <1>1, <1>2
<1>4. \A d \in Calls : d # a => events'[d] = events[d]
  BY <1>1, <1>2
<1>5. EventsOf(a)' = EventsOf(a) \cup {EventBy(c)}
  <2>1. events[a] \in Seq(Event)
    BY <1>1
  <2> QED
    BY <1>3, <2>1, AppendElements DEF EventsOf
<1>6. \A d \in Calls : d # a => EventsOf(d)' = EventsOf(d)
  BY <1>4 DEF EventsOf
<1> QED
  BY <1>5, <1>6 DEF EventSets

\* Saving fact k adds its call to the writers of k.
LEMMA WritersGrow ==
  ASSUME TypeOK, NEW c \in Calls, NEW k \in Keys,
         profile' = [profile EXCEPT ![k] = Append(@, c)]
  PROVE  WriterSets' = [WriterSets EXCEPT ![k] = @ \cup {c}]
<1>1. profile \in [Keys -> Seq(Calls)]
  BY DEF TypeOK
<1>2. profile'[k] = Append(profile[k], c)
  BY <1>1
<1>3. \A h \in Keys : h # k => profile'[h] = profile[h]
  BY <1>1
<1>4. Writers(k)' = Writers(k) \cup {c}
  <2>1. profile[k] \in Seq(Calls)
    BY <1>1
  <2> QED
    BY <1>2, <2>1, AppendElements DEF Writers
<1>5. \A h \in Keys : h # k => Writers(h)' = Writers(h)
  BY <1>3 DEF Writers
<1> QED
  BY <1>4, <1>5 DEF WriterSets

\* The sets change only with the rows.
LEMMA SetsSame ==
  /\ UNCHANGED events => UNCHANGED EventSets
  /\ UNCHANGED profile => UNCHANGED WriterSets
BY DEF EventSets, EventsOf, WriterSets, Writers

\* The types the step lemmas use.
LEMMA Types ==
  ASSUME TypeOK
  PROVE  /\ pc \in [Calls -> {"idle", "asked"} \cup Body \cup Ended]
         /\ status \in [Calls -> Statuses \cup {"none"}]
         /\ left \in [Calls -> SUBSET Keys]
         /\ EventSets \in [Calls -> SUBSET Event]
         /\ WriterSets \in [Keys -> SUBSET Calls]
<1>1. ASSUME NEW a \in Calls PROVE EventsOf(a) \subseteq Event
  <2>1. events[a] \in Seq(Event)
    BY DEF TypeOK, Event
  <2> QED
    BY <2>1, ElementsIn DEF EventsOf
<1>2. ASSUME NEW k \in Keys PROVE Writers(k) \subseteq Calls
  <2>1. profile[k] \in Seq(Calls)
    BY DEF TypeOK
  <2> QED
    BY <2>1, ElementsIn DEF Writers
<1> QED
  BY <1>1, <1>2 DEF TypeOK, EventSets, WriterSets

\* Steps that write no row: a lookup, a model call, a read, an empty batch.
LEMMA QuietStep ==
  ASSUME TypeOK, CapsInv, NEW c \in Calls,
         \/ LookUp(c) \/ SaveNothing(c) \/ Decompose(c)
         \/ ExtractJob(c) \/ ListJobs(c) \/ AnswerRead(c)
  PROVE  CapsInv'
<1>1. /\ pc[c] \in {"looking_up", "saving", "decomposing", "extracting", "listing", "answering"}
      /\ \E to : /\ pc' = [pc EXCEPT ![c] = to]
              /\ \/ to = "broken"
                 \/ pc[c] = "looking_up" /\ target[c] # Unknown /\ to = "adding_event"
                 \/ pc[c] = "looking_up" /\ target[c] = Unknown /\ to = "adding_job"
                 \/ pc[c] \in {"saving", "decomposing", "extracting"} /\ to = "nothing"
                 \/ pc[c] = "decomposing" /\ to = "storing"
                 \/ pc[c] = "extracting" /\ to = "capturing"
                 \/ pc[c] = "listing" /\ to = "answering"
                 \/ pc[c] = "answering" /\ to = "done"
      /\ pc[c] = "saving" /\ pc'[c] = "nothing" => facts[c] = {}
      /\ UNCHANGED <<tool, target, wanted, facts, left, approved, jobs, status, creds>>
      /\ UNCHANGED <<EventSets, WriterSets>>
  BY SetsSame DEF LookUp, SaveNothing, Decompose, ExtractJob, ListJobs, AnswerRead,
     Goto, args, rows
<1>2. /\ tool[c] \in WriteIntents => c \in approved
      /\ pc[c] = "looking_up" =>
           /\ tool[c] = "application_track" /\ target[c] # NoApplication
           /\ IF target[c] = Unknown THEN target[c] \notin Calls ELSE target[c] \in Calls
      /\ pc[c] = "answering" => tool[c] \notin WriteIntents
  <2>1. target[c] \in Calls \cup {NoApplication, Unknown}
    BY DEF TypeOK
  <2> QED
    BY <1>1, <2>1, CapabilitiesAssumption
       DEF CapsInv, StageInv, TargetInv, LogsNew, UpdatesOld, Body
<1>3. /\ pc \in [Calls -> {"idle", "asked"} \cup Body \cup Ended]
      /\ status \in [Calls -> Statuses \cup {"none"}]
      /\ left \in [Calls -> SUBSET Keys]
      /\ EventSets \in [Calls -> SUBSET Event]
      /\ WriterSets \in [Keys -> SUBSET Calls]
  BY Types
<1> SUFFICES ASSUME NEW d \in Calls
             PROVE  (StageInv(d) /\ TargetInv(d) /\ RowsInv(d) /\ DoneInv(d) /\ HistoryInv(d))'
  BY DEF CapsInv
<1>4. StageInv(d)'
  BY <1>1, <1>2, <1>3 DEF CapsInv, StageInv, LogsNew, UpdatesOld, Body
<1>5. TargetInv(d)'
  BY <1>1, <1>2, <1>3 DEF CapsInv, TargetInv, LogsNew, UpdatesOld
<1>6. RowsInv(d)'
  <2>1. ASSUME NEW e \in EventSets[d] PROVE EventInv(d, e)'
    <3>1. e.by \in Calls /\ EventInv(d, e)
      BY Types DEF Event, CapsInv, RowsInv
    <3> QED
      BY <1>1, <1>3, <3>1 DEF EventInv
  <2>2. \A k \in Keys : d \in WriterSets'[k] =>
          /\ tool'[d] = "profile_save" /\ k \in facts'[d]
          /\ pc'[d] \in {"saving", "done", "broken"}
    BY <1>1, <1>2, <1>3 DEF CapsInv, RowsInv
  <2> QED
    BY <1>1, <1>2, <1>3, <2>1, <2>2 DEF CapsInv, RowsInv
<1>7. DoneInv(d)'
  BY <1>1, <1>2, <1>3 DEF CapsInv, DoneInv, Updated, LoggedNew, EventBy,
     WriteIntents
<1>8. HistoryInv(d)'
  BY <1>1, <1>2, <1>3 DEF CapsInv, HistoryInv
<1> QED
  BY <1>4, <1>5, <1>6, <1>7, <1>8

\* The job of a new application.
LEMMA AddJobStep ==
  ASSUME TypeOK, CapsInv, NEW c \in Calls, AddJob(c)
  PROVE  CapsInv'
<1>1. /\ pc[c] = "adding_job"
      /\ \/ /\ pc' = [pc EXCEPT ![c] = "creating"]
            /\ jobs' = jobs \cup {c}
         \/ /\ pc' = [pc EXCEPT ![c] = "broken"]
            /\ jobs' \in {jobs, jobs \cup {c}}
      /\ UNCHANGED <<tool, target, wanted, facts, left, approved, status, creds>>
      /\ UNCHANGED <<EventSets, WriterSets>>
  BY SetsSame DEF AddJob, Awaits, Goto, args
<1>2. /\ tool[c] = "application_track" /\ target[c] \notin Calls /\ c \in approved
      /\ wanted[c] \in Statuses
  BY <1>1, CapabilitiesAssumption DEF CapsInv, StageInv, TargetInv, DoneInv,
     LogsNew, UpdatesOld, WriteIntents, Body
<1>3. /\ pc \in [Calls -> {"idle", "asked"} \cup Body \cup Ended]
      /\ status \in [Calls -> Statuses \cup {"none"}]
      /\ left \in [Calls -> SUBSET Keys]
      /\ EventSets \in [Calls -> SUBSET Event]
      /\ WriterSets \in [Keys -> SUBSET Calls]
  BY Types
<1> SUFFICES ASSUME NEW d \in Calls
             PROVE  (StageInv(d) /\ TargetInv(d) /\ RowsInv(d) /\ DoneInv(d) /\ HistoryInv(d))'
  BY DEF CapsInv
<1>4. StageInv(d)'
  BY <1>1, <1>2, <1>3 DEF CapsInv, StageInv, LogsNew, UpdatesOld, Body
<1>5. TargetInv(d)'
  BY <1>1, <1>2, <1>3 DEF CapsInv, TargetInv, LogsNew, UpdatesOld
<1>6. RowsInv(d)'
  <2>1. ASSUME NEW e \in EventSets[d] PROVE EventInv(d, e)'
    <3>1. e.by \in Calls /\ EventInv(d, e)
      BY Types DEF Event, CapsInv, RowsInv
    <3> QED
      BY <1>1, <1>3, <3>1 DEF EventInv
  <2>2. \A k \in Keys : d \in WriterSets'[k] =>
          /\ tool'[d] = "profile_save" /\ k \in facts'[d]
          /\ pc'[d] \in {"saving", "done", "broken"}
    BY <1>1, <1>2, <1>3 DEF CapsInv, RowsInv
  <2> QED
    BY <1>1, <1>2, <1>3, <2>1, <2>2 DEF CapsInv, RowsInv
<1>7. DoneInv(d)'
  BY <1>1, <1>2, <1>3 DEF CapsInv, DoneInv, Updated, LoggedNew, EventBy
<1>8. HistoryInv(d)'
  BY <1>1, <1>2, <1>3 DEF CapsInv, HistoryInv
<1> QED
  BY <1>4, <1>5, <1>6, <1>7, <1>8

\* The application itself.
LEMMA CreateStep ==
  ASSUME TypeOK, CapsInv, NEW c \in Calls, Create(c)
  PROVE  CapsInv'
<1>1. /\ pc[c] = "creating"
      /\ \/ /\ pc' = [pc EXCEPT ![c] = "logging"]
            /\ status' = [status EXCEPT ![c] = wanted[c]]
         \/ /\ pc' = [pc EXCEPT ![c] = "broken"]
            /\ status' \in {status, [status EXCEPT ![c] = wanted[c]]}
      /\ UNCHANGED <<tool, target, wanted, facts, left, approved, jobs, creds>>
      /\ UNCHANGED <<EventSets, WriterSets>>
  BY SetsSame DEF Create, Awaits, Goto, args
<1>2. /\ tool[c] = "application_track" /\ target[c] \notin Calls /\ c \in approved
      /\ wanted[c] \in Statuses /\ wanted[c] # "none" /\ c \in jobs
  BY <1>1, CapabilitiesAssumption DEF CapsInv, StageInv, TargetInv, DoneInv,
     LogsNew, UpdatesOld, WriteIntents, Body
<1>3. /\ pc \in [Calls -> {"idle", "asked"} \cup Body \cup Ended]
      /\ status \in [Calls -> Statuses \cup {"none"}]
  BY Types
<1> SUFFICES ASSUME NEW d \in Calls
             PROVE  (StageInv(d) /\ TargetInv(d) /\ RowsInv(d) /\ DoneInv(d) /\ HistoryInv(d))'
  BY DEF CapsInv
<1>4. StageInv(d)'
  BY <1>1, <1>2, <1>3 DEF CapsInv, StageInv, LogsNew, UpdatesOld, Body
<1>5. TargetInv(d)'
  BY <1>1, <1>2, <1>3 DEF CapsInv, TargetInv, LogsNew, UpdatesOld
<1>6. RowsInv(d)'
  <2>1. ASSUME NEW e \in EventSets[d] PROVE EventInv(d, e)'
    <3>1. e.by \in Calls /\ EventInv(d, e)
      BY Types DEF Event, CapsInv, RowsInv
    <3> QED
      BY <1>1, <1>3, <3>1 DEF EventInv
  <2>2. \A k \in Keys : d \in WriterSets'[k] =>
          /\ tool'[d] = "profile_save" /\ k \in facts'[d]
          /\ pc'[d] \in {"saving", "done", "broken"}
    BY <1>1, <1>2, <1>3 DEF CapsInv, RowsInv
  <2> QED
    BY <1>1, <1>2, <1>3, <2>1, <2>2 DEF CapsInv, RowsInv
<1>7. DoneInv(d)'
  BY <1>1, <1>2, <1>3 DEF CapsInv, DoneInv, Updated, LoggedNew, EventBy
<1>8. HistoryInv(d)'
  BY <1>1, <1>2, <1>3 DEF CapsInv, HistoryInv
<1> QED
  BY <1>4, <1>5, <1>6, <1>7, <1>8

\* Its first event.
LEMMA LogStep ==
  ASSUME TypeOK, CapsInv, NEW c \in Calls, Log(c)
  PROVE  CapsInv'
<1>0. wanted[c] \in Statuses
  <2>1. pc[c] = "logging"
    BY DEF Log, Awaits, Goto
  <2> QED
    BY <2>1 DEF CapsInv, StageInv, TargetInv, LogsNew, UpdatesOld
<1>1. /\ pc[c] = "logging"
      /\ \/ /\ pc' = [pc EXCEPT ![c] = "done"]
            /\ EventSets' = [EventSets EXCEPT ![c] = @ \cup {EventBy(c)}]
         \/ /\ pc' = [pc EXCEPT ![c] = "broken"]
            /\ EventSets' \in {EventSets, [EventSets EXCEPT ![c] = @ \cup {EventBy(c)}]}
      /\ UNCHANGED <<tool, target, wanted, facts, left, approved, jobs, status, creds>>
      /\ UNCHANGED WriterSets
  BY SetsSame, EventsGrow, <1>0 DEF Log, Awaits, Goto, args
<1>2. /\ tool[c] = "application_track" /\ target[c] \notin Calls /\ c \in approved
      /\ wanted[c] \in Statuses /\ c \in jobs /\ status[c] # "none"
  BY <1>1, CapabilitiesAssumption DEF CapsInv, StageInv, TargetInv, DoneInv,
     LogsNew, UpdatesOld, WriteIntents, Body
<1>3. /\ pc \in [Calls -> {"idle", "asked"} \cup Body \cup Ended]
      /\ status \in [Calls -> Statuses \cup {"none"}]
      /\ left \in [Calls -> SUBSET Keys]
      /\ EventSets \in [Calls -> SUBSET Event]
      /\ WriterSets \in [Keys -> SUBSET Calls]
  BY Types
<1> SUFFICES ASSUME NEW d \in Calls
             PROVE  (StageInv(d) /\ TargetInv(d) /\ RowsInv(d) /\ DoneInv(d) /\ HistoryInv(d))'
  BY DEF CapsInv
<1>4. StageInv(d)'
  BY <1>1, <1>2, <1>3 DEF CapsInv, StageInv, LogsNew, UpdatesOld, Body
<1>5. TargetInv(d)'
  BY <1>1, <1>2, <1>3 DEF CapsInv, TargetInv, LogsNew, UpdatesOld
<1>6. RowsInv(d)'
  <2>1. ASSUME NEW e \in EventSets'[d] PROVE EventInv(d, e)'
    <3>1. CASE e \in EventSets[d]
      <4>1. e.by \in Calls /\ EventInv(d, e)
        BY <3>1, Types DEF Event, CapsInv, RowsInv
      <4> QED
        BY <1>1, <1>3, <4>1 DEF EventInv
    <3>2. CASE e \notin EventSets[d]
      <4>1. d = c /\ e = EventBy(c)
        BY <1>1, <1>3, <3>2
      <4>2. e.by = c
        BY <4>1 DEF EventBy
      <4> QED
        BY <1>1, <1>2, <1>3, <4>1, <4>2 DEF EventInv
    <3> QED
      BY <3>1, <3>2
  <2>2. \A k \in Keys : d \in WriterSets'[k] =>
          /\ tool'[d] = "profile_save" /\ k \in facts'[d]
          /\ pc'[d] \in {"saving", "done", "broken"}
    BY <1>1, <1>2, <1>3 DEF CapsInv, RowsInv
  <2> QED
    BY <1>1, <1>2, <1>3, <2>1, <2>2 DEF CapsInv, RowsInv
<1>7. DoneInv(d)'
  <2>1. \A a \in Calls : EventSets[a] \subseteq EventSets'[a]
    BY <1>1, <1>3
  <2>2. EventBy(d)' = EventBy(d)
    BY <1>1 DEF EventBy
  <2>3. Updated(d)' => EventBy(d)' \in EventSets'[target'[d]]
    BY <1>1, <1>2, <1>3, <2>1, <2>2 DEF CapsInv, DoneInv, TargetInv, UpdatesOld, Updated
  <2>4. LoggedNew(d)' => EventBy(d)' \in EventSets'[d]
    BY <1>1, <1>2, <1>3, <2>1, <2>2 DEF CapsInv, DoneInv, LoggedNew
  <2> QED
    BY <1>1, <1>2, <1>3, <2>3, <2>4 DEF CapsInv, DoneInv, LoggedNew
<1>8. HistoryInv(d)'
  BY <1>1, <1>2, <1>3 DEF CapsInv, HistoryInv
<1> QED
  BY <1>4, <1>5, <1>6, <1>7, <1>8

\* The event of an update.
LEMMA AddEventStep ==
  ASSUME TypeOK, CapsInv, NEW c \in Calls, AddEvent(c)
  PROVE  CapsInv'
<1>0. wanted[c] \in Statuses /\ target[c] \in Calls
  <2>1. pc[c] = "adding_event"
    BY DEF AddEvent, Awaits, Goto
  <2> QED
    BY <2>1 DEF CapsInv, StageInv, TargetInv, LogsNew, UpdatesOld
<1>1. /\ pc[c] = "adding_event"
      /\ \/ /\ pc' = [pc EXCEPT ![c] = "setting_status"]
            /\ EventSets' = [EventSets EXCEPT ![target[c]] = @ \cup {EventBy(c)}]
         \/ /\ pc' = [pc EXCEPT ![c] = "broken"]
            /\ EventSets' \in {EventSets, [EventSets EXCEPT ![target[c]] = @ \cup {EventBy(c)}]}
      /\ UNCHANGED <<tool, target, wanted, facts, left, approved, jobs, status, creds>>
      /\ UNCHANGED WriterSets
  BY SetsSame, EventsGrow, <1>0 DEF AddEvent, Awaits, Goto, args
<1>2. /\ tool[c] = "application_track" /\ target[c] \in Calls /\ c \in approved
      /\ wanted[c] \in Statuses /\ target[c] # c /\ pc[target[c]] = "done"
  BY <1>1, CapabilitiesAssumption DEF CapsInv, StageInv, TargetInv, DoneInv,
     LogsNew, UpdatesOld, WriteIntents, Body
<1>3. /\ pc \in [Calls -> {"idle", "asked"} \cup Body \cup Ended]
      /\ status \in [Calls -> Statuses \cup {"none"}]
      /\ left \in [Calls -> SUBSET Keys]
      /\ EventSets \in [Calls -> SUBSET Event]
      /\ WriterSets \in [Keys -> SUBSET Calls]
  BY Types
<1> SUFFICES ASSUME NEW d \in Calls
             PROVE  (StageInv(d) /\ TargetInv(d) /\ RowsInv(d) /\ DoneInv(d) /\ HistoryInv(d))'
  BY DEF CapsInv
<1>4. StageInv(d)'
  BY <1>1, <1>2, <1>3 DEF CapsInv, StageInv, LogsNew, UpdatesOld, Body
<1>5. TargetInv(d)'
  BY <1>1, <1>2, <1>3 DEF CapsInv, TargetInv, LogsNew, UpdatesOld
<1>6. RowsInv(d)'
  <2>1. ASSUME NEW e \in EventSets'[d] PROVE EventInv(d, e)'
    <3>1. CASE e \in EventSets[d]
      <4>1. e.by \in Calls /\ EventInv(d, e)
        BY <3>1, Types DEF Event, CapsInv, RowsInv
      <4> QED
        BY <1>1, <1>3, <4>1 DEF EventInv
    <3>2. CASE e \notin EventSets[d]
      <4>1. d = target[c] /\ e = EventBy(c)
        BY <1>1, <1>3, <3>2
      <4>2. e.by = c
        BY <4>1 DEF EventBy
      <4> QED
        BY <1>1, <1>2, <1>3, <4>1, <4>2 DEF EventInv
    <3> QED
      BY <3>1, <3>2
  <2>2. \A k \in Keys : d \in WriterSets'[k] =>
          /\ tool'[d] = "profile_save" /\ k \in facts'[d]
          /\ pc'[d] \in {"saving", "done", "broken"}
    BY <1>1, <1>2, <1>3 DEF CapsInv, RowsInv
  <2> QED
    BY <1>1, <1>2, <1>3, <2>1, <2>2 DEF CapsInv, RowsInv
<1>7. DoneInv(d)'
  <2>1. \A a \in Calls : EventSets[a] \subseteq EventSets'[a]
    BY <1>1, <1>3
  <2>2. EventBy(d)' = EventBy(d)
    BY <1>1 DEF EventBy
  <2>3. Updated(d)' => EventBy(d)' \in EventSets'[target'[d]]
    BY <1>1, <1>2, <1>3, <2>1, <2>2 DEF CapsInv, DoneInv, TargetInv, UpdatesOld, Updated
  <2>4. LoggedNew(d)' => EventBy(d)' \in EventSets'[d]
    BY <1>1, <1>2, <1>3, <2>1, <2>2 DEF CapsInv, DoneInv, LoggedNew
  <2> QED
    BY <1>1, <1>2, <1>3, <2>3, <2>4 DEF CapsInv, DoneInv, LoggedNew
<1>8. HistoryInv(d)'
  BY <1>1, <1>2, <1>3 DEF CapsInv, HistoryInv
<1> QED
  BY <1>4, <1>5, <1>6, <1>7, <1>8

\* Its status, which the event before explains.
LEMMA SetStatusStep ==
  ASSUME TypeOK, CapsInv, NEW c \in Calls, SetStatus(c)
  PROVE  CapsInv'
<1>1. /\ pc[c] = "setting_status"
      /\ \/ /\ pc' = [pc EXCEPT ![c] = "done"]
            /\ status' = [status EXCEPT ![target[c]] = wanted[c]]
         \/ /\ pc' = [pc EXCEPT ![c] = "broken"]
            /\ status' \in {status, [status EXCEPT ![target[c]] = wanted[c]]}
      /\ UNCHANGED <<tool, target, wanted, facts, left, approved, jobs, creds>>
      /\ UNCHANGED <<EventSets, WriterSets>>
  BY SetsSame DEF SetStatus, Awaits, Goto, args
<1>2. /\ tool[c] = "application_track" /\ target[c] \in Calls /\ c \in approved
      /\ wanted[c] \in Statuses /\ wanted[c] # "none"
      /\ EventBy(c) \in EventSets[target[c]]
      /\ tool[target[c]] = "application_track" /\ target[target[c]] \notin Calls
      /\ pc[target[c]] = "done"
  BY <1>1, CapabilitiesAssumption DEF CapsInv, StageInv, TargetInv, RowsInv, DoneInv,
     Updated, LogsNew, UpdatesOld, WriteIntents, Body
<1>3. /\ pc \in [Calls -> {"idle", "asked"} \cup Body \cup Ended]
      /\ status \in [Calls -> Statuses \cup {"none"}]
      /\ left \in [Calls -> SUBSET Keys]
      /\ EventSets \in [Calls -> SUBSET Event]
      /\ WriterSets \in [Keys -> SUBSET Calls]
  BY Types
<1> SUFFICES ASSUME NEW d \in Calls
             PROVE  (StageInv(d) /\ TargetInv(d) /\ RowsInv(d) /\ DoneInv(d) /\ HistoryInv(d))'
  BY DEF CapsInv
<1>4. StageInv(d)'
  BY <1>1, <1>2, <1>3 DEF CapsInv, StageInv, LogsNew, UpdatesOld, Body
<1>5. TargetInv(d)'
  BY <1>1, <1>2, <1>3 DEF CapsInv, TargetInv, LogsNew, UpdatesOld
<1>6. RowsInv(d)'
  <2>1. ASSUME NEW e \in EventSets[d] PROVE EventInv(d, e)'
    <3>1. e.by \in Calls /\ EventInv(d, e)
      BY Types DEF Event, CapsInv, RowsInv
    <3> QED
      BY <1>1, <1>3, <3>1 DEF EventInv
  <2>2. \A k \in Keys : d \in WriterSets'[k] =>
          /\ tool'[d] = "profile_save" /\ k \in facts'[d]
          /\ pc'[d] \in {"saving", "done", "broken"}
    BY <1>1, <1>2, <1>3 DEF CapsInv, RowsInv
  <2> QED
    BY <1>1, <1>2, <1>3, <2>1, <2>2 DEF CapsInv, RowsInv
<1>7. DoneInv(d)'
  BY <1>1, <1>2, <1>3 DEF CapsInv, DoneInv, Updated, LoggedNew, EventBy
<1>8. HistoryInv(d)'
  <2>1. EventBy(c).status = wanted[c]
    BY DEF EventBy
  <2> QED
    BY <1>1, <1>2, <1>3, <2>1 DEF CapsInv, HistoryInv
<1> QED
  BY <1>4, <1>5, <1>6, <1>7, <1>8

\* One fact of a batch.
LEMMA SaveFactStep ==
  ASSUME TypeOK, CapsInv, NEW c \in Calls, SaveFact(c)
  PROVE  CapsInv'
<1>1. /\ pc[c] = "saving"
      /\ \E k \in left[c] :
           /\ left' = [left EXCEPT ![c] = @ \ {k}]
           /\ \/ /\ pc' = [pc EXCEPT ![c] = IF left[c] = {k} THEN "done" ELSE "saving"]
                 /\ WriterSets' = [WriterSets EXCEPT ![k] = @ \cup {c}]
              \/ /\ pc' = [pc EXCEPT ![c] = "broken"]
                 /\ WriterSets' \in {WriterSets, [WriterSets EXCEPT ![k] = @ \cup {c}]}
      /\ UNCHANGED <<tool, target, wanted, facts, approved, jobs, status, creds>>
      /\ UNCHANGED EventSets
  <2>1. PICK k \in left[c] :
          /\ Awaits(c, "saving", IF left[c] = {k} THEN "done" ELSE "saving",
                    profile' = [profile EXCEPT ![k] = Append(@, c)], UNCHANGED profile)
          /\ left' = [left EXCEPT ![c] = @ \ {k}]
    BY DEF SaveFact
  <2>2. k \in Keys
    BY Types
  <2>3. profile' = [profile EXCEPT ![k] = Append(@, c)] =>
          WriterSets' = [WriterSets EXCEPT ![k] = @ \cup {c}]
    BY <2>2, WritersGrow
  <2>4. /\ UNCHANGED <<tool, target, wanted, facts, approved, jobs, status, creds>>
        /\ UNCHANGED EventSets
    BY SetsSame DEF SaveFact, args
  <2> QED
    BY <2>1, <2>3, <2>4, SetsSame DEF Awaits, Goto
<1>2. tool[c] = "profile_save" /\ c \in approved
  BY <1>1, CapabilitiesAssumption DEF CapsInv, StageInv, TargetInv, DoneInv,
     LogsNew, UpdatesOld, WriteIntents, Body
<1>3. /\ pc \in [Calls -> {"idle", "asked"} \cup Body \cup Ended]
      /\ status \in [Calls -> Statuses \cup {"none"}]
      /\ left \in [Calls -> SUBSET Keys]
      /\ EventSets \in [Calls -> SUBSET Event]
      /\ WriterSets \in [Keys -> SUBSET Calls]
  BY Types
<1> SUFFICES ASSUME NEW d \in Calls
             PROVE  (StageInv(d) /\ TargetInv(d) /\ RowsInv(d) /\ DoneInv(d) /\ HistoryInv(d))'
  BY DEF CapsInv
<1>4. StageInv(d)'
  BY <1>1, <1>2, <1>3 DEF CapsInv, StageInv, LogsNew, UpdatesOld, Body
<1>5. TargetInv(d)'
  BY <1>1, <1>2, <1>3 DEF CapsInv, TargetInv, LogsNew, UpdatesOld
<1>6. RowsInv(d)'
  <2>1. ASSUME NEW e \in EventSets[d] PROVE EventInv(d, e)'
    <3>1. e.by \in Calls /\ EventInv(d, e)
      BY Types DEF Event, CapsInv, RowsInv
    <3> QED
      BY <1>1, <1>3, <3>1 DEF EventInv
  <2>2. \A k \in Keys : d \in WriterSets'[k] =>
          /\ tool'[d] = "profile_save" /\ k \in facts'[d]
          /\ pc'[d] \in {"saving", "done", "broken"}
    BY <1>1, <1>2, <1>3 DEF CapsInv, RowsInv
  <2> QED
    BY <1>1, <1>2, <1>3, <2>1, <2>2 DEF CapsInv, RowsInv
<1>7. DoneInv(d)'
  <2>1. CASE d # c
    <3>1. \A k \in Keys : WriterSets[k] \subseteq WriterSets'[k]
      BY <1>1, <1>3
    <3>2. left'[d] = left[d] /\ pc'[d] = pc[d] /\ facts[d] \subseteq Keys
      BY <1>1, <1>3, <2>1 DEF TypeOK
    <3> QED
      BY <1>1, <1>2, <1>3, <3>1, <3>2 DEF CapsInv, DoneInv, Updated, LoggedNew, EventBy
  <2>2. CASE d = c
    <3>1. pc'[c] # "broken" => \A k \in facts[c] : k \in left'[c] \/ c \in WriterSets'[k]
      <4>1. \A k \in facts[c] : k \in left[c] \/ c \in WriterSets[k]
        BY <1>1, <1>2 DEF CapsInv, DoneInv
      <4>2. facts[c] \subseteq Keys
        BY DEF TypeOK
      <4> QED
        BY <1>1, <1>3, <4>1, <4>2
    <3>2. pc'[c] = "done" => left'[c] = {}
      BY <1>1, <1>3
    <3>3. pc'[c] \in {"saving", "done", "broken"}
      BY <1>1, <1>3
    <3> QED
      BY <1>1, <1>2, <2>2, <3>1, <3>2, <3>3 DEF DoneInv, Updated, LoggedNew
  <2> QED
    BY <2>1, <2>2
<1>8. HistoryInv(d)'
  BY <1>1, <1>2, <1>3 DEF CapsInv, HistoryInv
<1> QED
  BY <1>4, <1>5, <1>6, <1>7, <1>8

\* The credentials of a resume.
LEMMA AddCredentialsStep ==
  ASSUME TypeOK, CapsInv, NEW c \in Calls, AddCredentials(c)
  PROVE  CapsInv'
<1>1. /\ pc[c] = "storing"
      /\ \/ /\ pc' = [pc EXCEPT ![c] = "done"]
            /\ creds' = creds \cup {c}
         \/ /\ pc' = [pc EXCEPT ![c] = "broken"]
            /\ creds' \in {creds, creds \cup {c}}
      /\ UNCHANGED <<tool, target, wanted, facts, left, approved, jobs, status>>
      /\ UNCHANGED <<EventSets, WriterSets>>
  BY SetsSame DEF AddCredentials, Awaits, Goto, args
<1>2. tool[c] = "resume_store" /\ c \in approved
  BY <1>1, CapabilitiesAssumption DEF CapsInv, StageInv, TargetInv, DoneInv,
     LogsNew, UpdatesOld, WriteIntents, Body
<1>3. /\ pc \in [Calls -> {"idle", "asked"} \cup Body \cup Ended]
      /\ status \in [Calls -> Statuses \cup {"none"}]
      /\ left \in [Calls -> SUBSET Keys]
      /\ EventSets \in [Calls -> SUBSET Event]
      /\ WriterSets \in [Keys -> SUBSET Calls]
  BY Types
<1> SUFFICES ASSUME NEW d \in Calls
             PROVE  (StageInv(d) /\ TargetInv(d) /\ RowsInv(d) /\ DoneInv(d) /\ HistoryInv(d))'
  BY DEF CapsInv
<1>4. StageInv(d)'
  BY <1>1, <1>2, <1>3 DEF CapsInv, StageInv, LogsNew, UpdatesOld, Body
<1>5. TargetInv(d)'
  BY <1>1, <1>2, <1>3 DEF CapsInv, TargetInv, LogsNew, UpdatesOld
<1>6. RowsInv(d)'
  <2>1. ASSUME NEW e \in EventSets[d] PROVE EventInv(d, e)'
    <3>1. e.by \in Calls /\ EventInv(d, e)
      BY Types DEF Event, CapsInv, RowsInv
    <3> QED
      BY <1>1, <1>3, <3>1 DEF EventInv
  <2>2. \A k \in Keys : d \in WriterSets'[k] =>
          /\ tool'[d] = "profile_save" /\ k \in facts'[d]
          /\ pc'[d] \in {"saving", "done", "broken"}
    BY <1>1, <1>2, <1>3 DEF CapsInv, RowsInv
  <2> QED
    BY <1>1, <1>2, <1>3, <2>1, <2>2 DEF CapsInv, RowsInv
<1>7. DoneInv(d)'
  BY <1>1, <1>2, <1>3 DEF CapsInv, DoneInv, Updated, LoggedNew, EventBy
<1>8. HistoryInv(d)'
  BY <1>1, <1>2, <1>3 DEF CapsInv, HistoryInv
<1> QED
  BY <1>4, <1>5, <1>6, <1>7, <1>8

\* A captured job.
LEMMA CaptureJobStep ==
  ASSUME TypeOK, CapsInv, NEW c \in Calls, CaptureJob(c)
  PROVE  CapsInv'
<1>1. /\ pc[c] = "capturing"
      /\ \/ /\ pc' = [pc EXCEPT ![c] = "done"]
            /\ jobs' = jobs \cup {c}
         \/ /\ pc' = [pc EXCEPT ![c] = "broken"]
            /\ jobs' \in {jobs, jobs \cup {c}}
      /\ UNCHANGED <<tool, target, wanted, facts, left, approved, status, creds>>
      /\ UNCHANGED <<EventSets, WriterSets>>
  BY SetsSame DEF CaptureJob, Awaits, Goto, args
<1>2. tool[c] = "job_capture" /\ c \in approved
  BY <1>1, CapabilitiesAssumption DEF CapsInv, StageInv, TargetInv, DoneInv,
     LogsNew, UpdatesOld, WriteIntents, Body
<1>3. /\ pc \in [Calls -> {"idle", "asked"} \cup Body \cup Ended]
      /\ status \in [Calls -> Statuses \cup {"none"}]
      /\ left \in [Calls -> SUBSET Keys]
      /\ EventSets \in [Calls -> SUBSET Event]
      /\ WriterSets \in [Keys -> SUBSET Calls]
  BY Types
<1> SUFFICES ASSUME NEW d \in Calls
             PROVE  (StageInv(d) /\ TargetInv(d) /\ RowsInv(d) /\ DoneInv(d) /\ HistoryInv(d))'
  BY DEF CapsInv
<1>4. StageInv(d)'
  BY <1>1, <1>2, <1>3 DEF CapsInv, StageInv, LogsNew, UpdatesOld, Body
<1>5. TargetInv(d)'
  BY <1>1, <1>2, <1>3 DEF CapsInv, TargetInv, LogsNew, UpdatesOld
<1>6. RowsInv(d)'
  <2>1. ASSUME NEW e \in EventSets[d] PROVE EventInv(d, e)'
    <3>1. e.by \in Calls /\ EventInv(d, e)
      BY Types DEF Event, CapsInv, RowsInv
    <3> QED
      BY <1>1, <1>3, <3>1 DEF EventInv
  <2>2. \A k \in Keys : d \in WriterSets'[k] =>
          /\ tool'[d] = "profile_save" /\ k \in facts'[d]
          /\ pc'[d] \in {"saving", "done", "broken"}
    BY <1>1, <1>2, <1>3 DEF CapsInv, RowsInv
  <2> QED
    BY <1>1, <1>2, <1>3, <2>1, <2>2 DEF CapsInv, RowsInv
<1>7. DoneInv(d)'
  BY <1>1, <1>2, <1>3 DEF CapsInv, DoneInv, Updated, LoggedNew, EventBy
<1>8. HistoryInv(d)'
  BY <1>1, <1>2, <1>3 DEF CapsInv, HistoryInv
<1> QED
  BY <1>4, <1>5, <1>6, <1>7, <1>8

\* The gate allows or refuses a write.
LEMMA GateStep ==
  ASSUME TypeOK, CapsInv, NEW c \in Calls, Allow(c) \/ Refuse(c)
  PROVE  CapsInv'
<1>1. /\ pc[c] = "asked"
      /\ \/ /\ pc' = [pc EXCEPT ![c] = FirstStep(tool[c], target[c])]
            /\ approved' = approved \cup {c}
         \/ pc' = [pc EXCEPT ![c] = "refused"] /\ UNCHANGED approved
      /\ UNCHANGED <<tool, target, wanted, facts, left, jobs, status, creds>>
      /\ UNCHANGED <<EventSets, WriterSets>>
  BY SetsSame DEF Allow, Refuse, Goto, args, rows
<1>2. /\ tool[c] \in WriteIntents
      /\ \/ /\ tool[c] = "application_track"
            /\ FirstStep(tool[c], target[c]) =
                 IF target[c] = NoApplication THEN "adding_job" ELSE "looking_up"
         \/ /\ tool[c] = "profile_save" /\ FirstStep(tool[c], target[c]) = "saving"
         \/ /\ tool[c] = "resume_store" /\ FirstStep(tool[c], target[c]) = "decomposing"
         \/ /\ tool[c] = "job_capture" /\ FirstStep(tool[c], target[c]) = "extracting"
  BY <1>1, CapabilitiesAssumption DEF CapsInv, StageInv, FirstStep, WriteIntents
<1>3. /\ pc \in [Calls -> {"idle", "asked"} \cup Body \cup Ended]
      /\ status \in [Calls -> Statuses \cup {"none"}]
      /\ left \in [Calls -> SUBSET Keys]
      /\ EventSets \in [Calls -> SUBSET Event]
      /\ WriterSets \in [Keys -> SUBSET Calls]
  BY Types
<1> SUFFICES ASSUME NEW d \in Calls
             PROVE  (StageInv(d) /\ TargetInv(d) /\ RowsInv(d) /\ DoneInv(d) /\ HistoryInv(d))'
  BY DEF CapsInv
<1>4. StageInv(d)'
  BY <1>1, <1>2, <1>3 DEF CapsInv, StageInv, LogsNew, UpdatesOld, Body
<1>5. TargetInv(d)'
  BY <1>1, <1>2, <1>3, CapabilitiesAssumption DEF CapsInv, TargetInv, LogsNew, UpdatesOld
<1>6. RowsInv(d)'
  <2>1. ASSUME NEW e \in EventSets[d] PROVE EventInv(d, e)'
    <3>1. e.by \in Calls /\ EventInv(d, e)
      BY Types DEF Event, CapsInv, RowsInv
    <3> QED
      BY <1>1, <1>3, <3>1 DEF EventInv
  <2>2. \A k \in Keys : d \in WriterSets'[k] =>
          /\ tool'[d] = "profile_save" /\ k \in facts'[d]
          /\ pc'[d] \in {"saving", "done", "broken"}
    BY <1>1, <1>2, <1>3 DEF CapsInv, RowsInv
  <2> QED
    BY <1>1, <1>2, <1>3, <2>1, <2>2 DEF CapsInv, RowsInv
<1>7. DoneInv(d)'
  BY <1>1, <1>2, <1>3 DEF CapsInv, DoneInv, Updated, LoggedNew, EventBy
<1>8. HistoryInv(d)'
  BY <1>1, <1>2, <1>3 DEF CapsInv, HistoryInv
<1> QED
  BY <1>4, <1>5, <1>6, <1>7, <1>8

\* A tool call starts.
LEMMA RequestStep ==
  ASSUME TypeOK, CapsInv, NEW c \in Calls, NEW t \in Tools,
         NEW a \in {NoApplication, Unknown} \cup Echoed,
         NEW s \in Statuses \cup {"none"}, NEW f \in SUBSET Keys,
         IF t = "application_track" THEN s \in Statuses ELSE a = NoApplication,
         Request(c, t, a, s, f)
  PROVE  CapsInv'
<1>1. /\ pc[c] = "idle"
      /\ \/ t \in WriteIntents /\ pc' = [pc EXCEPT ![c] = "asked"]
         \/ /\ t \notin WriteIntents
            /\ pc' = [pc EXCEPT ![c] = FirstStep(t, a)]
            /\ FirstStep(t, a) \in {"listing", "answering"}
      /\ tool' = [tool EXCEPT ![c] = t] /\ target' = [target EXCEPT ![c] = a]
      /\ wanted' = [wanted EXCEPT ![c] = s] /\ facts' = [facts EXCEPT ![c] = f]
      /\ left' = [left EXCEPT ![c] = f]
      /\ UNCHANGED <<approved, jobs, status, creds, EventSets, WriterSets>>
  BY SetsSame DEF Request, Goto, rows, Allowed, WriteIntents, FirstStep
<1>2. /\ a \in Calls => /\ t = "application_track" /\ a # c
                        /\ pc[a] = "done" /\ status[a] # "none"
      /\ status[c] = "none" /\ c \notin creds /\ c \notin jobs
      /\ \A k \in Keys : c \notin WriterSets[k]
  BY <1>1, CapabilitiesAssumption DEF Echoed, CapsInv, RowsInv
<1>3. /\ pc \in [Calls -> {"idle", "asked"} \cup Body \cup Ended]
      /\ tool \in [Calls -> Tools \cup {"none"}]
      /\ target \in [Calls -> Calls \cup {NoApplication, Unknown}]
      /\ wanted \in [Calls -> Statuses \cup {"none"}]
      /\ facts \in [Calls -> SUBSET Keys]
      /\ left \in [Calls -> SUBSET Keys]
      /\ EventSets \in [Calls -> SUBSET Event]
  BY Types DEF TypeOK
<1> SUFFICES ASSUME NEW d \in Calls
             PROVE  (StageInv(d) /\ TargetInv(d) /\ RowsInv(d) /\ DoneInv(d) /\ HistoryInv(d))'
  BY DEF CapsInv
<1>4. StageInv(d)'
  BY <1>1, <1>2, <1>3 DEF CapsInv, StageInv, LogsNew, UpdatesOld, Body
<1>5. TargetInv(d)'
  <2>1. CASE d = c
    BY <1>1, <1>2, <1>3, <2>1 DEF TargetInv, LogsNew, UpdatesOld
  <2>2. CASE d # c
    BY <1>1, <1>2, <1>3, <2>2 DEF CapsInv, TargetInv, LogsNew, UpdatesOld
  <2> QED
    BY <2>1, <2>2
<1>6. RowsInv(d)'
  <2>1. ASSUME NEW e \in EventSets[d] PROVE EventInv(d, e)'
    <3>1. e.by \in Calls /\ EventInv(d, e)
      BY Types DEF Event, CapsInv, RowsInv
    <3>2. e.by # c
      BY <1>1, <3>1 DEF EventInv
    <3>3. d # c
      BY <1>1, <3>1, <3>2 DEF EventInv, CapsInv, TargetInv
    <3> QED
      BY <1>1, <1>3, <3>1, <3>2, <3>3 DEF EventInv
  <2>2. CASE d = c
    BY <1>1, <1>2, <1>3, <2>1, <2>2 DEF RowsInv
  <2>3. CASE d # c
    BY <1>1, <1>3, <2>1, <2>3 DEF CapsInv, RowsInv
  <2> QED
    BY <2>2, <2>3
<1>7. DoneInv(d)'
  <2>1. CASE d = c
    BY <1>1, <1>3, <2>1 DEF DoneInv, Updated, LoggedNew
  <2>2. CASE d # c
    BY <1>1, <1>3, <2>2 DEF CapsInv, DoneInv, Updated, LoggedNew, EventBy
  <2> QED
    BY <2>1, <2>2
<1>8. HistoryInv(d)'
  BY <1>1, <1>2, <1>3 DEF CapsInv, HistoryInv
<1> QED
  BY <1>4, <1>5, <1>6, <1>7, <1>8

\* Every step keeps the invariant.
LEMMA CapsStep == TypeOK /\ CapsInv /\ [Next]_vars => CapsInv'
<1> SUFFICES ASSUME TypeOK, CapsInv, [Next]_vars PROVE CapsInv'
  OBVIOUS
<1>1. CASE UNCHANGED vars
  BY <1>1, SetsSame DEF vars, args, rows, CapsInv, StageInv, TargetInv, RowsInv, DoneInv,
     HistoryInv, EventInv, Updated, LoggedNew, EventBy
<1>2. ASSUME NEW c \in Calls, RequestAny(c) PROVE CapsInv'
  <2>1. {} \in SUBSET Keys /\ "application_track" \in Tools /\ "profile_save" \in Tools
    BY DEF Tools
  <2>2. ASSUME NEW a \in {NoApplication, Unknown} \cup Echoed, NEW s \in Statuses,
               Request(c, "application_track", a, s, {})
        PROVE  CapsInv'
    BY <2>1, <2>2, RequestStep
  <2>3. ASSUME NEW t \in Tools \ {"application_track"}, NEW f \in SUBSET Keys,
               Request(c, t, NoApplication, "none", f)
        PROVE  CapsInv'
    BY <2>3, RequestStep
  <2> QED
    BY <1>2, <2>1, <2>2, <2>3 DEF RequestAny
<1>3. ASSUME NEW c \in Calls, Allow(c) \/ Refuse(c) PROVE CapsInv'
  BY <1>3, GateStep
<1>4. ASSUME NEW c \in Calls, BodyStep(c) PROVE CapsInv'
  BY <1>4, QuietStep, AddJobStep, CreateStep, LogStep, AddEventStep, SetStatusStep,
     SaveFactStep, AddCredentialsStep, CaptureJobStep DEF BodyStep
<1> QED
  BY <1>1, <1>2, <1>3, <1>4 DEF Next

-----------------------------------------------------------------------------
\* The inductive invariant holds in every reachable state.
THEOREM Invariance == Spec => [](TypeOK /\ CapsInv)
BY InitInv, TypeStep, CapsStep, PTL DEF Spec

\* Types: every variable keeps its type, for any sets of calls and statuses.
THEOREM TypesKept == Spec => []TypeOK
BY Invariance, PTL

\* Every row written was asked for and approved as what it is (registry.py 7-9).
THEOREM WritesAreApproved == Spec => []WritesAsApproved
<1>1. ASSUME TypeOK, CapsInv, NEW c \in Calls
      PROVE  Wrote(c) # {} =>
               /\ c \in approved
               /\ \/ Wrote(c) = {Intent(c)}
                  \/ target[c] = Unknown /\ Wrote(c) = {"log"}
  <2>1. StageInv(c) /\ RowsInv(c)
    BY <1>1 DEF CapsInv
  <2>2. status[c] # "none" \/ (c \in jobs /\ tool[c] = "application_track") =>
          /\ tool[c] = "application_track" /\ target[c] \notin Calls /\ c \in approved
    BY <2>1 DEF RowsInv, StageInv, WriteIntents, Body
  <2>3. (\E a \in Calls \ {c} : \E e \in EventsOf(a) : e.by = c) =>
          /\ tool[c] = "application_track" /\ target[c] \in Calls /\ c \in approved
    <3>1. ASSUME NEW a \in Calls \ {c}, NEW e \in EventSets[a], e.by = c
          PROVE  /\ tool[c] = "application_track" /\ a = target[c]
                 /\ pc[c] \in {"setting_status", "done", "broken"}
      BY <1>1, <3>1 DEF CapsInv, RowsInv, EventInv
    <3> QED
      BY <2>1, <3>1 DEF EventSets, StageInv, WriteIntents, Body
  <2>4. (\E k \in Keys : c \in Writers(k)) => tool[c] = "profile_save" /\ c \in approved
    BY <2>1 DEF RowsInv, WriterSets, StageInv, WriteIntents, Body
  <2>5. c \in creds => tool[c] = "resume_store" /\ c \in approved
    BY <2>1 DEF RowsInv, StageInv, WriteIntents, Body
  <2>6. c \in jobs /\ tool[c] # "application_track" =>
          tool[c] = "job_capture" /\ c \in approved
    BY <2>1 DEF RowsInv, StageInv, WriteIntents, Body
  <2>7. /\ target[c] \in Calls \cup {NoApplication, Unknown}
        /\ target[c] \in Calls => target[c] # NoApplication
    BY <1>1, CapabilitiesAssumption DEF TypeOK
  <2> HIDE DEF CapsInv, TypeOK
  <2> QED
    BY <2>2, <2>3, <2>4, <2>5, <2>6, <2>7 DEF Wrote, Intent, WriteIntents
<1>2. TypeOK /\ CapsInv => WritesAsApproved
  BY <1>1 DEF WritesAsApproved
<1> QED
  BY <1>2, Invariance, PTL

\* What a tool reports is what it wrote (SPEC.md 545-548).
THEOREM ReportsAreTrue == Spec => []ReportIsTrue
<1>1. ASSUME TypeOK, CapsInv, NEW c \in Calls, pc[c] = "nothing"
      PROVE  Wrote(c) = {}
  <2>1. \A a \in Calls : \A e \in EventsOf(a) : e.by # c
    BY <1>1 DEF CapsInv, RowsInv, EventInv, EventSets
  <2>2. \A k \in Keys : c \notin Writers(k)
    BY <1>1 DEF CapsInv, RowsInv, WriterSets
  <2>3. status[c] = "none" /\ c \notin creds /\ c \notin jobs
    BY <1>1 DEF CapsInv, RowsInv
  <2> QED
    BY <2>1, <2>2, <2>3 DEF Wrote
<1>2. ASSUME TypeOK, CapsInv, NEW c \in Calls, pc[c] = "done", Intent(c) = "none"
      PROVE  Wrote(c) = {}
  <2>1. tool[c] \notin WriteIntents
    BY <1>2 DEF Intent, WriteIntents
  <2>2. \A a \in Calls : \A e \in EventsOf(a) : e.by # c
    BY <1>2, <2>1 DEF CapsInv, RowsInv, EventInv, EventSets, WriteIntents
  <2>3. \A k \in Keys : c \notin Writers(k)
    BY <1>2, <2>1 DEF CapsInv, RowsInv, WriterSets, WriteIntents
  <2>4. status[c] = "none" /\ c \notin creds /\ c \notin jobs
    BY <1>2, <2>1 DEF CapsInv, RowsInv, WriteIntents
  <2> QED
    BY <2>2, <2>3, <2>4 DEF Wrote
<1>3. ASSUME TypeOK, CapsInv, NEW c \in Calls, pc[c] = "done", Intent(c) # "none"
      PROVE  CASE Intent(c) = "profile_save" -> \A k \in facts[c] : c \in Writers(k)
               [] Intent(c) = "resume_store" -> c \in creds
               [] Intent(c) = "job_capture" -> c \in jobs
               [] OTHER -> /\ \E a \in {c, target[c]} \cap Calls :
                                [by |-> c, status |-> wanted[c]] \in EventsOf(a)
                           /\ target[c] \notin Calls => c \in jobs /\ status[c] # "none"
  <2>1. DoneInv(c) /\ facts[c] \subseteq Keys
    BY <1>3 DEF CapsInv, TypeOK
  <2>2. CASE tool[c] = "profile_save"
    BY <1>3, <2>1, <2>2 DEF DoneInv, Intent, WriteIntents, WriterSets
  <2>3. CASE tool[c] = "application_track"
    <3>1. CASE target[c] \in Calls
      BY <1>3, <2>1, <2>3, <3>1 DEF DoneInv, Updated, Intent, WriteIntents, EventSets, EventBy
    <3>2. CASE target[c] \notin Calls
      BY <1>3, <2>1, <2>3, <3>2 DEF DoneInv, LoggedNew, Intent, WriteIntents, EventSets, EventBy
    <3> QED
      BY <3>1, <3>2
  <2>4. CASE tool[c] \in {"resume_store", "job_capture"}
    BY <1>3, <2>1, <2>4 DEF DoneInv, Intent, WriteIntents
  <2> QED
    BY <1>3, <2>2, <2>3, <2>4 DEF Intent, WriteIntents
<1>4. TypeOK /\ CapsInv => ReportIsTrue
  BY <1>1, <1>2, <1>3 DEF ReportIsTrue
<1> QED
  BY <1>4, Invariance, PTL

\* A status is never without an event that explains it (application_track.py 39-42).
THEOREM HistoryKept == Spec => []StatusHasHistory
<1>1. TypeOK /\ CapsInv => StatusHasHistory
  BY DEF CapsInv, HistoryInv, StatusHasHistory, EventSets
<1> QED
  BY <1>1, Invariance, PTL

-----------------------------------------------------------------------------
(* The status and the last event.  LastInv follows the updates of an       *)
(* application that have logged and not yet set: unless they overlapped or *)
(* one broke off, there is at most one, and the last event is its own.     *)

LastStatus(a) == events[a][Len(events[a])].status
Updating(a) == {d \in Calls : target[d] = a /\ pc[d] = "setting_status"}

Settled(a) ==
  /\ pc[a] = "done" /\ status[a] # "none" /\ a \notin overlapped
  /\ \A d \in Calls : target[d] = a => pc[d] # "broken"

InStep(a) ==
  /\ events[a] # <<>>
  /\ \/ Updating(a) = {} /\ LastStatus(a) = status[a]
     \/ \E d \in Calls : Updating(a) = {d} /\ LastStatus(a) = wanted[d]

LastInv == \A a \in Calls :
  /\ pc[a] = "logging" => status[a] = wanted[a]
  /\ Settled(a) => InStep(a)

\* The last element after an append.
LEMMA LastOfAppend ==
  ASSUME NEW S, NEW s \in Seq(S), NEW x \in S
  PROVE  Append(s, x) # <<>> /\ Append(s, x)[Len(Append(s, x))] = x
<1>1. Len(Append(s, x)) = Len(s) + 1 /\ Len(s) \in Nat
  OBVIOUS
<1>2. Append(s, x)[Len(s) + 1] = x
  OBVIOUS
<1> QED
  BY <1>1, <1>2

\* The last event of an application after it was logged.
LEMMA LastAppended ==
  ASSUME TypeOK, NEW c \in Calls, NEW a \in Calls, wanted[c] \in Statuses, Logged(a, c)
  PROVE  /\ events'[a] # <<>> /\ LastStatus(a)' = wanted[c]
         /\ \A b \in Calls : b # a => events'[b] = events[b]
<1>1. events \in [Calls -> Seq(Event)] /\ EventBy(c) \in Event
  BY DEF TypeOK, Event, EventBy
<1>2. events' = [events EXCEPT ![a] = Append(events[a], EventBy(c))]
  BY DEF Logged, EventBy
<1>3. events'[a] = Append(events[a], EventBy(c)) /\ events[a] \in Seq(Event)
  BY <1>1, <1>2
<1>4. events'[a] # <<>> /\ events'[a][Len(events'[a])] = EventBy(c)
  BY <1>1, <1>3, LastOfAppend
<1> QED
  BY <1>1, <1>2, <1>4 DEF LastStatus, EventBy

\* An application none of whose calls moved to or from an update, and whose
\* rows did not change, stays as it was.
LEMMA LastSame ==
  ASSUME LastInv, NEW a \in Calls,
         status'[a] = status[a], events'[a] = events[a],
         overlapped \subseteq overlapped',
         wanted'[a] = wanted[a], pc'[a] = "logging" => pc[a] = "logging",
         Settled(a)' => pc[a] = "done",
         \A d \in Calls : \/ /\ target'[d] = target[d] /\ wanted'[d] = wanted[d]
                             /\ \/ pc'[d] = pc[d]
                                \/ target[d] # a
                                \/ pc'[d] = "broken"
                                \/ /\ pc[d] \notin {"setting_status", "broken"}
                                   /\ pc'[d] # "setting_status"
                          \/ pc[d] = "idle" /\ pc'[d] # "setting_status"
  PROVE  /\ pc'[a] = "logging" => status'[a] = wanted'[a]
         /\ Settled(a)' => InStep(a)'
<1>1. pc'[a] = "logging" => status'[a] = wanted'[a]
  BY DEF LastInv
<1>2. ASSUME Settled(a)' PROVE InStep(a)'
  <2>1. Settled(a)
    BY <1>2 DEF Settled
  <2>2. InStep(a)
    BY <2>1 DEF LastInv
  <2>3. Updating(a)' = Updating(a) /\ \A d \in Updating(a) : wanted'[d] = wanted[d]
    BY <1>2 DEF Settled, Updating
  <2>4. LastStatus(a)' = LastStatus(a)
    BY DEF LastStatus
  <2> QED
    BY <2>2, <2>3, <2>4 DEF InStep
<1> QED
  BY <1>1, <1>2

\* A step of a body that breaks off there, whatever it wrote.
LEMMA LastBreaks ==
  ASSUME TypeOK, CapsInv, LastInv, NEW c \in Calls, BodyStep(c), pc'[c] = "broken"
  PROVE  LastInv'
<1>1. /\ pc' = [pc EXCEPT ![c] = "broken"] /\ UNCHANGED <<target, wanted>>
      /\ overlapped \subseteq overlapped'
      /\ \A a \in Calls \ {c, target[c]} : events'[a] = events[a] /\ status'[a] = status[a]
  <2>1. pc \in [Calls -> {"idle", "asked"} \cup Body \cup Ended]
    BY Types
  <2>2. events \in [Calls -> Seq(Event)] /\ status \in [Calls -> Statuses \cup {"none"}]
    BY DEF TypeOK, Event
  <2>3. pc' = [pc EXCEPT ![c] = pc'[c]]
    BY <2>1 DEF BodyStep, Awaits, Goto, LookUp, AddEvent, SetStatus, AddJob, Create, Log,
         SaveNothing, SaveFact, Decompose, AddCredentials, ExtractJob, CaptureJob,
         ListJobs, AnswerRead
  <2>4. /\ UNCHANGED <<target, wanted>> /\ overlapped \subseteq overlapped'
    BY DEF BodyStep, LookUp, AddEvent, SetStatus, AddJob, Create, Log,
         SaveNothing, SaveFact, Decompose, AddCredentials, ExtractJob, CaptureJob,
         ListJobs, AnswerRead, args, rows
  <2>5. /\ \/ UNCHANGED events \/ Logged(c, c) \/ Logged(target[c], c)
        /\ \/ UNCHANGED status
           \/ \E a \in {c, target[c]} : status' = [status EXCEPT ![a] = wanted[c]]
    BY DEF BodyStep, Awaits, LookUp, AddEvent, SetStatus, AddJob, Create, Log,
         SaveNothing, SaveFact, Decompose, AddCredentials, ExtractJob, CaptureJob,
         ListJobs, AnswerRead, args, rows
  <2> QED
    BY <2>2, <2>3, <2>4, <2>5 DEF Logged
<1>2. pc \in [Calls -> {"idle", "asked"} \cup Body \cup Ended]
  BY Types
<1>3. ASSUME NEW a \in Calls
      PROVE  /\ pc'[a] = "logging" => status'[a] = wanted'[a]
             /\ Settled(a)' => InStep(a)'
  <2>1. CASE a \in {c, target[c]}
    <3>1. pc'[c] = "broken" /\ target'[c] = target[c]
      BY <1>1, <1>2
    <3>2. ~ Settled(a)'
      BY <2>1, <3>1 DEF Settled
    <3>3. pc'[a] # "logging"
      BY <1>1, <1>2, <2>1 DEF CapsInv, TargetInv
    <3> QED
      BY <3>2, <3>3
  <2>2. CASE a \notin {c, target[c]}
    <3>1. Settled(a)' => pc[a] = "done"
      BY <1>1, <1>2, <2>2 DEF Settled
    <3> QED
      BY <1>1, <1>2, <2>2, <3>1, LastSame
  <2> QED
    BY <2>1, <2>2
<1> QED
  BY <1>3 DEF LastInv

\* A step that writes neither a status nor an event.
LEMMA LastQuiet ==
  ASSUME TypeOK, CapsInv, LastInv, NEW c \in Calls,
         \E to : /\ pc' = [pc EXCEPT ![c] = to]
                 /\ to \notin {"logging", "setting_status"}
                 /\ to = "done" => status[c] = "none",
         pc[c] \notin {"logging", "setting_status", "broken"},
         UNCHANGED <<target, wanted, events, status, overlapped>>
  PROVE  LastInv'
<1>1. pc \in [Calls -> {"idle", "asked"} \cup Body \cup Ended]
  BY Types
<1>2. ASSUME NEW a \in Calls
      PROVE  /\ pc'[a] = "logging" => status'[a] = wanted'[a]
             /\ Settled(a)' => InStep(a)'
  <2>1. Settled(a)' => pc[a] = "done"
    BY <1>1 DEF Settled
  <2> QED
    BY <1>1, <2>1, LastSame
<1> QED
  BY <1>2 DEF LastInv

\* The new application has the status its call wants.
LEMMA LastCreates ==
  ASSUME TypeOK, CapsInv, LastInv, NEW c \in Calls, Create(c), pc'[c] # "broken"
  PROVE  LastInv'
<1>1. /\ pc[c] = "creating" /\ pc' = [pc EXCEPT ![c] = "logging"]
      /\ status' = [status EXCEPT ![c] = wanted[c]]
      /\ UNCHANGED <<target, wanted, events, overlapped>>
  BY Types DEF Create, Awaits, Goto, args
<1>2. /\ pc \in [Calls -> {"idle", "asked"} \cup Body \cup Ended]
      /\ status \in [Calls -> Statuses \cup {"none"}]
  BY Types
<1>3. ASSUME NEW a \in Calls
      PROVE  /\ pc'[a] = "logging" => status'[a] = wanted'[a]
             /\ Settled(a)' => InStep(a)'
  <2>1. CASE a = c
    BY <1>1, <1>2, <2>1 DEF Settled
  <2>2. CASE a # c
    <3>1. Settled(a)' => pc[a] = "done"
      BY <1>1, <1>2, <2>2 DEF Settled
    <3> QED
      BY <1>1, <1>2, <2>2, <3>1, LastSame
  <2> QED
    BY <2>1, <2>2
<1> QED
  BY <1>3 DEF LastInv

\* Its first event is of that status, and no update can be under way yet.
LEMMA LastLogs ==
  ASSUME TypeOK, CapsInv, LastInv, NEW c \in Calls, Log(c), pc'[c] # "broken"
  PROVE  LastInv'
<1>1. /\ pc[c] = "logging" /\ pc' = [pc EXCEPT ![c] = "done"] /\ Logged(c, c)
      /\ UNCHANGED <<target, wanted, status, overlapped>>
  BY Types DEF Log, Awaits, Goto, args
<1>2. /\ pc \in [Calls -> {"idle", "asked"} \cup Body \cup Ended]
      /\ wanted[c] \in Statuses
  BY <1>1, Types DEF CapsInv, StageInv, TargetInv, LogsNew
<1>3. /\ events'[c] # <<>> /\ LastStatus(c)' = wanted[c]
      /\ \A b \in Calls : b # c => events'[b] = events[b]
  BY <1>1, <1>2, LastAppended
<1>4. ASSUME NEW a \in Calls
      PROVE  /\ pc'[a] = "logging" => status'[a] = wanted'[a]
             /\ Settled(a)' => InStep(a)'
  <2>1. CASE a = c
    <3>1. status'[c] = wanted[c] /\ pc'[c] # "logging"
      BY <1>1, <1>2 DEF LastInv
    <3>2. Updating(c)' = {}
      BY <1>1, <1>2 DEF Updating, CapsInv, TargetInv
    <3> QED
      BY <1>3, <2>1, <3>1, <3>2 DEF InStep
  <2>2. CASE a # c
    <3>1. Settled(a)' => pc[a] = "done"
      BY <1>1, <1>2, <2>2 DEF Settled
    <3> QED
      BY <1>1, <1>2, <1>3, <2>2, <3>1, LastSame
  <2> QED
    BY <2>1, <2>2
<1> QED
  BY <1>4 DEF LastInv

\* An update's event comes last; unless it overlaps, the update is the only one.
LEMMA LastAdds ==
  ASSUME TypeOK, CapsInv, LastInv, NEW c \in Calls, AddEvent(c), pc'[c] # "broken"
  PROVE  LastInv'
<1>1. /\ pc[c] = "adding_event" /\ pc' = [pc EXCEPT ![c] = "setting_status"]
      /\ Logged(target[c], c) /\ UNCHANGED <<target, wanted, status>>
      /\ overlapped \subseteq overlapped'
      /\ (\E d \in Calls \ {c} : target[d] = target[c] /\ pc[d] = "setting_status")
           => target[c] \in overlapped'
  BY Types DEF AddEvent, Awaits, Goto, args
<1>2. /\ pc \in [Calls -> {"idle", "asked"} \cup Body \cup Ended]
      /\ wanted[c] \in Statuses /\ target[c] \in Calls /\ target[c] # c
      /\ pc[target[c]] = "done"
  BY <1>1, Types DEF CapsInv, StageInv, TargetInv, UpdatesOld
<1>3. /\ events'[target[c]] # <<>> /\ LastStatus(target[c])' = wanted[c]
      /\ \A b \in Calls : b # target[c] => events'[b] = events[b]
  BY <1>1, <1>2, LastAppended
<1>4. ASSUME NEW a \in Calls
      PROVE  /\ pc'[a] = "logging" => status'[a] = wanted'[a]
             /\ Settled(a)' => InStep(a)'
  <2>1. CASE a = target[c]
    <3>1. Settled(a)' => Updating(a)' = {c}
      BY <1>1, <1>2, <2>1 DEF Settled, Updating
    <3>2. pc'[a] # "logging"
      BY <1>1, <1>2, <2>1
    <3> QED
      BY <1>1, <1>3, <2>1, <3>1, <3>2 DEF InStep
  <2>2. CASE a # target[c]
    <3>1. Settled(a)' => pc[a] = "done"
      BY <1>1, <1>2 DEF Settled
    <3> QED
      BY <1>1, <1>2, <1>3, <2>2, <3>1, LastSame
  <2> QED
    BY <2>1, <2>2
<1> QED
  BY <1>4 DEF LastInv

\* The update sets the status of the last event, its own.
LEMMA LastSets ==
  ASSUME TypeOK, CapsInv, LastInv, NEW c \in Calls, SetStatus(c), pc'[c] # "broken"
  PROVE  LastInv'
<1>1. /\ pc[c] = "setting_status" /\ pc' = [pc EXCEPT ![c] = "done"]
      /\ status' = [status EXCEPT ![target[c]] = wanted[c]]
      /\ UNCHANGED <<target, wanted, events, overlapped>>
  BY Types DEF SetStatus, Awaits, Goto, args
<1>2. /\ pc \in [Calls -> {"idle", "asked"} \cup Body \cup Ended]
      /\ status \in [Calls -> Statuses \cup {"none"}]
      /\ target[c] \in Calls /\ target[c] # c
      /\ pc[target[c]] = "done" /\ status[target[c]] # "none"
      /\ status[c] = "none"
  BY <1>1, Types DEF CapsInv, TargetInv, RowsInv, UpdatesOld
<1>3. ASSUME NEW a \in Calls
      PROVE  /\ pc'[a] = "logging" => status'[a] = wanted'[a]
             /\ Settled(a)' => InStep(a)'
  <2>1. CASE a = target[c]
    <3>1. ASSUME Settled(a)' PROVE InStep(a)'
      <4>1. Settled(a)
        BY <1>1, <1>2, <2>1, <3>1 DEF Settled
      <4>2. InStep(a) /\ c \in Updating(a)
        BY <1>1, <2>1, <4>1 DEF LastInv, Updating
      <4>3. Updating(a) = {c} /\ LastStatus(a) = wanted[c]
        BY <4>2 DEF InStep
      <4>4. Updating(a)' = {}
        BY <1>1, <1>2, <4>3 DEF Updating
      <4>5. status'[a] = wanted[c] /\ LastStatus(a)' = LastStatus(a)
        BY <1>1, <1>2, <2>1 DEF LastStatus
      <4> QED
        BY <1>1, <4>2, <4>3, <4>4, <4>5 DEF InStep
    <3>2. pc'[a] # "logging"
      BY <1>1, <1>2, <2>1
    <3> QED
      BY <3>1, <3>2
  <2>2. CASE a # target[c]
    <3>1. Settled(a)' => pc[a] = "done"
      BY <1>1, <1>2, <2>2 DEF Settled
    <3> QED
      BY <1>1, <1>2, <2>2, <3>1, LastSame
  <2> QED
    BY <2>1, <2>2
<1> QED
  BY <1>3 DEF LastInv

\* Every step keeps the order of events and statuses.
LEMMA LastStep == TypeOK /\ CapsInv /\ LastInv /\ [Next]_vars => LastInv'
<1> SUFFICES ASSUME TypeOK, CapsInv, LastInv, [Next]_vars PROVE LastInv'
  OBVIOUS
<1>0. pc \in [Calls -> {"idle", "asked"} \cup Body \cup Ended]
  BY Types
<1>1. CASE UNCHANGED vars
  BY <1>1 DEF vars, args, rows, LastInv, Settled, InStep, Updating, LastStatus
<1>2. ASSUME NEW c \in Calls, RequestAny(c) PROVE LastInv'
  <2>1. /\ pc[c] = "idle" /\ UNCHANGED <<events, status, overlapped>>
        /\ \E to \in {"asked", "listing", "answering"} : pc' = [pc EXCEPT ![c] = to]
        /\ \A d \in Calls \ {c} : target'[d] = target[d] /\ wanted'[d] = wanted[d]
    <3>1. ASSUME NEW t \in Tools, NEW a, NEW s, NEW f, Request(c, t, a, s, f)
          PROVE  /\ pc[c] = "idle" /\ UNCHANGED <<events, status, overlapped>>
                 /\ \E to \in {"asked", "listing", "answering"} : pc' = [pc EXCEPT ![c] = to]
                 /\ \A d \in Calls \ {c} : target'[d] = target[d] /\ wanted'[d] = wanted[d]
      BY <3>1 DEF Request, Goto, rows, Allowed, WriteIntents, FirstStep, TypeOK
    <3>2. \E t \in Tools : \E a, s, f : Request(c, t, a, s, f)
      BY <1>2 DEF RequestAny, Tools
    <3> QED
      BY <3>1, <3>2
  <2>2. ASSUME NEW a \in Calls
        PROVE  /\ pc'[a] = "logging" => status'[a] = wanted'[a]
               /\ Settled(a)' => InStep(a)'
    <3>1. CASE a = c
      BY <1>0, <2>1, <3>1 DEF Settled
    <3>2. CASE a # c
      <4>1. Settled(a)' => pc[a] = "done"
        BY <1>0, <2>1, <3>2 DEF Settled
      <4> QED
        BY <1>0, <2>1, <3>2, <4>1, LastSame
    <3> QED
      BY <3>1, <3>2
  <2> QED
    BY <2>2 DEF LastInv
<1>3. ASSUME NEW c \in Calls, Allow(c) \/ Refuse(c) PROVE LastInv'
  <2>1. FirstStep(tool[c], target[c]) \notin {"logging", "setting_status", "done"}
    BY DEF FirstStep
  <2> QED
    BY <1>3, <2>1, LastQuiet DEF Allow, Refuse, Goto, args, rows
<1>4. ASSUME NEW c \in Calls, BodyStep(c) PROVE LastInv'
  <2>1. CASE pc'[c] = "broken"
    BY <1>4, <2>1, LastBreaks
  <2>2. CASE /\ pc'[c] # "broken"
             /\ Create(c) \/ Log(c) \/ AddEvent(c) \/ SetStatus(c)
    BY <2>2, LastCreates, LastLogs, LastAdds, LastSets
  <2>3. CASE \/ LookUp(c) \/ AddJob(c) \/ SaveNothing(c) \/ SaveFact(c) \/ Decompose(c)
             \/ AddCredentials(c) \/ ExtractJob(c) \/ CaptureJob(c) \/ ListJobs(c)
             \/ AnswerRead(c)
    <3> DEFINE Quiet ==
                 /\ \E to : /\ pc' = [pc EXCEPT ![c] = to]
                            /\ to \notin {"logging", "setting_status"}
                 /\ pc[c] \in Body /\ pc[c] \notin {"logging", "setting_status", "broken"}
                 /\ UNCHANGED <<target, wanted, events, status, overlapped>>
    <3> USE DEF Awaits, Goto, Body, args, rows
    <3>1. Quiet
      <4>1. CASE LookUp(c)
        BY <4>1 DEF LookUp
      <4>2. CASE AddJob(c)
        BY <4>2 DEF AddJob
      <4>3. CASE SaveNothing(c) \/ SaveFact(c)
        BY <4>3 DEF SaveNothing, SaveFact
      <4>4. CASE Decompose(c) \/ AddCredentials(c)
        BY <4>4 DEF Decompose, AddCredentials
      <4>5. CASE ExtractJob(c) \/ CaptureJob(c)
        BY <4>5 DEF ExtractJob, CaptureJob
      <4>6. CASE ListJobs(c) \/ AnswerRead(c)
        BY <4>6 DEF ListJobs, AnswerRead
      <4> QED
        BY <2>3, <4>1, <4>2, <4>3, <4>4, <4>5, <4>6
    <3>2. status[c] = "none"
      BY <3>1 DEF CapsInv, RowsInv, Body
    <3> QED
      BY <3>1, <3>2, LastQuiet
  <2> QED
    BY <1>4, <2>1, <2>2, <2>3 DEF BodyStep
<1> QED
  BY <1>1, <1>2, <1>3, <1>4 DEF Next

\* Where updates neither overlapped nor broke off, the status is that of the
\* last event once none is under way (tables.py 103).
THEOREM StatusFollowsEvents == Spec => []StatusIsLastEvent
<1>1. Init => LastInv
  BY CapabilitiesAssumption DEF Init, LastInv, Settled
<1>2. ASSUME TypeOK, CapsInv, LastInv, NEW a \in Calls \ overlapped,
             \A c \in Calls : c = a \/ target[c] = a => pc[c] \notin Body \cup {"broken"}
      PROVE  \/ status[a] = "none"
             \/ events[a] # <<>> /\ status[a] = LastStatus(a)
  <2>1. status[a] # "none" => pc[a] = "done"
    BY <1>2 DEF CapsInv, RowsInv, Body
  <2>2. Updating(a) = {}
    BY <1>2 DEF Updating, Body
  <2>3. status[a] # "none" => InStep(a)
    BY <1>2, <2>1 DEF LastInv, Settled
  <2> QED
    BY <2>2, <2>3 DEF InStep
<1>3. TypeOK /\ CapsInv /\ LastInv => StatusIsLastEvent
  BY <1>2 DEF StatusIsLastEvent, LastStatus
<1> QED
  BY <1>1, <1>3, LastStep, Invariance, PTL DEF Spec
=============================================================================
