---------------------------- MODULE Capabilities ----------------------------
(***************************************************************************)
(* The agent's eight tools (capabilities/registry.py and the tool bodies   *)
(* beside it) and the rows they write.                                     *)
(*                                                                         *)
(* One process per tool call; every await of a body is a control point:    *)
(*                                                                         *)
(*   idle -> [asked -> refused |] the body -> done | nothing               *)
(*   application_track, known id:  looking_up -> adding_event ->           *)
(*     setting_status                                                      *)
(*   application_track, otherwise: [looking_up ->] adding_job -> creating  *)
(*     -> logging                                                          *)
(*   profile_save: saving (once per fact)                                  *)
(*   resume_store: decomposing -> storing                                  *)
(*   job_capture:  extracting -> capturing                                 *)
(*   reads:        [listing ->] answering                                  *)
(*                                                                         *)
(* done: the tool reported success; nothing: it reported that nothing was  *)
(* saved; broken: it raised, was cancelled with its session, or died with  *)
(* the process.  A row is named by the call that wrote it.                 *)
(***************************************************************************)
EXTENDS Naturals, Sequences

CONSTANTS Calls,
          Statuses,        \* statuses an application may be given
          Keys,            \* keys of profile facts
          NoApplication,   \* an empty application_id
          Unknown          \* one that is no UUID, or no application's

ASSUME CapabilitiesAssumption ==
  /\ NoApplication \notin Calls /\ Unknown \notin Calls
  /\ NoApplication # Unknown
  /\ "none" \notin Statuses

VARIABLES pc, tool,
          target,      \* target[c]: the argument application_id
          wanted,      \* wanted[c]: the argument status
          facts,       \* facts[c]: keys of the argument facts
          left,        \* left[c]: facts the loop of profile_save has left
          approved,    \* calls the approval gate allowed
          jobs,        \* calls that wrote a job row
          status,      \* status[a]: status of application a, "none" without a row
          events,      \* events[a]: its events, oldest first
          profile,     \* profile[k]: the calls that set fact k, in order
          creds,       \* calls whose credentials are stored
          overlapped   \* history: applications on which updates overlapped

args == <<tool, target, wanted, facts>>
rows == <<jobs, status, events, profile, creds>>
vars == <<pc, args, left, approved, rows, overlapped>>

Tools == {"resume_store", "strategy_convo", "application_track",
          "job_search_match", "emotional_support", "profile_save",
          "profile_recall", "job_capture"}

\* Mutant: profile_save has no intent builder.
WriteIntentsWithoutProfile == {"resume_store", "application_track", "job_capture"}

\* The tools with an intent builder, which are asked about.
WriteIntents == {"resume_store", "application_track", "profile_save", "job_capture"}

\* allowed_tools, which the SDK runs without consulting the gate.
Allowed == Tools \ WriteIntents

\* What the approval prompt says the write is.
Intent(c) ==
  IF tool[c] \notin WriteIntents THEN "none"
  ELSE IF tool[c] # "application_track" THEN tool[c]
  ELSE IF target[c] = NoApplication THEN "log" ELSE "update"

FirstStep(t, a) ==
  CASE t = "application_track" -> IF a = NoApplication THEN "adding_job" ELSE "looking_up"
    [] t = "profile_save" -> "saving"
    [] t = "resume_store" -> "decomposing"
    [] t = "job_capture" -> "extracting"
    [] t = "job_search_match" -> "listing"
    [] OTHER -> "answering"

Body == {"looking_up", "adding_event", "setting_status", "adding_job",
         "creating", "logging", "saving", "decomposing", "storing",
         "extracting", "capturing", "listing", "answering"}
Ended == {"refused", "done", "nothing", "broken"}

\* Application ids the agent can know: those a result echoed.
Echoed == {a \in Calls : status[a] # "none" /\ pc[a] = "done"}

Init ==
  /\ pc = [c \in Calls |-> "idle"]
  /\ tool = [c \in Calls |-> "none"]
  /\ target = [c \in Calls |-> NoApplication]
  /\ wanted = [c \in Calls |-> "none"]
  /\ facts = [c \in Calls |-> {}]
  /\ left = [c \in Calls |-> {}]
  /\ approved = {} /\ jobs = {} /\ creds = {} /\ overlapped = {}
  /\ status = [a \in Calls |-> "none"]
  /\ events = [a \in Calls |-> <<>>]
  /\ profile = [k \in Keys |-> <<>>]

Goto(c, from, to) ==
  /\ pc[c] = from
  /\ pc' = [pc EXCEPT ![c] = to]

\* An awaited operation of a body: it returns; or it raises, or the body is
\* cancelled in it, before or after its transaction committed.
Awaits(c, from, to, effect, noEffect) ==
  \/ Goto(c, from, to) /\ effect
  \/ Goto(c, from, "broken") /\ (effect \/ noEffect)

-----------------------------------------------------------------------------
(* The SDK and the gate.                                                   *)

\* The agent calls a tool: with an intent it is asked about, else it runs.
Request(c, t, a, s, f) ==
  /\ Goto(c, "idle", IF t \in Allowed THEN FirstStep(t, a) ELSE "asked")
  /\ tool' = [tool EXCEPT ![c] = t]
  /\ target' = [target EXCEPT ![c] = a]
  /\ wanted' = [wanted EXCEPT ![c] = s]
  /\ facts' = [facts EXCEPT ![c] = f]
  /\ left' = [left EXCEPT ![c] = f]
  /\ UNCHANGED <<approved, rows, overlapped>>

\* ApprovalGate.check allowed the call (see ConsentLedger!Perform).
Allow(c) ==
  /\ Goto(c, "asked", FirstStep(tool[c], target[c]))
  /\ approved' = approved \cup {c}
  /\ UNCHANGED <<args, left, rows, overlapped>>

\* It denied it, in whichever way.
Refuse(c) ==
  /\ Goto(c, "asked", "refused")
  /\ UNCHANGED <<args, left, approved, rows, overlapped>>

-----------------------------------------------------------------------------
(* application_track: one transaction per repository call.                 *)

LookUp(c) ==
  /\ \/ target[c] # Unknown /\ Goto(c, "looking_up", "adding_event")
     \/ target[c] = Unknown /\ Goto(c, "looking_up", "adding_job")
     \/ Goto(c, "looking_up", "broken")
  /\ UNCHANGED <<args, left, approved, rows, overlapped>>

Logged(a, c) == events' = [events EXCEPT ![a] = Append(@, [by |-> c, status |-> wanted[c]])]

\* Mutant: the status is set before the event is added.
AddEventLast(c) ==
  LET a == target[c] IN
  /\ Awaits(c, "adding_event", "setting_status",
            status' = [status EXCEPT ![a] = wanted[c]], UNCHANGED status)
  /\ UNCHANGED <<args, left, approved, jobs, events, profile, creds, overlapped>>

\* Updates of an application overlap when one's event comes between another's
\* event and status.
AddEvent(c) ==
  LET a == target[c] IN
  /\ Awaits(c, "adding_event", "setting_status", Logged(a, c), UNCHANGED events)
  /\ overlapped' = IF \E d \in Calls \ {c} : target[d] = a /\ pc[d] = "setting_status"
                   THEN overlapped \cup {a} ELSE overlapped
  /\ UNCHANGED <<args, left, approved, jobs, status, profile, creds>>

\* Mutant: a failed update is reported as done.
SetStatusOrNot(c) ==
  /\ Goto(c, "setting_status", "done")
  /\ status' \in {status, [status EXCEPT ![target[c]] = wanted[c]]}
  /\ UNCHANGED <<args, left, approved, jobs, events, profile, creds, overlapped>>

SetStatus(c) ==
  /\ Awaits(c, "setting_status", "done",
            status' = [status EXCEPT ![target[c]] = wanted[c]], UNCHANGED status)
  /\ UNCHANGED <<args, left, approved, jobs, events, profile, creds, overlapped>>

AddJob(c) ==
  /\ Awaits(c, "adding_job", "creating", jobs' = jobs \cup {c}, UNCHANGED jobs)
  /\ UNCHANGED <<args, left, approved, status, events, profile, creds, overlapped>>

Create(c) ==
  /\ Awaits(c, "creating", "logging",
            status' = [status EXCEPT ![c] = wanted[c]], UNCHANGED status)
  /\ UNCHANGED <<args, left, approved, jobs, events, profile, creds, overlapped>>

Log(c) ==
  /\ Awaits(c, "logging", "done", Logged(c, c), UNCHANGED events)
  /\ UNCHANGED <<args, left, approved, jobs, status, profile, creds, overlapped>>

-----------------------------------------------------------------------------
(* The other writes: profile_save, resume_store and job_capture.           *)

\* An empty batch, or one that is no dict, is reported as nothing to save.
SaveNothing(c) ==
  /\ facts[c] = {}
  /\ Goto(c, "saving", "nothing")
  /\ UNCHANGED <<args, left, approved, rows, overlapped>>

\* Mutant: the tool reports success after the first fact.
SaveFirstFact(c) ==
  \E k \in left[c] :
    /\ Awaits(c, "saving", "done",
              profile' = [profile EXCEPT ![k] = Append(@, c)], UNCHANGED profile)
    /\ left' = [left EXCEPT ![c] = @ \ {k}]
    /\ UNCHANGED <<args, approved, jobs, status, events, creds, overlapped>>

\* One round of the loop: the upsert of one fact.
SaveFact(c) ==
  \E k \in left[c] :
    /\ Awaits(c, "saving", IF left[c] = {k} THEN "done" ELSE "saving",
              profile' = [profile EXCEPT ![k] = Append(@, c)], UNCHANGED profile)
    /\ left' = [left EXCEPT ![c] = @ \ {k}]
    /\ UNCHANGED <<args, approved, jobs, status, events, creds, overlapped>>

\* The model's answer parses, does not, or does not come.
Decompose(c) ==
  /\ \E to \in {"storing", "nothing", "broken"} : Goto(c, "decomposing", to)
  /\ UNCHANGED <<args, left, approved, rows, overlapped>>

AddCredentials(c) ==
  /\ Awaits(c, "storing", "done", creds' = creds \cup {c}, UNCHANGED creds)
  /\ UNCHANGED <<args, left, approved, jobs, status, events, profile, overlapped>>

ExtractJob(c) ==
  /\ \E to \in {"capturing", "nothing", "broken"} : Goto(c, "extracting", to)
  /\ UNCHANGED <<args, left, approved, rows, overlapped>>

CaptureJob(c) ==
  /\ Awaits(c, "capturing", "done", jobs' = jobs \cup {c}, UNCHANGED jobs)
  /\ UNCHANGED <<args, left, approved, status, events, profile, creds, overlapped>>

-----------------------------------------------------------------------------
(* The reads.                                                              *)

\* job_search_match looks for the job among all jobs, if it was given one.
ListJobs(c) ==
  /\ \E to \in {"answering", "broken"} : Goto(c, "listing", to)
  /\ UNCHANGED <<args, left, approved, rows, overlapped>>

\* profile_recall reads the facts, the others ask the model.
AnswerRead(c) ==
  /\ \E to \in {"done", "broken"} : Goto(c, "answering", to)
  /\ UNCHANGED <<args, left, approved, rows, overlapped>>

BodyStep(c) ==
  \/ LookUp(c) \/ AddEvent(c) \/ SetStatus(c)
  \/ AddJob(c) \/ Create(c) \/ Log(c)
  \/ SaveNothing(c) \/ SaveFact(c)
  \/ Decompose(c) \/ AddCredentials(c)
  \/ ExtractJob(c) \/ CaptureJob(c)
  \/ ListJobs(c) \/ AnswerRead(c)

RequestAny(c) ==
  \/ \E a \in {NoApplication, Unknown} \cup Echoed, s \in Statuses :
       Request(c, "application_track", a, s, {})
  \/ \E f \in SUBSET Keys : Request(c, "profile_save", NoApplication, "none", f)
  \/ \E t \in Tools \ {"application_track", "profile_save"} :
       Request(c, t, NoApplication, "none", {})

Next == \E c \in Calls : RequestAny(c) \/ Allow(c) \/ Refuse(c) \/ BodyStep(c)

Spec == Init /\ [][Next]_vars

-----------------------------------------------------------------------------
(* Properties.                                                             *)

TypeOK ==
  /\ pc \in [Calls -> {"idle", "asked"} \cup Body \cup Ended]
  /\ tool \in [Calls -> Tools \cup {"none"}]
  /\ target \in [Calls -> Calls \cup {NoApplication, Unknown}]
  /\ wanted \in [Calls -> Statuses \cup {"none"}]
  /\ facts \in [Calls -> SUBSET Keys] /\ left \in [Calls -> SUBSET Keys]
  /\ approved \subseteq Calls /\ jobs \subseteq Calls
  /\ creds \subseteq Calls /\ overlapped \subseteq Calls
  /\ status \in [Calls -> Statuses \cup {"none"}]
  /\ events \in [Calls -> Seq([by : Calls, status : Statuses])]
  /\ profile \in [Keys -> Seq(Calls)]

EventsOf(a) == {events[a][i] : i \in DOMAIN events[a]}
Writers(k) == {profile[k][i] : i \in DOMAIN profile[k]}

\* The kinds of rows that call c has written, in the words of the prompts.
Wrote(c) ==
     {w \in {"log"} : status[c] # "none"}
\cup {w \in {"update"} : \E a \in Calls \ {c} : \E e \in EventsOf(a) : e.by = c}
\cup {w \in {"profile_save"} : \E k \in Keys : c \in Writers(k)}
\cup {w \in {"resume_store"} : c \in creds}
\cup {w \in {"job_capture"} : c \in jobs /\ tool[c] # "application_track"}
\cup {w \in {"log"} : c \in jobs /\ tool[c] = "application_track"}

\* Whatever rows a call has written, on whichever path and however far it got,
\* the gate allowed it and its prompt named that write (registry.py 7-9: the
\* intent describes the write).  The exception is an update of an application
\* that does not exist, which is carried out as a new one.
WritesAsApproved ==
  \A c \in Calls : Wrote(c) # {} =>
    /\ c \in approved
    /\ \/ Wrote(c) = {Intent(c)}
       \/ target[c] = Unknown /\ Wrote(c) = {"log"}

\* A tool that reports success has written everything its report says, and one
\* that reports nothing saved has written nothing (SPEC.md 545-548), whatever
\* other calls do in between.
ReportIsTrue ==
  \A c \in Calls :
    /\ pc[c] = "nothing" => Wrote(c) = {}
    /\ pc[c] = "done" =>
         CASE Intent(c) = "none" -> Wrote(c) = {}
           [] Intent(c) = "profile_save" -> \A k \in facts[c] : c \in Writers(k)
           [] Intent(c) = "resume_store" -> c \in creds
           [] Intent(c) = "job_capture" -> c \in jobs
           [] OTHER -> /\ \E a \in {c, target[c]} \cap Calls :
                            [by |-> c, status |-> wanted[c]] \in EventsOf(a)
                       /\ target[c] \notin Calls => c \in jobs /\ status[c] # "none"

\* An update never changes a status without having logged it: the status of an
\* application is the one it was created with or that of one of its events,
\* wherever updates failed, were cut or met (application_track.py 39-42).
StatusHasHistory ==
  \A a \in Calls :
    status[a] # "none" =>
      status[a] = wanted[a] \/ \E e \in EventsOf(a) : e.status = status[a]

\* The status is that of the last event once no update is under way, unless
\* one broke off between the two or two overlapped (tables.py 103, the events
\* are the history of the status).
StatusIsLastEvent ==
  \A a \in Calls \ overlapped :
    (\A c \in Calls : c = a \/ target[c] = a => pc[c] \notin Body \cup {"broken"})
      => \/ status[a] = "none"
         \/ events[a] # <<>> /\ status[a] = events[a][Len(events[a])].status
=============================================================================
