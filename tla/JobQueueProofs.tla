---------------------------- MODULE JobQueueProofs ----------------------------
(***************************************************************************)
(* The job queue for any capacity, number of permits, configuration and    *)
(* number of submitters: permits are kept, a status belongs to a job, and  *)
(* no job is lost or doubled between submission and end.                   *)
(***************************************************************************)
EXTENDS JobQueue, FiniteSetTheorems, FunctionTheorems, TLAPS

\* A leaf is first-order reasoning unless it names SMT, for arithmetic.
USE ZenonT(30)

States == {"none", "pending", "processing", "failed"}

Types ==
    /\ chan \in Seq(Jobs) /\ Len(chan) <= Capacity
    /\ slot \in Jobs \cup {None}
    /\ running \in [JobIds -> Spawned \cup {None}]
    /\ status \in [Keys -> States]
    /\ out \in [Submitters -> Seq(Jobs)]
    /\ pended \subseteq Submitters /\ produced \in 0 .. MaxJobs
    /\ detached \subseteq Keys

(* A submitter that waits for room has a job, and of the jobs that run only *)
(* one that is submitting has jobs to submit: a step that outlived its job  *)
(* is never taken for a step of the next one.                               *)
Submitting ==
    /\ \A s \in pended : out[s] # <<>>
    /\ \A i \in JobIds : out[i] # <<>> => running[i] = None \/ running[i].at = "submitting"

Holders == {i \in JobIds : running[i] # None /\ running[i].permit}

Permitted ==
    /\ \A i \in JobIds : running[i] # None => (running[i].permit <=> running[i].at = "spawned")
    /\ free \in Nat /\ free + Cardinality(Holders) = Permits

Settled ==
    \A u \in Keys \ detached : status[u] \in {"pending", "processing"} <=> HasJob(u)

IInv == Types /\ Submitting /\ Permitted /\ Settled

-----------------------------------------------------------------------------
(* Types *)

LEMMA JobFacts ==
    ASSUME NEW j \in Jobs
    PROVE  j # None /\ j.url \in Keys
BY SMTT(30), NoneAssumption DEF Jobs, WorkerJobs, TokenizerJobs, Keys, Job

LEMMA RunFacts ==
    ASSUME NEW e \in Spawned
    PROVE  e # None /\ e.job \in Jobs /\ e.permit \in BOOLEAN
BY NoneAssumption DEF Spawned

LEMMA TypeStep ==
    ASSUME Types, Submitting, [Next]_vars
    PROVE  Types'
<1>1. ASSUME NEW u, NEW s \in States, SetStatus(u, s)
      PROVE  status' \in [Keys -> States]
    BY <1>1 DEF Types, SetStatus
<1>2. ASSUME NEW s \in Producers, NEW job \in WorkerJobs, Produce(s, job) PROVE Types'
    <2>1. <<job>> \in Seq(Jobs) BY SMTT(30) DEF Jobs
    <2>2. s \in Submitters BY DEF Submitters
    <2>3. out' \in [Submitters -> Seq(Jobs)] BY <1>2, <2>1, <2>2 DEF Types, Produce
    <2>4. produced' \in 0 .. MaxJobs BY SMTT(30), <1>2, QueueAssumption DEF Types, Produce
    <2> QED BY <1>2, <2>3, <2>4 DEF Types, Produce
<1>3. ASSUME NEW s \in Submitters, RecordPending(s) PROVE Types'
    <2>1. status' \in [Keys -> States]
        BY <1>1, <1>3 DEF RecordPending, States
    <2>2. pended' \subseteq Submitters BY <1>3 DEF Types, RecordPending
    <2>3. detached' \subseteq Keys BY <1>3 DEF Types, RecordPending
    <2> QED BY <1>3, <2>1, <2>2, <2>3 DEF Types, RecordPending
<1>4. ASSUME NEW s \in Submitters, Send(s) PROVE Types'
    <2>1. /\ out[s] \in Seq(Jobs) /\ out[s] # <<>>
          /\ chan \in Seq(Jobs) /\ Len(chan) < Capacity
        BY <1>4 DEF Types, Submitting, Send
    <2>2. Head(out[s]) \in Jobs /\ Tail(out[s]) \in Seq(Jobs) BY SMTT(30), <2>1
    <2>3. chan' \in Seq(Jobs) /\ Len(chan') <= Capacity
        BY SMTT(30), <1>4, <2>1, <2>2, QueueAssumption DEF Send
    <2>4. out' \in [Submitters -> Seq(Jobs)] BY <1>4, <2>2 DEF Types, Send
    <2> QED BY <1>4, <2>3, <2>4 DEF Types, Send
<1>5. CASE Receive
    <2>1. chan \in Seq(Jobs) /\ chan # <<>> /\ Len(chan) <= Capacity BY <1>5 DEF Types, Receive
    <2>2. Head(chan) \in Jobs /\ Tail(chan) \in Seq(Jobs) /\ Len(Tail(chan)) <= Capacity
        BY SMTT(30), <2>1, QueueAssumption
    <2> QED BY <1>5, <2>2 DEF Types, Receive
<1>6. CASE Spawn
    <2>1. [job |-> slot, at |-> "spawned", permit |-> TRUE] \in Spawned
        BY <1>6 DEF Types, Spawn, Spawned
    <2>2. running' \in [JobIds -> Spawned \cup {None}] BY <1>6, <2>1 DEF Types, Spawn
    <2> QED BY <1>6, <2>2 DEF Types, Spawn
<1>7. ASSUME NEW i \in JobIds, Process(i) PROVE Types'
    <2>1. running[i] \in Spawned BY <1>7 DEF Types, Process
    <2>2. [running[i] EXCEPT !.at = "executing", !.permit = FALSE] \in Spawned
        BY <2>1 DEF Spawned
    <2>3. running' \in [JobIds -> Spawned \cup {None}] BY <1>7, <2>2 DEF Types, Process
    <2>4. status' \in [Keys -> States] BY <1>1, <1>7 DEF Process, States
    <2>5. detached' \subseteq Keys BY <1>7 DEF Types, Process
    <2> QED BY <1>7, <2>3, <2>4, <2>5 DEF Types, Process
<1>8. ASSUME NEW i \in JobIds, NEW ok \in BOOLEAN, running[i] # None, Complete(i, ok)
      PROVE  Types'
    <2>1. running' \in [JobIds -> Spawned \cup {None}] BY <1>8 DEF Types, Complete, EndJob
    <2>2. status' \in [Keys -> States] BY <1>1, <1>8 DEF Complete, States
    <2>3. running[i].job.url \in Keys BY <1>8, RunFacts, JobFacts DEF Types
    <2>4. detached' \subseteq Keys BY <1>8, <2>3 DEF Types, Complete, EndJob, Detach
    <2> QED BY <1>8, <2>1, <2>2, <2>4 DEF Types, Complete, EndJob
<1>9. ASSUME NEW i \in JobIds, SubmitConfigured(i) PROVE Types'
    <2>1. running[i] \in Spawned BY <1>9 DEF Types, SubmitConfigured, Is
    <2>2. [running[i] EXCEPT !.at = "submitting"] \in Spawned BY <2>1 DEF Spawned
    <2>3. running' \in [JobIds -> Spawned \cup {None}] BY <1>9, <2>2 DEF Types, SubmitConfigured
    <2>4. [n \in DOMAIN Configured |-> Job("add", Configured[n])] \in Seq(Jobs)
        <3>1. /\ DOMAIN Configured = 1 .. Len(Configured) /\ Len(Configured) \in Nat
              /\ \A n \in DOMAIN Configured : Configured[n] \in Urls
            BY SMTT(30), QueueAssumption
        <3>2. \A n \in DOMAIN Configured : Job("add", Configured[n]) \in Jobs
            BY <3>1 DEF Job, Jobs, WorkerJobs
        <3> QED BY SMTT(30), <3>1, <3>2
    <2>5. out' \in [Submitters -> Seq(Jobs)] BY <1>9, <2>4 DEF Types, SubmitConfigured
    <2> QED BY <1>9, <2>3, <2>5 DEF Types, SubmitConfigured
<1>10. ASSUME NEW i \in JobIds, NEW t \in Tokenizers, SubmitTokenizer(i, t) PROVE Types'
    <2>1. running[i] \in Spawned BY <1>10 DEF Types, SubmitTokenizer, Is
    <2>2. [running[i] EXCEPT !.at = "submitting"] \in Spawned BY <2>1 DEF Spawned
    <2>3. running' \in [JobIds -> Spawned \cup {None}] BY <1>10, <2>2 DEF Types, SubmitTokenizer
    <2>4. Job("tokenizer", t) \in Jobs BY DEF Job, Jobs, TokenizerJobs
    <2>5. <<Job("tokenizer", t)>> \in Seq(Jobs) BY SMTT(30), <2>4
    <2>6. out' \in [Submitters -> Seq(Jobs)] BY <1>10, <2>5 DEF Types, SubmitTokenizer
    <2> QED BY <1>10, <2>3, <2>6 DEF Types, SubmitTokenizer
<1>11. ASSUME NEW u \in DOMAIN status, Expire(u) PROVE Types'
    <2>1. status' \in [Keys -> States] BY <1>1, <1>11 DEF Expire, States
    <2>2. detached' \subseteq Keys BY <1>11 DEF Types, Expire, Detach
    <2> QED BY <1>11, <2>1, <2>2 DEF Types, Expire
<1>12. ASSUME NEW s \in Submitters, Abandon(s) PROVE Types'
    <2>1. out[s] \in Seq(Jobs) /\ out[s] # <<>> BY <1>12 DEF Types, Submitting, Abandon
    <2>2. Head(out[s]).url \in Keys BY SMTT(30), <2>1, JobFacts
    <2>3. <<>> \in Seq(Jobs) BY SMTT(30)
    <2>4. out' \in [Submitters -> Seq(Jobs)] BY <1>12, <2>3 DEF Types, Abandon
    <2>5. detached' \subseteq Keys BY <1>12, <2>2 DEF Types, Abandon
    <2> QED BY <1>12, <2>4, <2>5 DEF Types, Abandon
<1>13. CASE UNCHANGED vars BY <1>13 DEF Types, vars
<1>14. ASSUME NEW i \in JobIds, Run(i) PROVE Types'
    BY <1>7, <1>8, <1>9, <1>10, <1>14 DEF Run, EndConfigured, Execute, Is
<1> QED BY <1>2, <1>3, <1>4, <1>5, <1>6, <1>11, <1>12, <1>13, <1>14 DEF Next, Submit, Dispatcher

-----------------------------------------------------------------------------
(* Submitters *)

LEMMA SubmittingStep ==
    ASSUME Types, Submitting, [Next]_vars
    PROVE  Submitting'
<1>1. ASSUME NEW s \in Producers, NEW job \in WorkerJobs, Produce(s, job) PROVE Submitting'
    <2>1. s \notin JobIds BY QueueAssumption
    <2>2. s \in Submitters /\ JobIds \subseteq Submitters BY DEF Submitters
    <2>3. out' = [out EXCEPT ![s] = <<job>>] /\ UNCHANGED <<running, pended>> BY <1>1 DEF Produce
    <2>4. \A x \in Submitters : x # s => out'[x] = out[x] BY <2>3 DEF Types
    <2>5. out'[s] # <<>> BY <2>2, <2>3 DEF Types
    <2> QED BY <2>1, <2>2, <2>3, <2>4, <2>5 DEF Submitting, Types
<1>2. ASSUME NEW s \in Submitters, RecordPending(s) PROVE Submitting'
    BY <1>2 DEF Submitting, RecordPending
<1>3. ASSUME NEW s \in Submitters, Send(s) PROVE Submitting'
    <2>1. /\ out' = [out EXCEPT ![s] = Tail(@)] /\ pended' = pended \ {s} /\ s \in pended
          /\ UNCHANGED running
        BY <1>3 DEF Send
    <2>2. JobIds \subseteq Submitters BY DEF Submitters
    <2>3. \A x \in Submitters : x # s => out'[x] = out[x] BY <2>1 DEF Types
    <2>4. out[s] # <<>> BY <2>1 DEF Submitting
    <2> QED BY <2>1, <2>2, <2>3, <2>4 DEF Submitting, Types
<1>4. CASE Receive BY <1>4 DEF Submitting, Receive
<1>5. CASE Spawn
    <2>1. UNCHANGED <<out, pended>> BY <1>5 DEF Spawn
    <2>2. \A i \in JobIds : out[i] # <<>> => running'[i] = running[i]
        BY <1>5 DEF Spawn, FirstUnused, Unused, Types
    <2> QED BY <2>1, <2>2 DEF Submitting
<1>6. ASSUME NEW i \in JobIds, running'[i] = None \/ out[i] = <<>>,
             UNCHANGED <<out, pended>>, \A x \in JobIds : x # i => running'[x] = running[x]
      PROVE  Submitting'
    BY <1>6 DEF Submitting
<1>7. ASSUME NEW i \in JobIds, Process(i) PROVE Submitting'
    BY <1>6, <1>7 DEF Process, Types, Submitting
<1>8. ASSUME NEW i \in JobIds, EndConfigured(i) PROVE Submitting'
    BY <1>6, <1>8 DEF EndConfigured, Complete, EndJob, Types
<1>9. ASSUME NEW i \in JobIds, NEW ok, Execute(i, ok) PROVE Submitting'
    BY <1>6, <1>9 DEF Execute, Complete, EndJob, Types, Is
<1>10. ASSUME NEW i \in JobIds, running[i] # None, running[i].at = "executing", NEW q,
              out' = [out EXCEPT ![i] = q],
              running' = [running EXCEPT ![i].at = "submitting"], UNCHANGED pended
       PROVE  Submitting'
    <2>1. running[i] \in Spawned BY <1>10 DEF Types
    <2>2. i \notin pended BY <1>10 DEF Submitting
    <2>3. running'[i].at = "submitting"
        <3>1. running'[i] = [running[i] EXCEPT !.at = "submitting"] BY <1>10 DEF Types
        <3> QED BY <2>1, <3>1 DEF Spawned
    <2>4. \A x \in JobIds : x # i => running'[x] = running[x] /\ out'[x] = out[x]
        BY <1>10 DEF Types, Submitters
    <2>5. \A s \in pended : out'[s] = out[s] BY <1>10, <2>2 DEF Types
    <2> QED BY <1>10, <2>2, <2>3, <2>4, <2>5 DEF Submitting
<1>11. ASSUME NEW i \in JobIds, SubmitConfigured(i) PROVE Submitting'
    BY <1>10, <1>11 DEF SubmitConfigured, Is
<1>12. ASSUME NEW i \in JobIds, NEW t, SubmitTokenizer(i, t) PROVE Submitting'
    BY <1>10, <1>12 DEF SubmitTokenizer, Is
<1>13. ASSUME NEW s \in Submitters, Abandon(s) PROVE Submitting'
    <2>1. /\ out' = [out EXCEPT ![s] = <<>>] /\ pended' = pended \ {s} /\ UNCHANGED running
        BY <1>13 DEF Abandon
    <2>2. JobIds \subseteq Submitters BY DEF Submitters
    <2>3. \A x \in Submitters : out'[x] = IF x = s THEN <<>> ELSE out[x] BY <2>1 DEF Types
    <2> QED BY <2>1, <2>2, <2>3 DEF Submitting, Types
<1>14. ASSUME NEW u, Expire(u) PROVE Submitting' BY <1>14 DEF Submitting, Expire
<1>15. CASE UNCHANGED vars BY <1>15 DEF Submitting, vars
<1> QED BY <1>1, <1>2, <1>3, <1>4, <1>5, <1>7, <1>8, <1>9, <1>11, <1>12, <1>13, <1>14, <1>15
           DEF Next, Submit, Dispatcher, Run

-----------------------------------------------------------------------------
(* Counting *)

One(b) == IF b THEN 1 ELSE 0

(* Changing one element changes the size of a set by at most one.          *)
LEMMA SizeOfChange ==
    ASSUME NEW S, IsFiniteSet(S), NEW x, NEW T, T \ {x} = S \ {x}
    PROVE  /\ IsFiniteSet(T) /\ Cardinality(S) \in Nat /\ Cardinality(T) \in Nat
           /\ Cardinality(T) + One(x \in S) = Cardinality(S) + One(x \in T)
           /\ Cardinality(S) >= One(x \in S)
<1>1. Cardinality(S) \in Nat BY FS_CardinalityType
<1>2. CASE (x \in S) <=> (x \in T)
    <2>1. T = S BY SMTT(30), <1>2
    <2>2. x \in S => Cardinality(S) >= 1
        <3>1. x \in S => S # {} OBVIOUS
        <3> QED BY SMTT(30), <1>1, <3>1, FS_EmptySet
    <2> QED BY SMTT(30), <1>1, <2>1, <2>2 DEF One
<1>3. CASE x \in T /\ x \notin S
    <2>1. T = S \cup {x} BY <1>3
    <2>2. IsFiniteSet(T) /\ Cardinality(T) = Cardinality(S) + 1 BY <1>3, <2>1, FS_AddElement
    <2> QED BY SMTT(30), <1>1, <1>3, <2>2 DEF One
<1>4. CASE x \in S /\ x \notin T
    <2>1. T = S \ {x} BY <1>4
    <2>2. IsFiniteSet(T) /\ Cardinality(T) = Cardinality(S) - 1 /\ Cardinality(T) \in Nat
        BY <1>4, <2>1, FS_RemoveElement, FS_CardinalityType
    <2> QED BY SMTT(30), <1>1, <1>4, <2>2 DEF One
<1> QED BY <1>2, <1>3, <1>4

LEMMA PermittedStep ==
    ASSUME Types, Permitted, [Next]_vars
    PROVE  Permitted'
<1>1. IsFiniteSet(Holders) BY QueueAssumption, FS_Subset DEF Holders
<1>2. ASSUME UNCHANGED <<running, free>> PROVE Permitted' BY <1>2 DEF Permitted, Holders
<1>3. ASSUME NEW i \in JobIds, NEW e \in Spawned \cup {None},
             running' = [running EXCEPT ![i] = e],
             e # None => (e.permit <=> e.at = "spawned"),
             free' \in Nat,
             free' + One(e # None /\ e.permit) = free + One(i \in Holders)
      PROVE  Permitted'
    <2>1. \A x \in JobIds : running'[x] = IF x = i THEN e ELSE running[x] BY <1>3 DEF Types
    <2>2. Holders' \ {i} = Holders \ {i} /\ (i \in Holders' <=> e # None /\ e.permit)
        BY <1>3, <2>1 DEF Holders
    <2> DEFINE H == Holders
               K == Holders'
    <2>3. /\ Cardinality(H) \in Nat /\ Cardinality(K) \in Nat
          /\ Cardinality(K) + One(i \in H) = Cardinality(H) + One(i \in K)
        <3>1. IsFiniteSet(H) BY <1>1
        <3>2. K \ {i} = H \ {i} BY <2>2
        <3> HIDE DEF H, K
        <3> QED BY SMTT(30), <3>1, <3>2, SizeOfChange
    <2>4. free + Cardinality(H) = Permits /\ free \in Nat BY DEF Permitted
    <2>5. i \in K <=> e # None /\ e.permit BY <2>2
    <2>6. free' + One(i \in K) = free + One(i \in H) BY <1>3, <2>5 DEF One
    <2>7. free' + Cardinality(K) = Permits
        <3>1. One(i \in K) \in Nat /\ One(i \in H) \in Nat BY DEF One
        <3> HIDE DEF H, K
        <3> QED BY SMTT(30), <1>3, <2>3, <2>4, <2>6, <3>1
    <2>8. \A x \in JobIds : running'[x] # None =>
                              (running'[x].permit <=> running'[x].at = "spawned")
        BY SMTT(30), <1>3, <2>1 DEF Permitted
    <2> QED BY <1>3, <2>7, <2>8 DEF Permitted
<1>4. CASE Spawn
    <2> DEFINE e == [job |-> slot, at |-> "spawned", permit |-> TRUE]
    <2>1. PICK i \in JobIds : running[i] = None /\ running' = [running EXCEPT ![i] = e]
        BY <1>4 DEF Spawn, FirstUnused, Unused
    <2>2. e \in Spawned /\ e.permit /\ e.at = "spawned" /\ e # None
        BY <1>4, RunFacts DEF Types, Spawn, Spawned
    <2>3. i \notin Holders BY <2>1 DEF Holders
    <2>4. free' \in Nat /\ free' = free - 1 BY SMTT(30), <1>4 DEF Spawn, Permitted
    <2> HIDE DEF e
    <2>5. free' + One(e # None /\ e.permit) = free + One(i \in Holders)
        <3>1. free \in Nat BY DEF Permitted
        <3>2. e # None /\ e.permit /\ i \notin Holders BY <2>2, <2>3
        <3> QED BY SMTT(30), <2>4, <3>1, <3>2 DEF One
    <2> QED BY <1>3, <2>1, <2>2, <2>4, <2>5
<1>5. ASSUME NEW i \in JobIds, Process(i) PROVE Permitted'
    <2> DEFINE e == [running[i] EXCEPT !.at = "executing", !.permit = FALSE]
    <2>1. running[i] \in Spawned /\ running[i].at = "spawned" BY <1>5 DEF Types, Process
    <2>2. e \in Spawned /\ ~e.permit /\ e.at = "executing" BY <2>1 DEF Spawned
    <2>3. running' = [running EXCEPT ![i] = e] /\ free' = free + 1 BY <1>5 DEF Process, Types
    <2>4. i \in Holders BY <1>5, <2>1 DEF Holders, Permitted, Process
    <2> HIDE DEF e
    <2>5. free' \in Nat /\ free' + One(e # None /\ e.permit) = free + One(i \in Holders)
        BY SMTT(30), <2>2, <2>3, <2>4 DEF One, Permitted
    <2> QED BY <1>3, <2>2, <2>3, <2>5
<1>6. ASSUME NEW i \in JobIds, NEW ok, running[i] # None, Complete(i, ok) PROVE Permitted'
    <2>1. /\ running' = [running EXCEPT ![i] = None]
          /\ free' = IF running[i].permit THEN free + 1 ELSE free
        BY <1>6 DEF Complete, EndJob
    <2>2. i \in Holders <=> running[i].permit BY <1>6 DEF Holders
    <2>3. free' \in Nat /\ free' + One(None # None /\ None.permit) = free + One(i \in Holders)
        BY SMTT(30), <2>1, <2>2 DEF One, Permitted
    <2> QED BY <1>3, <2>1, <2>3
<1>7. ASSUME NEW i \in JobIds, SubmitConfigured(i) \/ \E t \in Tokenizers : SubmitTokenizer(i, t)
      PROVE  Permitted'
    <2> DEFINE e == [running[i] EXCEPT !.at = "submitting"]
    <2>1. running[i] \in Spawned /\ running[i].at = "executing" /\ running[i] # None
        BY <1>7 DEF Types, SubmitConfigured, SubmitTokenizer, Is
    <2>2. e \in Spawned /\ e.at = "submitting" /\ (e.permit <=> running[i].permit)
        BY <2>1 DEF Spawned
    <2>3. running' = [running EXCEPT ![i] = e] /\ free' = free
        BY <1>7 DEF SubmitConfigured, SubmitTokenizer, Types
    <2>4. ~running[i].permit /\ i \notin Holders BY <2>1 DEF Holders, Permitted
    <2> HIDE DEF e
    <2>5. free' \in Nat /\ free' + One(e # None /\ e.permit) = free + One(i \in Holders)
        BY <2>2, <2>3, <2>4 DEF One, Permitted
    <2> QED BY <1>3, <2>2, <2>3, <2>4, <2>5
<1>8. ASSUME NEW i \in JobIds, Run(i) PROVE Permitted'
    BY <1>5, <1>6, <1>7, <1>8 DEF Run, EndConfigured, Execute, Is
<1>9. ASSUME NEW s, NEW job, Produce(s, job) PROVE Permitted' BY <1>2, <1>9 DEF Produce
<1>10. ASSUME NEW s, Submit(s) PROVE Permitted' BY <1>2, <1>10 DEF Submit, RecordPending, Send, Abandon
<1>11. CASE Receive BY <1>2, <1>11 DEF Receive
<1>12. ASSUME NEW u, Expire(u) PROVE Permitted' BY <1>2, <1>12 DEF Expire
<1>13. CASE UNCHANGED vars BY <1>2, <1>13 DEF vars
<1> QED BY <1>4, <1>8, <1>9, <1>10, <1>11, <1>12, <1>13 DEF Next, Dispatcher

-----------------------------------------------------------------------------
(* Statuses *)

(* A key has the job until the job ends or its submitter is dropped,       *)
(* wherever the job is.                                                    *)
LEMMA SettledStep ==
    ASSUME Types, Submitting, Settled, [Next]_vars
    PROVE  Settled'
<1> DEFINE Same(u) == HasJob(u) <=> HasJob(u)'
<1>1. ASSUME \A u : Same(u), UNCHANGED <<status, detached>> PROVE Settled' BY <1>1 DEF Settled
<1>2. ASSUME NEW x, NEW s, SetStatus(x, s), \A u : u # x => Same(u),
             \A u : u # x => (u \in detached <=> u \in detached'),
             x \notin detached' => (s \in {"pending", "processing"} <=> HasJob(x)')
      PROVE  Settled'
    <2>1. \A u \in Keys : status'[u] = IF u = x THEN s ELSE status[u] BY <1>2 DEF SetStatus, Types
    <2> QED BY <1>2, <2>1 DEF Settled
<1>3. ASSUME UNCHANGED <<chan, slot, running, pended>>, \A s \in pended : out'[s] = out[s]
      PROVE  \A u : Same(u)
    BY <1>3 DEF HasJob
<1>4. ASSUME NEW s \in Producers, NEW job \in WorkerJobs, Produce(s, job) PROVE Settled'
    <2>1. s \notin pended BY <1>4 DEF Produce, Submitting
    <2>2. \A x \in pended : out'[x] = out[x] BY <1>4, <2>1 DEF Produce, Types
    <2> QED BY <1>1, <1>3, <1>4, <2>2 DEF Produce
<1>5. ASSUME NEW s \in Submitters, RecordPending(s) PROVE Settled'
    <2>1. PICK x : x = Head(out[s]).url OBVIOUS
    <2>2. /\ UNCHANGED <<chan, slot, running, out>> /\ pended' = pended \cup {s}
          /\ detached' = detached \ {x} /\ SetStatus(x, "pending")
        BY <1>5, <2>1 DEF RecordPending
    <2>3. HasJob(x)' BY <2>1, <2>2 DEF HasJob
    <2>4. \A u : u # x => Same(u) BY <2>1, <2>2 DEF HasJob
    <2> QED BY <1>2, <2>2, <2>3, <2>4
<1>6. ASSUME NEW s \in Submitters, Send(s) PROVE Settled'
    <2>1. /\ out[s] \in Seq(Jobs) /\ out[s] # <<>> /\ chan \in Seq(Jobs) /\ s \in pended
          /\ chan' = Append(chan, Head(out[s])) /\ pended' = pended \ {s}
          /\ UNCHANGED <<slot, running, status, detached>>
        BY <1>6 DEF Types, Submitting, Send
    <2>2. \A x \in pended' : out'[x] = out[x] BY <1>6, <2>1 DEF Send, Types
    <2>3. /\ \A n \in DOMAIN chan : n \in DOMAIN chan' /\ chan'[n] = chan[n]
          /\ Len(chan) + 1 \in DOMAIN chan' /\ chan'[Len(chan) + 1] = Head(out[s])
          /\ \A n \in DOMAIN chan' : n = Len(chan) + 1 \/ n \in DOMAIN chan
        BY SMTT(30), <2>1
    <2> DEFINE Sent(u) == \/ \E x \in pended : Head(out[x]).url = u
                          \/ \E n \in DOMAIN chan : chan[n].url = u
    <2>4. ASSUME NEW u, Sent(u) PROVE Sent(u)'
        <3>1. CASE \E x \in pended : Head(out[x]).url = u BY <2>1, <2>2, <2>3, <3>1
        <3>2. CASE \E n \in DOMAIN chan : chan[n].url = u BY <2>3, <3>2
        <3> QED BY <2>4, <3>1, <3>2
    <2>5. ASSUME NEW u, Sent(u)' PROVE Sent(u)
        <3>1. CASE \E x \in pended' : Head(out'[x]).url = u BY <2>1, <2>2, <3>1
        <3>2. CASE \E n \in DOMAIN chan' : chan'[n].url = u
            <4>1. PICK n \in DOMAIN chan' : chan'[n].url = u BY <3>2
            <4>2. CASE n = Len(chan) + 1 BY <2>1, <2>3, <4>1, <4>2
            <4>3. CASE n \in DOMAIN chan BY <2>3, <4>1, <4>3
            <4> QED BY <2>3, <4>2, <4>3
        <3> QED BY <2>5, <3>1, <3>2
    <2> DEFINE Taken(u) == \/ slot # None /\ slot.url = u
                           \/ \E i \in JobIds : running[i] # None /\ running[i].job.url = u
    <2>6. \A u : (HasJob(u) <=> Sent(u) \/ Taken(u)) /\ (HasJob(u)' <=> Sent(u)' \/ Taken(u)')
        BY DEF HasJob
    <2>7. \A u : Taken(u)' <=> Taken(u) BY <2>1
    <2> HIDE DEF Sent, Taken
    <2> QED BY <1>1, <2>1, <2>4, <2>5, <2>6, <2>7
<1>7. CASE Receive
    <2>1. /\ chan \in Seq(Jobs) /\ chan # <<>> /\ slot' = Head(chan) /\ chan' = Tail(chan)
          /\ slot = None /\ UNCHANGED <<out, pended, running, status, detached>>
        BY <1>7 DEF Types, Receive
    <2>2. slot' # None BY SMTT(30), <2>1, JobFacts
    <2>3. ASSUME NEW n \in DOMAIN chan
          PROVE  chan[n] = slot' \/ \E m \in DOMAIN chan' : chan'[m] = chan[n]
        <3>1. CASE n = 1 BY SMTT(30), <2>1, <3>1
        <3>2. CASE n # 1
            <4>1. n - 1 \in DOMAIN chan' /\ chan'[n - 1] = chan[n] BY SMTT(30), <2>1, <3>2
            <4> QED BY <4>1
        <3> QED BY <3>1, <3>2
    <2>4. /\ \A m \in DOMAIN chan' : \E n \in DOMAIN chan : chan[n] = chan'[m]
          /\ \E n \in DOMAIN chan : chan[n] = slot'
        <3>1. ASSUME NEW m \in DOMAIN chan' PROVE m + 1 \in DOMAIN chan /\ chan[m + 1] = chan'[m]
            BY SMTT(30), <2>1
        <3>2. 1 \in DOMAIN chan /\ chan[1] = slot' BY SMTT(30), <2>1
        <3> QED BY <3>1, <3>2
    <2>5. ASSUME NEW u
          PROVE  (\E n \in DOMAIN chan : chan[n].url = u)
                   <=> (slot'.url = u \/ \E m \in DOMAIN chan' : chan'[m].url = u)
        BY <2>3, <2>4
    <2>6. \A u : Same(u) BY <2>1, <2>2, <2>5 DEF HasJob
    <2> QED BY <1>1, <2>1, <2>6
<1>8. CASE Spawn
    <2> DEFINE e == [job |-> slot, at |-> "spawned", permit |-> TRUE]
    <2>1. PICK i \in JobIds : running[i] = None /\ running' = [running EXCEPT ![i] = e]
        BY <1>8 DEF Spawn, FirstUnused, Unused
    <2>2. /\ UNCHANGED <<out, pended, chan, status, detached>>
          /\ slot \in Jobs /\ slot # None /\ slot' = None
        BY <1>8 DEF Spawn, Types
    <2>3. e \in Spawned /\ e # None /\ e.job = slot BY <2>2, RunFacts DEF Spawned
    <2>4. \A x \in JobIds : running'[x] = IF x = i THEN e ELSE running[x] BY <2>1 DEF Types
    <2> HIDE DEF e
    <2>5. ASSUME NEW u
          PROVE  (\E x \in JobIds : running'[x] # None /\ running'[x].job.url = u)
                   <=> \/ slot.url = u
                       \/ \E x \in JobIds : running[x] # None /\ running[x].job.url = u
        BY <2>1, <2>3, <2>4
    <2>6. \A u : Same(u) BY <2>2, <2>5 DEF HasJob
    <2> QED BY <1>1, <2>2, <2>6
<1>9. ASSUME NEW i \in JobIds, running[i] \in Spawned, NEW e \in Spawned, e.job = running[i].job,
             running' = [running EXCEPT ![i] = e], UNCHANGED <<pended, chan, slot>>,
             \A s \in pended : out'[s] = out[s]
      PROVE  (\A u : Same(u)) /\ HasJob(e.job.url)'
    <2>1. \A x \in JobIds : running'[x] = IF x = i THEN e ELSE running[x] BY <1>9 DEF Types
    <2>2. e # None /\ running[i] # None BY <1>9, RunFacts
    <2>3. \A u : (\E x \in JobIds : running[x] # None /\ running[x].job.url = u)
                   <=> \E x \in JobIds : running'[x] # None /\ running'[x].job.url = u
        BY SMTT(30), <1>9, <2>1, <2>2
    <2>4. HasJob(e.job.url)' BY SMTT(30), <1>9, <2>1, <2>2 DEF HasJob
    <2> QED BY <1>9, <2>3, <2>4 DEF HasJob
<1>10. ASSUME NEW i \in JobIds, Process(i) PROVE Settled'
    <2>1. running[i] \in Spawned BY <1>10 DEF Types, Process
    <2>2. PICK e \in Spawned : /\ running' = [running EXCEPT ![i] = e]
                               /\ e.job = running[i].job
        <3> DEFINE e == [running[i] EXCEPT !.at = "executing", !.permit = FALSE]
        <3>1. e \in Spawned /\ e.job = running[i].job BY <2>1 DEF Spawned
        <3>2. running' = [running EXCEPT ![i] = e] BY <1>10 DEF Process, Types
        <3> QED BY <3>1, <3>2
    <2>3. (\A u : Same(u)) /\ HasJob(e.job.url)' BY <1>9, <1>10, <2>1, <2>2 DEF Process
    <2> QED BY <1>2, <1>10, <2>2, <2>3 DEF Process
<1>11. ASSUME NEW i \in JobIds, NEW ok \in BOOLEAN, running[i] # None, Complete(i, ok)
       PROVE  Settled'
    <2>1. PICK x : x = running[i].job.url OBVIOUS
    <2>2. /\ running' = [running EXCEPT ![i] = None] /\ UNCHANGED <<chan, slot, out, pended>>
          /\ SetStatus(x, IF ok THEN "none" ELSE "failed")
          /\ detached' = (detached \ {x}) \cup {u \in {x} : HasJob(u)'}
        BY <1>11, <2>1 DEF Complete, EndJob, Detach
    <2>3. \A y \in JobIds : running'[y] = IF y = i THEN None ELSE running[y] BY <2>2 DEF Types
    <2>4. \A u : u # x => Same(u) BY <2>1, <2>2, <2>3 DEF HasJob
    <2>5. x \notin detached' => ~ HasJob(x)' BY <2>2
    <2>6. \A u : u # x => (u \in detached <=> u \in detached') BY <2>2
    <2> QED BY <1>2, <2>2, <2>4, <2>5, <2>6
<1>12. ASSUME NEW i \in JobIds, NEW q, running[i] # None, running[i].at = "executing",
              out' = [out EXCEPT ![i] = q], running' = [running EXCEPT ![i].at = "submitting"],
              UNCHANGED <<chan, slot, status, pended, detached>>
       PROVE  Settled'
    <2>1. running[i] \in Spawned BY <1>12 DEF Types
    <2>2. PICK e \in Spawned : /\ running' = [running EXCEPT ![i] = e]
                               /\ e.job = running[i].job
        <3> DEFINE e == [running[i] EXCEPT !.at = "submitting"]
        <3>1. e \in Spawned /\ e.job = running[i].job BY <2>1 DEF Spawned
        <3>2. running' = [running EXCEPT ![i] = e] BY <1>12 DEF Types
        <3> QED BY <3>1, <3>2
    <2>3. i \notin pended BY <1>12 DEF Submitting
    <2>4. \A s \in pended : out'[s] = out[s] BY <1>12, <2>3 DEF Types
    <2>5. \A u : Same(u) BY <1>9, <1>12, <2>1, <2>2, <2>4
    <2> QED BY <1>1, <1>12, <2>5
<1>13. ASSUME NEW i \in JobIds, SubmitConfigured(i) PROVE Settled'
    BY <1>12, <1>13 DEF SubmitConfigured, Is
<1>14. ASSUME NEW i \in JobIds, NEW t, SubmitTokenizer(i, t) PROVE Settled'
    BY <1>12, <1>14 DEF SubmitTokenizer, Is
<1>15. ASSUME NEW x, Expire(x) PROVE Settled'
    <2>1. /\ UNCHANGED <<chan, slot, running, out, pended>> /\ SetStatus(x, "none")
          /\ detached' = (detached \ {x}) \cup {u \in {x} : HasJob(u)'}
        BY <1>15 DEF Expire, Detach
    <2>2. \A u : Same(u) BY <1>3, <2>1
    <2>3. x \notin detached' => ~ HasJob(x)' BY <2>1
    <2>4. \A u : u # x => (u \in detached <=> u \in detached') BY <2>1
    <2> QED BY <1>2, <2>1, <2>2, <2>3, <2>4
<1>16. ASSUME NEW s \in Submitters, Abandon(s) PROVE Settled'
    <2>1. PICK x : x = Head(out[s]).url OBVIOUS
    <2>2. /\ s \in pended /\ pended' = pended \ {s} /\ UNCHANGED <<chan, slot, running, status>>
          /\ detached' = detached \cup {u \in {x} : ~ HasJob(u)'}
        BY <1>16, <2>1 DEF Abandon
    <2>3. \A y \in pended' : out'[y] = out[y] BY <1>16, <2>2 DEF Abandon, Types
    <2>4. \A u : u # x => Same(u) BY <2>1, <2>2, <2>3 DEF HasJob
    <2>5. x \notin detached' => x \notin detached /\ HasJob(x)' BY <2>2
    <2>6. HasJob(x) BY <2>1, <2>2 DEF HasJob
    <2>7. \A u : u # x => (u \in detached <=> u \in detached') BY <2>2
    <2> QED BY <2>2, <2>4, <2>5, <2>6, <2>7 DEF Settled
<1>17. CASE UNCHANGED vars BY <1>1, <1>3, <1>17 DEF vars
<1>18. ASSUME NEW i \in JobIds, Run(i) PROVE Settled'
    BY <1>10, <1>11, <1>13, <1>14, <1>18 DEF Run, EndConfigured, Execute, Is
<1> QED BY <1>4, <1>5, <1>6, <1>7, <1>8, <1>15, <1>16, <1>17, <1>18 DEF Next, Submit, Dispatcher

-----------------------------------------------------------------------------
(* For every capacity, number of permits and configuration: permits are    *)
(* neither made nor lost, no step of a job is taken for one of another     *)
(* job, and statuses that were not let go agree with the jobs, also when   *)
(* submitters are dropped.                                                 *)
THEOREM Inductive == Spec => []IInv
<1>1. Init => IInv
    <2> SUFFICES ASSUME Init PROVE IInv OBVIOUS
    <2>1. Job("startup", Startup) \in Jobs BY DEF Jobs
    <2>2. chan \in Seq(Jobs) /\ Len(chan) = 1 /\ chan[1] = Job("startup", Startup)
        BY SMTT(30), <2>1 DEF Init
    <2>3. Types BY SMTT(30), <2>2, QueueAssumption DEF Init, Types, States, Keys
    <2>4. Submitting BY DEF Init, Submitting, Submitters
    <2>5. Permitted
        <3>1. Holders = {} BY DEF Init, Holders
        <3> QED BY SMTT(30), <3>1, FS_EmptySet, QueueAssumption DEF Init, Permitted
    <2>6. Settled
        <3>1. \A u \in Keys : status[u] \in {"pending", "processing"} <=> u = Startup BY DEF Init
        <3>2. /\ 1 \in DOMAIN chan /\ chan[1].url = Startup
              /\ \A n \in DOMAIN chan : chan[n].url = Startup
            BY SMTT(30), <2>2 DEF Job
        <3>3. \A u : HasJob(u) <=> u = Startup BY <3>2 DEF Init, HasJob
        <3> QED BY <3>1, <3>3 DEF Settled
    <2> QED BY <2>3, <2>4, <2>5, <2>6 DEF IInv
<1>2. IInv /\ [Next]_vars => IInv'
    BY TypeStep, SubmittingStep, PermittedStep, SettledStep DEF IInv
<1> QED BY <1>1, <1>2, PTL DEF Spec

(* However jobs of one key overlap, end and expire and their submitters    *)
(* are dropped: unless one of the three named ways has let the status of a *)
(* key go since it was last written, status_map shows the key as pending   *)
(* or processing if and only if a job of it is unfinished; and the         *)
(* semaphore never has more permits than it was made with.                 *)
THEOREM StatusTellsJobAlways == Spec => []StatusTellsJob
<1>1. IInv => StatusTellsJob
    <2> SUFFICES ASSUME IInv PROVE StatusTellsJob OBVIOUS
    <2>1. free \in 0 .. Permits
        <3>1. Cardinality(Holders) \in Nat
            BY QueueAssumption, FS_Subset, FS_CardinalityType DEF Holders
        <3> HIDE DEF Holders
        <3> QED BY SMTT(30), <3>1, QueueAssumption DEF IInv, Permitted
    <2>2. \A n \in DOMAIN chan : chan[n] \in Jobs BY SMTT(30) DEF IInv, Types
    <2>3. TypeOK BY <2>1, <2>2 DEF IInv, Types, States, TypeOK
    <2> QED BY <2>3 DEF IInv, Settled, StatusTellsJob
<1> QED BY <1>1, Inductive, PTL

-----------------------------------------------------------------------------
(* The pool *)

At(c, j) == {n \in DOMAIN c : c[n] = j}

Held(j) == {i \in JobIds : running[i] # None /\ running[i].job = j}

LEMMA QueueFinite ==
    ASSUME NEW c \in Seq(Jobs), NEW j
    PROVE  IsFiniteSet(At(c, j)) /\ Cardinality(At(c, j)) \in Nat
<1>1. IsFiniteSet(1 .. Len(c)) BY SMTT(30), FS_Interval
<1>2. At(c, j) \subseteq 1 .. Len(c) BY SMTT(30) DEF At
<1>3. IsFiniteSet(At(c, j)) BY <1>1, <1>2, FS_Subset
<1> QED BY <1>3, FS_CardinalityType

LEMMA QueueGrows ==
    ASSUME NEW c \in Seq(Jobs), NEW e \in Jobs, NEW j
    PROVE  Cardinality(At(Append(c, e), j)) = Cardinality(At(c, j)) + One(e = j)
<1> DEFINE S == At(c, j)
           T == At(Append(c, e), j)
           x == Len(c) + 1
<1>1. IsFiniteSet(S) BY QueueFinite
<1>2. T \ {x} = S \ {x} /\ x \notin S /\ (x \in T <=> e = j) BY SMTT(30) DEF At
<1> HIDE DEF S, T, x
<1>3. /\ Cardinality(S) \in Nat /\ Cardinality(T) \in Nat
      /\ Cardinality(T) + One(x \in S) = Cardinality(S) + One(x \in T)
    BY SMTT(30), <1>1, <1>2, SizeOfChange
<1>4. Cardinality(T) = Cardinality(S) + One(e = j) BY SMTT(30), <1>2, <1>3 DEF One
<1> QED BY <1>4 DEF S, T

LEMMA QueueShrinks ==
    ASSUME NEW c \in Seq(Jobs), c # <<>>, NEW j
    PROVE  Cardinality(At(c, j)) = Cardinality(At(Tail(c), j)) + One(Head(c) = j)
<1> DEFINE S == At(c, j)
           R == S \ {1}
           T == At(Tail(c), j)
           F == [n \in R |-> n - 1]
<1>1. IsFiniteSet(S) BY QueueFinite
<1>2. 1 \in S <=> Head(c) = j BY SMTT(30) DEF At
<1>3. /\ Cardinality(S) \in Nat /\ Cardinality(R) \in Nat /\ IsFiniteSet(R)
      /\ Cardinality(R) + One(1 \in S) = Cardinality(S)
    <2>1. R \ {1} = S \ {1} /\ 1 \notin R OBVIOUS
    <2> HIDE DEF S, R
    <2>2. /\ Cardinality(S) \in Nat /\ Cardinality(R) \in Nat /\ IsFiniteSet(R)
          /\ Cardinality(R) + One(1 \in S) = Cardinality(S) + One(1 \in R)
        BY <1>1, <2>1, SizeOfChange
    <2> QED BY SMTT(30), <2>1, <2>2 DEF One
<1>4. /\ \A n \in R : n \in Int /\ n - 1 \in T
      /\ \A m \in T : m + 1 \in R /\ m \in Int
    BY SMTT(30) DEF At
<1>5. F \in [R -> T] /\ (\A a, b \in R : F[a] = F[b] => a = b)
    <2> HIDE DEF R, T
    <2> QED BY SMTT(30), <1>4
<1>6. \A m \in T : \E n \in R : F[n] = m
    <2> HIDE DEF R, T
    <2> QED BY SMTT(30), <1>4
<1>7. F \in Bijection(R, T)
    <2> HIDE DEF R, T, F
    <2> QED BY <1>5, <1>6, Fun_IsBij
<1>8. Cardinality(T) = Cardinality(R)
    <2>1. ExistsBijection(R, T) BY <1>7 DEF ExistsBijection
    <2> HIDE DEF R, T
    <2> QED BY <1>3, <2>1, FS_Bijection
<1>9. Cardinality(S) = Cardinality(T) + One(Head(c) = j)
    <2> HIDE DEF S, R, T
    <2> QED BY <1>2, <1>3, <1>8 DEF One
<1> QED BY <1>9 DEF S, T

(* What a job that starts or ends does to the running ones.                *)
LEMMA RunChanges ==
    ASSUME Types, NEW i \in JobIds, NEW e \in Spawned \cup {None},
           running' = [running EXCEPT ![i] = e], NEW j \in Jobs
    PROVE  /\ Cardinality(Held(j)) \in Nat /\ Cardinality(Held(j)') \in Nat
           /\ Cardinality(Held(j)') + One(running[i] # None /\ running[i].job = j)
                = Cardinality(Held(j)) + One(e # None /\ e.job = j)
           /\ Cardinality(Held(j)) >= One(running[i] # None /\ running[i].job = j)
<1> DEFINE S == Held(j)
           T == Held(j)'
<1>1. IsFiniteSet(S) BY QueueAssumption, FS_Subset DEF Held
<1>2. T \ {i} = S \ {i} /\ (i \in S <=> running[i] # None /\ running[i].job = j)
      /\ (i \in T <=> e # None /\ e.job = j)
    BY DEF Held, Types
<1> HIDE DEF S, T
<1>3. /\ Cardinality(S) \in Nat /\ Cardinality(T) \in Nat
      /\ Cardinality(T) + One(i \in S) = Cardinality(S) + One(i \in T)
      /\ Cardinality(S) >= One(i \in S)
    BY SMTT(30), <1>1, <1>2, SizeOfChange
<1>4. One(i \in S) = One(running[i] # None /\ running[i].job = j)
      /\ One(i \in T) = One(e # None /\ e.job = j)
    BY <1>2 DEF One
<1> QED BY <1>3, <1>4 DEF S, T

LEMMA OneMoreOrLess ==
    ASSUME NEW f \in [Jobs -> Int], NEW e \in Jobs
    PROVE  /\ [j \in Jobs |-> f[j] + One(e = j)] = [f EXCEPT ![e] = @ + 1]
           /\ [j \in Jobs |-> f[j] - One(e = j)] = [f EXCEPT ![e] = @ - 1]
<1>1. \A j \in Jobs : f[j] + One(e = j) = [f EXCEPT ![e] = @ + 1][j] BY SMTT(30) DEF One
<1>2. \A j \in Jobs : f[j] - One(e = j) = [f EXCEPT ![e] = @ - 1][j] BY SMTT(30) DEF One
<1> QED BY <1>1, <1>2

(* Every step of the queue is one of the pool: sending accepts a job, the  *)
(* end of a job finishes it, and a job that moves on is neither.           *)
LEMMA PoolStep ==
    ASSUME IInv, [Next]_vars
    PROVE  [Pool!Next]_[job \in Jobs |-> Count(job)]
<1> DEFINE accepted == [job \in Jobs |-> Count(job)]
<1>1. Types /\ Submitting BY DEF IInv
<1>2. \A j \in Jobs : /\ Cardinality(At(chan, j)) \in Nat
                      /\ Cardinality(Held(j)) \in Nat
    BY <1>1, QueueFinite, QueueAssumption, FS_Subset, FS_CardinalityType DEF Types, Held
<1>3. \A j \in Jobs :
        /\ Count(j) = Cardinality(At(chan, j)) + One(slot = j) + Cardinality(Held(j))
        /\ Count(j)' = Cardinality(At(chan', j)) + One(slot' = j) + Cardinality(Held(j)')
    BY DEF Count, At, Held, One
<1>4. \A j \in Jobs : accepted[j] = Count(j) /\ accepted'[j] = Count(j)' OBVIOUS
<1>5. ASSUME \A j \in Jobs : Count(j)' = Count(j) PROVE UNCHANGED accepted BY <1>5
<1>6. ASSUME UNCHANGED <<chan, slot>>, \A j \in Jobs : Held(j)' = Held(j)
      PROVE  UNCHANGED accepted
    <2>1. \A j \in Jobs : Count(j)' = Count(j) BY SMTT(30), <1>3, <1>6
    <2> QED BY <1>5, <2>1
<1>7. ASSUME UNCHANGED <<chan, slot, running>> PROVE UNCHANGED accepted
    BY <1>6, <1>7 DEF Held
<1>8. ASSUME NEW s \in Submitters, Send(s) PROVE Pool!Next
    <2>1. PICK e \in Jobs : e = Head(out[s]) BY SMTT(30), <1>1, <1>8 DEF Types, Submitting, Send
    <2>2. chan \in Seq(Jobs) /\ chan' = Append(chan, e) /\ slot' = slot /\ running' = running
        BY <1>1, <1>8, <2>1 DEF Types, Send
    <2>3. ASSUME NEW j \in Jobs PROVE Count(j) \in Nat /\ Count(j)' = Count(j) + One(e = j)
        <3>1. Held(j)' = Held(j) BY <2>2 DEF Held
        <3>2. Cardinality(At(chan', j)) = Cardinality(At(chan, j)) + One(e = j)
            BY SMTT(30), <2>2, QueueGrows
        <3>3. One(slot = j) \in Nat /\ One(e = j) \in Nat BY DEF One
        <3> QED BY SMTT(30), <1>2, <1>3, <2>2, <3>1, <3>2, <3>3
    <2>4. Pool!Accept(e)
        <3>1. accepted' = [j \in Jobs |-> accepted[j] + One(e = j)] BY <2>3
        <3>2. accepted \in [Jobs -> Int] BY SMTT(30), <2>3
        <3>3. accepted' = [accepted EXCEPT ![e] = @ + 1]
            <4> HIDE DEF accepted
            <4> QED BY <3>1, <3>2, OneMoreOrLess
        <3> QED BY <3>3 DEF Pool!Accept
    <2> QED BY <2>4 DEF Pool!Next
<1>9. ASSUME Receive PROVE UNCHANGED accepted
    <2>1. /\ chan \in Seq(Jobs) /\ chan # <<>> /\ chan' = Tail(chan) /\ slot' = Head(chan)
          /\ slot = None /\ UNCHANGED running
        BY <1>1, <1>9 DEF Types, Receive
    <2>2. ASSUME NEW j \in Jobs PROVE Count(j)' = Count(j)
        <3>1. Held(j)' = Held(j) BY <2>1 DEF Held
        <3>2. Cardinality(At(chan, j)) = Cardinality(At(chan', j)) + One(slot' = j)
            BY SMTT(30), <2>1, QueueShrinks
        <3>3. Cardinality(At(chan', j)) \in Nat
            <4>1. chan' \in Seq(Jobs) BY SMTT(30), <2>1
            <4> QED BY <4>1, QueueFinite
        <3>4. One(slot = j) = 0 BY <2>1, JobFacts DEF One
        <3>5. One(slot' = j) \in Nat BY DEF One
        <3> QED BY SMTT(30), <1>2, <1>3, <3>1, <3>2, <3>3, <3>4, <3>5
    <2> QED BY <1>5, <2>2
<1>10. ASSUME Spawn PROVE UNCHANGED accepted
    <2> DEFINE e == [job |-> slot, at |-> "spawned", permit |-> TRUE]
    <2>1. PICK i \in JobIds : running[i] = None /\ running' = [running EXCEPT ![i] = e]
        BY <1>10 DEF Spawn, FirstUnused, Unused
    <2>2. UNCHANGED chan /\ slot \in Jobs /\ slot' = None BY <1>1, <1>10 DEF Types, Spawn
    <2>3. e \in Spawned /\ e.job = slot /\ e # None BY <2>2, RunFacts DEF Spawned
    <2> HIDE DEF e
    <2>4. ASSUME NEW j \in Jobs PROVE Count(j)' = Count(j)
        <3>1. /\ Cardinality(Held(j)') \in Nat
              /\ Cardinality(Held(j)') + One(running[i] # None /\ running[i].job = j)
                   = Cardinality(Held(j)) + One(e # None /\ e.job = j)
            BY <1>1, <2>1, <2>3, RunChanges
        <3>2. One(running[i] # None /\ running[i].job = j) = 0 BY <2>1 DEF One
        <3>3. One(e # None /\ e.job = j) = One(slot = j) BY <2>3 DEF One
        <3>4. One(slot' = j) = 0 BY <2>2, JobFacts DEF One
        <3>5. One(slot = j) \in Nat BY DEF One
        <3> QED BY SMTT(30), <1>2, <1>3, <2>2, <3>1, <3>2, <3>3, <3>4, <3>5
    <2> QED BY <1>5, <2>4
<1>11. ASSUME NEW i \in JobIds,
              \/ Process(i) \/ SubmitConfigured(i)
              \/ \E t \in Tokenizers : SubmitTokenizer(i, t)
       PROVE  UNCHANGED accepted
    <2>1. running[i] \in Spawned /\ running \in [JobIds -> Spawned \cup {None}]
        BY <1>1, <1>11 DEF Types, Process, SubmitConfigured, SubmitTokenizer, Is
    <2>2. running'[i] \in Spawned /\ running'[i].job = running[i].job
        <3>1. CASE Process(i)
            <4>1. running'[i] = [running[i] EXCEPT !.at = "executing", !.permit = FALSE]
                BY <2>1, <3>1 DEF Process
            <4> QED BY <2>1, <4>1 DEF Spawned
        <3>2. CASE SubmitConfigured(i) \/ \E t \in Tokenizers : SubmitTokenizer(i, t)
            <4>1. running'[i] = [running[i] EXCEPT !.at = "submitting"]
                BY <2>1, <3>2 DEF SubmitConfigured, SubmitTokenizer
            <4> QED BY <2>1, <4>1 DEF Spawned
        <3> QED BY <1>11, <3>1, <3>2
    <2>3. \A x \in JobIds : x # i => running'[x] = running[x]
        BY <1>11, <2>1 DEF Process, SubmitConfigured, SubmitTokenizer
    <2>4. \A j \in Jobs : Held(j)' = Held(j) BY <2>1, <2>2, <2>3, RunFacts DEF Held
    <2> QED BY <1>6, <1>11, <2>4 DEF Process, SubmitConfigured, SubmitTokenizer
<1>12. ASSUME NEW i \in JobIds, NEW ok, running[i] # None, Complete(i, ok) PROVE Pool!Next
    <2>1. PICK e \in Jobs : e = running[i].job BY <1>1, <1>12, RunFacts DEF Types
    <2>2. running' = [running EXCEPT ![i] = None] /\ UNCHANGED <<chan, slot>>
        BY <1>12 DEF Complete, EndJob
    <2>3. ASSUME NEW j \in Jobs
          PROVE  /\ Count(j) \in Nat /\ Count(j)' \in Nat
                 /\ Count(j)' = Count(j) - One(e = j)
        <3>1. /\ Cardinality(Held(j)') \in Nat
              /\ Cardinality(Held(j)') + One(running[i] # None /\ running[i].job = j)
                   = Cardinality(Held(j)) + One(None # None /\ None.job = j)
            BY <1>1, <2>2, RunChanges
        <3>2. One(running[i] # None /\ running[i].job = j) = One(e = j) BY <1>12, <2>1 DEF One
        <3>3. One(None # None /\ None.job = j) = 0 BY DEF One
        <3>4. One(slot = j) \in Nat /\ One(e = j) \in Nat BY DEF One
        <3> QED BY SMTT(30), <1>2, <1>3, <2>2, <3>1, <3>2, <3>3, <3>4
    <2>4. Pool!Finish(e)
        <3>1. accepted' = [j \in Jobs |-> accepted[j] - One(e = j)] BY <2>3
        <3>2. accepted \in [Jobs -> Int] BY SMTT(30), <2>3
        <3>3. accepted' = [accepted EXCEPT ![e] = @ - 1]
            <4> HIDE DEF accepted
            <4> QED BY <3>1, <3>2, OneMoreOrLess
        <3>4. accepted[e] > 0 BY SMTT(30), <2>3 DEF One
        <3> QED BY <3>3, <3>4 DEF Pool!Finish
    <2> QED BY <2>4 DEF Pool!Next
<1>13. ASSUME NEW i \in JobIds, Run(i) PROVE Pool!Next \/ UNCHANGED accepted
    <2>1. CASE \/ Process(i) \/ SubmitConfigured(i)
               \/ \E t \in Tokenizers : SubmitTokenizer(i, t)
        BY <1>11, <2>1
    <2>2. CASE EndConfigured(i) BY <1>12, <2>2 DEF EndConfigured, Is
    <2>3. CASE \E ok \in BOOLEAN : Execute(i, ok) BY <1>12, <2>3 DEF Execute, Is
    <2> QED BY <1>13, <2>1, <2>2, <2>3 DEF Run
<1>14. ASSUME NEW s \in Submitters, Submit(s) PROVE Pool!Next \/ UNCHANGED accepted
    <2>1. CASE Send(s) BY <1>8, <2>1
    <2>2. CASE RecordPending(s) BY <1>7, <2>2 DEF RecordPending
    <2>3. CASE Abandon(s) BY <1>7, <2>3 DEF Abandon
    <2> QED BY <1>14, <2>1, <2>2, <2>3 DEF Submit
<1>15. ASSUME NEW s, NEW job, Produce(s, job) PROVE UNCHANGED accepted BY <1>7, <1>15 DEF Produce
<1>16. ASSUME NEW u, Expire(u) PROVE UNCHANGED accepted BY <1>7, <1>16 DEF Expire
<1>17. ASSUME UNCHANGED vars PROVE UNCHANGED accepted BY <1>7, <1>17 DEF vars
<1> HIDE DEF accepted
<1>18. Pool!Next \/ UNCHANGED accepted
    BY <1>9, <1>10, <1>13, <1>14, <1>15, <1>16, <1>17 DEF Next, Dispatcher
<1> QED BY <1>18 DEF accepted

(* The queue is a pool: a job that is accepted is in exactly one place     *)
(* until it ends, whatever the order in which the submitters, the          *)
(* dispatcher and the jobs take their steps.                               *)
THEOREM PoolFollowed == Spec => Pool!Spec
<1>1. Init => Pool!Init
    <2> SUFFICES ASSUME Init, NEW j \in Jobs
                 PROVE  Count(j) = IF j \in {Job("startup", Startup)} THEN 1 ELSE 0
        BY DEF Pool!Init
    <2> DEFINE first == Job("startup", Startup)
               S == {n \in DOMAIN chan : chan[n] = j}
    <2>1. DOMAIN chan = {1} /\ chan[1] = first BY SMTT(30) DEF Init
    <2>2. S = IF j = first THEN {1} ELSE {} BY <2>1
    <2>3. Cardinality(S) = IF j = first THEN 1 ELSE 0
        <3> HIDE DEF S
        <3> QED BY <2>2, FS_EmptySet, FS_Singleton
    <2>4. slot # j BY JobFacts DEF Init
    <2>5. {i \in JobIds : running[i] # None /\ running[i].job = j} = {} BY DEF Init
    <2> QED BY SMTT(30), <2>3, <2>4, <2>5, FS_EmptySet DEF Count
<1> QED BY <1>1, PoolStep, Inductive, PTL DEF Spec, Pool!Spec

=============================================================================
