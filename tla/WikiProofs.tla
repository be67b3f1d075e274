----------------------------- MODULE WikiProofs -----------------------------
(***************************************************************************)
(* What holds of the wiki for any vault, any pages and alerts, any calls   *)
(* and jobs: proofs about the publisher, the two syncs, the engine and     *)
(* what is computed over the pages.                                        *)
(***************************************************************************)
EXTENDS Publisher, WikiSync, WikiEngine, WikiLint, SequenceTheorems, FiniteSetTheorems, TLAPS

(* Sequences: what a prefix, all but the last and one more element are.    *)
LEMMA PrefixIs ==
  ASSUME NEW S, NEW s \in Seq(S), NEW t \in Seq(S)
  PROVE  IsPrefix(s, t) <=> Len(s) <= Len(t) /\ \A i \in 1..Len(s) : s[i] = t[i]
<1>1. Len(s) \in Nat /\ Len(t) \in Nat /\ SubSeq(s, 1, Len(s)) = s
  BY SubSeqFull
<1>2. SUFFICES ASSUME Len(s) <= Len(t)
               PROVE  s = SubSeq(t, 1, Len(s)) <=> \A i \in 1..Len(s) : s[i] = t[i]
  BY <1>1 DEF IsPrefix
<1>3. \A i \in 1..Len(s) : t[i] \in S
  BY <1>1, <1>2
<1>4. /\ SubSeq(t, 1, Len(s)) \in Seq(S) /\ Len(SubSeq(t, 1, Len(s))) = Len(s)
      /\ \A i \in 1..Len(s) : SubSeq(t, 1, Len(s))[i] = t[i]
  BY <1>1, <1>3, SubSeqProperties
<1> QED
  BY <1>1, <1>4, SeqEqual

LEMMA FrontIs ==
  ASSUME NEW S, NEW s \in Seq(S), Len(s) > 0
  PROVE  /\ Front(s) \in Seq(S) /\ Len(Front(s)) = Len(s) - 1
         /\ \A i \in 1..Len(s) - 1 : Front(s)[i] = s[i]
         /\ Last(s) \in S /\ Range(s) = Range(Front(s)) \union {Last(s)}
<1>1. Len(s) \in Nat /\ \A i \in 1..Len(s) : s[i] \in S
  OBVIOUS
<1>2. /\ Front(s) \in Seq(S) /\ Len(Front(s)) = Len(s) - 1
      /\ \A i \in 1..Len(s) - 1 : Front(s)[i] = s[i]
  <2>1. PICK n \in Int : n = Len(s) - 1
    BY <1>1
  <2>2. n >= 0 /\ \A i \in 1..n : s[i] \in S
    BY <1>1, <2>1
  <2>3. /\ SubSeq(s, 1, n) \in Seq(S) /\ Len(SubSeq(s, 1, n)) = n
        /\ \A i \in 1..n : SubSeq(s, 1, n)[i] = s[i]
    <3>1. /\ SubSeq(s, 1, n) \in Seq(S)
          /\ Len(SubSeq(s, 1, n)) = IF 1 <= n THEN n - 1 + 1 ELSE 0
          /\ \A i \in 1..n - 1 + 1 : SubSeq(s, 1, n)[i] = s[1 + i - 1]
      BY <2>2, SubSeqProperties
    <3> QED
      BY <2>2, <3>1
  <2> QED
    BY <2>1, <2>3 DEF Front
<1>3. Last(s) = s[Len(s)] /\ Last(s) \in S
  BY <1>1 DEF Last
<1>4. Range(s) = Range(Front(s)) \union {Last(s)}
  BY <1>1, <1>2, <1>3 DEF Range
<1> QED
  BY <1>2, <1>3, <1>4

LEMMA AppendIs ==
  ASSUME NEW S, NEW s \in Seq(S), NEW e \in S
  PROVE  /\ Append(s, e) \in Seq(S) /\ Len(Append(s, e)) = Len(s) + 1
         /\ \A i \in 1..Len(s) : Append(s, e)[i] = s[i]
         /\ Append(s, e)[Len(s) + 1] = e
         /\ Range(Append(s, e)) = Range(s) \union {e}
<1>1. /\ Append(s, e) \in Seq(S) /\ Len(Append(s, e)) = Len(s) + 1
      /\ \A i \in 1..Len(s) : Append(s, e)[i] = s[i]
      /\ Append(s, e)[Len(s) + 1] = e
  BY AppendProperties
<1> DEFINE t == Append(s, e)
<1>2. DOMAIN s = 1..Len(s) /\ DOMAIN t = 1..Len(s) + 1 /\ Len(s) \in Nat
  BY <1>1
<1>3. ASSUME NEW x PROVE x \in Range(t) <=> x \in Range(s) \/ x = e
  <2>1. ASSUME x \in Range(t) PROVE x \in Range(s) \/ x = e
    <3>1. PICK i \in 1..Len(s) + 1 : x = t[i]
      BY <1>2, <2>1 DEF Range
    <3>2. CASE i = Len(s) + 1
      BY <1>1, <3>1, <3>2
    <3>3. CASE i # Len(s) + 1
      <4>1. i \in 1..Len(s)
        BY <1>2, <3>3
      <4> QED
        BY <1>1, <1>2, <3>1, <4>1 DEF Range
    <3> QED
      BY <3>2, <3>3
  <2>2. ASSUME x \in Range(s) PROVE x \in Range(t)
    <3>1. PICK i \in 1..Len(s) : x = s[i]
      BY <1>2, <2>2 DEF Range
    <3>2. i \in 1..Len(s) + 1 /\ x = t[i]
      BY <1>1, <1>2, <3>1
    <3> QED
      BY <1>2, <3>2 DEF Range
  <2>3. ASSUME x = e PROVE x \in Range(t)
    <3>1. Len(s) + 1 \in 1..Len(s) + 1 /\ x = t[Len(s) + 1]
      BY <1>1, <1>2, <2>3
    <3> QED
      BY <1>2, <3>1 DEF Range
  <2> QED
    BY <2>1, <2>2, <2>3
<1>4. Range(t) = Range(s) \union {e}
  BY <1>3
<1> QED
  BY <1>1, <1>4

LEMMA WiderSeq ==
  ASSUME NEW m \in Nat, NEW s \in Seq(1..m)
  PROVE  s \in Seq(1..m + 1)
<1>1. Len(s) \in Nat /\ \A i \in 1..Len(s) : s[i] \in 1..m
  OBVIOUS
<1>2. s \in [1..Len(s) -> 1..m + 1]
  BY <1>1
<1> QED
  BY <1>1, <1>2 DEF Seq

-----------------------------------------------------------------------------
(* The publisher.  A commit is made on one branch and never moves: two     *)
(* branches that both have it agree up to it.                              *)
Coherent(s, t) ==
  \A i \in DOMAIN s, k \in DOMAIN t :
    s[i] = t[k] => i = k /\ \A m \in 1..i : s[m] = t[m]

AllJobs == [status : {"none", "pending", "running", "succeeded", "failed"},
            at : {"none", "staging", "staged", "committing", "pushing", "logging", "done"},
            commit : Nat, pushed : BOOLEAN, errors : BOOLEAN,
            base : Seq(1..made), since : {"clean", "log", "pages"}]

(* A branch is HEAD's, the remote's, or the one a job commits on.          *)
IsBranch(s) == s = head \/ s = remote \/ \E j \in Job : s = job[j].base
Branches == {s \in Seq(1..made) : IsBranch(s)}

(* A job that pushes has its commit on the branch, or an operator or       *)
(* another job took it off; until then it has not reported a push.         *)
JobInv ==
  /\ job \in [Job -> AllJobs]
  /\ \A j \in Job :
       /\ job[j].status \in {"none", "pending"} => job[j].at = "none"
       /\ job[j].at \in {"none", "staging", "staged", "committing"} => ~job[j].pushed
       /\ job[j].at = "pushing" => job[j].commit \in Range(head) \union undone \union lost

PublishInv ==
  /\ made \in Nat /\ head \in Seq(1..made) /\ remote \in Seq(1..made)
  /\ undone \subseteq 1..made /\ lost \subseteq 1..made
  /\ dirty \in {"clean", "log", "pages"}
  /\ \A s, t \in Branches : Coherent(s, t)
  /\ JobInv /\ PushedIsThere /\ BehindUntilRollback

(* A prefix has no commit the branch has not.                              *)
LEMMA PrefixWithin ==
  ASSUME NEW S, NEW s \in Seq(S), NEW t \in Seq(S), IsPrefix(s, t)
  PROVE  Range(s) \subseteq Range(t)
<1>1. Len(s) <= Len(t) /\ \A i \in 1..Len(s) : s[i] = t[i]
  BY PrefixIs
<1> QED
  BY <1>1 DEF Range

(* Steps of a job that leave branch and remote as they are; other jobs may *)
(* note what was written or staged.                                        *)
LEMMA JobMoves ==
  ASSUME PublishInv, NEW j \in Job, job' \in [Job -> AllJobs],
         dirty' \in {"clean", "log", "pages"},
         job'[j].status \in {"none", "pending"} => job'[j].at = "none",
         job'[j].at \in {"none", "staging", "staged", "committing"} => ~job'[j].pushed,
         job'[j].at = "pushing" => job[j].at = "pushing" /\ job'[j].commit = job[j].commit,
         job'[j].pushed => job[j].pushed /\ job'[j].commit = job[j].commit,
         job'[j].base \in {job[j].base, head, <<>>},
         \A k \in Job : k # j =>
           /\ job'[k].status = job[k].status /\ job'[k].at = job[k].at /\ job'[k].commit = job[k].commit
           /\ job'[k].pushed = job[k].pushed /\ job'[k].base = job[k].base,
         UNCHANGED <<head, made, remote, undone, lost>>
  PROVE  PublishInv'
<1>0. /\ made \in Nat /\ JobInv /\ PushedIsThere /\ BehindUntilRollback
      /\ \A s, t \in Branches : Coherent(s, t)
  BY DEF PublishInv
<1>1. AllJobs' = AllJobs
  BY DEF AllJobs
<1>2. Branches' \subseteq Branches \union {<<>>}
  <2> SUFFICES ASSUME NEW s \in Branches', s # <<>> PROVE s \in Branches
    OBVIOUS
  <2>1. s \in Seq(1..made)
    BY DEF Branches
  <2>2. s = head \/ s = remote \/ \E k \in Job : s = job'[k].base
    BY DEF Branches, IsBranch
  <2>3. ASSUME NEW k \in Job, s = job'[k].base PROVE IsBranch(s)
    BY <2>3 DEF IsBranch
  <2>4. IsBranch(s)
    BY <2>2, <2>3 DEF IsBranch
  <2> QED
    BY <2>1, <2>4 DEF Branches
<1>3. \A s, t \in Branches' : Coherent(s, t)
  <2> SUFFICES ASSUME NEW s \in Branches', NEW t \in Branches' PROVE Coherent(s, t)
    OBVIOUS
  <2>1. CASE s = <<>> \/ t = <<>>
    BY <2>1 DEF Coherent
  <2>2. CASE s # <<>> /\ t # <<>>
    BY <1>0, <1>2, <2>2
  <2> QED
    BY <2>1, <2>2
<1>4. JobInv'
  <2> SUFFICES ASSUME NEW k \in Job
               PROVE  /\ job'[k].status \in {"none", "pending"} => job'[k].at = "none"
                      /\ job'[k].at \in {"none", "staging", "staged", "committing"} => ~job'[k].pushed
                      /\ job'[k].at = "pushing" => job'[k].commit \in Range(head) \union undone \union lost
    BY <1>1 DEF JobInv
  <2>1. CASE k = j
    BY <1>0, <2>1 DEF JobInv
  <2>2. CASE k # j
    BY <1>0, <2>2 DEF JobInv
  <2> QED
    BY <2>1, <2>2
<1>5. PushedIsThere'
  <2> SUFFICES ASSUME NEW k \in Job, job'[k].pushed
               PROVE  job'[k].commit \in Range(remote) \union undone \union lost
    BY DEF PushedIsThere
  <2>1. job[k].pushed /\ job'[k].commit = job[k].commit
    OBVIOUS
  <2> QED
    BY <1>0, <2>1 DEF PushedIsThere
<1>6. BehindUntilRollback'
  BY <1>0 DEF BehindUntilRollback
<1> QED
  BY <1>3, <1>4, <1>5, <1>6 DEF PublishInv

LEMMA PublisherStep ==
  ASSUME PublishInv, [PublishNext]_publishVars
  PROVE  PublishInv'
<1>0. /\ made \in Nat /\ JobInv /\ PushedIsThere /\ BehindUntilRollback
      /\ head \in Seq(1..made) /\ remote \in Seq(1..made)
      /\ undone \subseteq 1..made /\ lost \subseteq 1..made
      /\ dirty \in {"clean", "log", "pages"} /\ job \in [Job -> AllJobs]
      /\ \A s, t \in Branches : Coherent(s, t)
  BY DEF PublishInv, JobInv
(* What the jobs note is a note.                                           *)
<1>6. ASSUME NEW jobs \in [Job -> AllJobs], NEW what \in {"log", "pages"}
      PROVE  /\ Added(jobs) \in [Job -> AllJobs] /\ Touched(jobs, what) \in [Job -> AllJobs]
             /\ \A k \in Job :
                  /\ Added(jobs)[k].status = jobs[k].status /\ Touched(jobs, what)[k].status = jobs[k].status
                  /\ Added(jobs)[k].at = jobs[k].at /\ Touched(jobs, what)[k].at = jobs[k].at
                  /\ Added(jobs)[k].commit = jobs[k].commit /\ Touched(jobs, what)[k].commit = jobs[k].commit
                  /\ Added(jobs)[k].pushed = jobs[k].pushed /\ Touched(jobs, what)[k].pushed = jobs[k].pushed
                  /\ Added(jobs)[k].base = jobs[k].base /\ Touched(jobs, what)[k].base = jobs[k].base
  <2>1. ASSUME NEW k \in Job, NEW note \in {"clean", "log", "pages"}
        PROVE  /\ [jobs[k] EXCEPT !.since = note] \in AllJobs /\ jobs[k] \in AllJobs
               /\ [jobs[k] EXCEPT !.since = note].status = jobs[k].status
               /\ [jobs[k] EXCEPT !.since = note].at = jobs[k].at
               /\ [jobs[k] EXCEPT !.since = note].commit = jobs[k].commit
               /\ [jobs[k] EXCEPT !.since = note].pushed = jobs[k].pushed
               /\ [jobs[k] EXCEPT !.since = note].base = jobs[k].base
    BY DEF AllJobs
  <2>2. ASSUME NEW k \in Job
        PROVE  /\ Added(jobs)[k] \in {jobs[k], [jobs[k] EXCEPT !.since = "clean"]}
               /\ Touched(jobs, what)[k] \in {jobs[k], [jobs[k] EXCEPT !.since = what]}
    BY DEF Added, Touched
  <2>3. ASSUME NEW k \in Job, NEW b \in {Added(jobs)[k], Touched(jobs, what)[k]}
        PROVE  /\ b \in AllJobs /\ b.status = jobs[k].status /\ b.at = jobs[k].at
               /\ b.commit = jobs[k].commit /\ b.pushed = jobs[k].pushed /\ b.base = jobs[k].base
    <3>1. PICK note \in {"clean", "log", "pages"} : b = jobs[k] \/ b = [jobs[k] EXCEPT !.since = note]
      BY <2>2
    <3>2. /\ [jobs[k] EXCEPT !.since = note] \in AllJobs /\ jobs[k] \in AllJobs
          /\ [jobs[k] EXCEPT !.since = note].status = jobs[k].status
          /\ [jobs[k] EXCEPT !.since = note].at = jobs[k].at
          /\ [jobs[k] EXCEPT !.since = note].commit = jobs[k].commit
          /\ [jobs[k] EXCEPT !.since = note].pushed = jobs[k].pushed
          /\ [jobs[k] EXCEPT !.since = note].base = jobs[k].base
      BY <2>1
    <3> QED
      BY ZenonT(30), <3>1, <3>2
  <2>4. Added(jobs) \in [Job -> AllJobs] /\ Touched(jobs, what) \in [Job -> AllJobs]
    BY <2>3 DEF Added, Touched
  <2> QED
    BY <2>3, <2>4
<1>1. ASSUME NEW j \in Job,
             \/ Post(j) \/ Start(j) \/ FailAtOnce(j) \/ StageFails(j) \/ NothingToCommit(j)
             \/ Stage(j) \/ TakeHead(j)
             \/ \E e \in BOOLEAN : NoPush(j, e) \/ Finish(j, e)
      PROVE  PublishInv'
  <2>1. UNCHANGED <<head, made, remote, undone, lost>> /\ dirty' \in {"clean", "log", "pages"}
    BY <1>0, <1>1 DEF Post, Start, FailAtOnce, StageFails, NothingToCommit, Stage, TakeHead, NoPush, Finish
  <2>2. /\ job[j] \in AllJobs
        /\ job[j].status \in {"none", "pending"} => job[j].at = "none"
        /\ job[j].at \in {"none", "staging", "staged", "committing"} => ~job[j].pushed
    BY <1>0 DEF JobInv
  (* The step of the job itself, before anything is noted. *)
  <2>3. PICK next \in AllJobs :
          /\ \/ job' = [job EXCEPT ![j] = next]
             \/ job' = Added([job EXCEPT ![j] = next])
             \/ job' = Touched([job EXCEPT ![j] = next], "log")
          /\ next.pushed = job[j].pushed /\ next.commit = job[j].commit
          /\ next.at # "pushing"
          /\ next.status \in {"none", "pending"} => next.at = "none"
          /\ next.at \in {"none", "staging", "staged", "committing"} =>
               job[j].at \in {"none", "staging", "staged", "committing"}
          /\ next.base \in {job[j].base, head, <<>>}
    <3>1. CASE Post(j)
      <4> DEFINE now == [job[j] EXCEPT !.status = "pending"]
      <4>1. job' = [job EXCEPT ![j] = now]
        BY <3>1 DEF Post
      <4>2. now \in AllJobs
        BY <1>0, <2>2 DEF AllJobs
      <4>3. /\ now.pushed = job[j].pushed /\ now.commit = job[j].commit /\ now.at # "pushing"
            /\ now.status \in {"none", "pending"} => now.at = "none"
            /\ now.at \in {"none", "staging", "staged", "committing"} =>
                 job[j].at \in {"none", "staging", "staged", "committing"}
            /\ now.base \in {job[j].base, head, <<>>}
        BY <2>2, <3>1 DEF Post, AllJobs
      <4> HIDE DEF now
      <4> QED
        BY <4>1, <4>2, <4>3
    <3>2. CASE Start(j)
      <4> DEFINE now == [job[j] EXCEPT !.status = "running", !.at = "staging"]
      <4>1. job' = [job EXCEPT ![j] = now]
        BY <3>2 DEF Start
      <4>2. now \in AllJobs
        BY <1>0, <2>2 DEF AllJobs
      <4>3. /\ now.pushed = job[j].pushed /\ now.commit = job[j].commit /\ now.at # "pushing"
            /\ now.status \in {"none", "pending"} => now.at = "none"
            /\ now.at \in {"none", "staging", "staged", "committing"} =>
                 job[j].at \in {"none", "staging", "staged", "committing"}
            /\ now.base \in {job[j].base, head, <<>>}
        BY <2>2, <3>2 DEF Start, AllJobs
      <4> HIDE DEF now
      <4> QED
        BY <4>1, <4>2, <4>3
    <3>3. CASE FailAtOnce(j)
      <4> DEFINE now == [job[j] EXCEPT !.status = "failed"]
      <4>1. job' = [job EXCEPT ![j] = now]
        BY <3>3 DEF FailAtOnce
      <4>2. now \in AllJobs
        BY <1>0, <2>2 DEF AllJobs
      <4>3. /\ now.pushed = job[j].pushed /\ now.commit = job[j].commit /\ now.at # "pushing"
            /\ now.status \in {"none", "pending"} => now.at = "none"
            /\ now.at \in {"none", "staging", "staged", "committing"} =>
                 job[j].at \in {"none", "staging", "staged", "committing"}
            /\ now.base \in {job[j].base, head, <<>>}
        BY <2>2, <3>3 DEF FailAtOnce, AllJobs
      <4> HIDE DEF now
      <4> QED
        BY <4>1, <4>2, <4>3
    <3>4. CASE StageFails(j)
      <4> DEFINE now == [job[j] EXCEPT !.at = "logging", !.errors = TRUE, !.base = <<>>, !.since = "clean"]
      <4>1. job' = [job EXCEPT ![j] = now]
        BY <3>4 DEF StageFails
      <4>2. now \in AllJobs
        <5>1. <<>> \in Seq(1..made)
          OBVIOUS
        <5> QED
          BY <1>0, <2>2, <5>1 DEF AllJobs
      <4>3. /\ now.pushed = job[j].pushed /\ now.commit = job[j].commit /\ now.at # "pushing"
            /\ now.status \in {"none", "pending"} => now.at = "none"
            /\ now.at \in {"none", "staging", "staged", "committing"} =>
                 job[j].at \in {"none", "staging", "staged", "committing"}
            /\ now.base \in {job[j].base, head, <<>>}
        BY <2>2, <3>4 DEF StageFails, AllJobs
      <4> HIDE DEF now
      <4> QED
        BY <4>1, <4>2, <4>3
    <3>5. CASE NothingToCommit(j)
      <4> DEFINE now == [job[j] EXCEPT !.at = "logging"]
      <4>1. job' = Added([job EXCEPT ![j] = now])
        BY <3>5 DEF NothingToCommit
      <4>2. now \in AllJobs
        BY <1>0, <2>2 DEF AllJobs
      <4>3. /\ now.pushed = job[j].pushed /\ now.commit = job[j].commit /\ now.at # "pushing"
            /\ now.status \in {"none", "pending"} => now.at = "none"
            /\ now.at \in {"none", "staging", "staged", "committing"} =>
                 job[j].at \in {"none", "staging", "staged", "committing"}
            /\ now.base \in {job[j].base, head, <<>>}
        BY <2>2, <3>5 DEF NothingToCommit, AllJobs
      <4> HIDE DEF now
      <4> QED
        BY <4>1, <4>2, <4>3
    <3>6. CASE Stage(j)
      <4> DEFINE now == [job[j] EXCEPT !.at = "staged"]
      <4>1. job' = Added([job EXCEPT ![j] = now])
        BY <3>6 DEF Stage
      <4>2. now \in AllJobs
        BY <1>0, <2>2 DEF AllJobs
      <4>3. /\ now.pushed = job[j].pushed /\ now.commit = job[j].commit /\ now.at # "pushing"
            /\ now.status \in {"none", "pending"} => now.at = "none"
            /\ now.at \in {"none", "staging", "staged", "committing"} =>
                 job[j].at \in {"none", "staging", "staged", "committing"}
            /\ now.base \in {job[j].base, head, <<>>}
        BY <2>2, <3>6 DEF Stage, AllJobs
      <4> HIDE DEF now
      <4> QED
        BY <4>1, <4>2, <4>3
    <3>7. CASE TakeHead(j)
      <4> DEFINE now == [job[j] EXCEPT !.at = "committing", !.base = head]
      <4>1. job' = [job EXCEPT ![j] = now]
        BY <3>7 DEF TakeHead
      <4>2. now \in AllJobs
        BY <1>0, <2>2 DEF AllJobs
      <4>3. /\ now.pushed = job[j].pushed /\ now.commit = job[j].commit /\ now.at # "pushing"
            /\ now.status \in {"none", "pending"} => now.at = "none"
            /\ now.at \in {"none", "staging", "staged", "committing"} =>
                 job[j].at \in {"none", "staging", "staged", "committing"}
            /\ now.base \in {job[j].base, head, <<>>}
        BY <2>2, <3>7 DEF TakeHead, AllJobs
      <4> HIDE DEF now
      <4> QED
        BY <4>1, <4>2, <4>3
    <3>8. CASE \E e \in BOOLEAN : NoPush(j, e)
      <4>0. PICK e \in BOOLEAN : NoPush(j, e)
        BY <3>8
      <4> DEFINE now == [job[j] EXCEPT !.at = "logging", !.errors = e]
      <4>1. job' = [job EXCEPT ![j] = now]
        BY <4>0 DEF NoPush
      <4>2. now \in AllJobs
        BY <1>0, <2>2 DEF AllJobs
      <4>3. /\ now.pushed = job[j].pushed /\ now.commit = job[j].commit /\ now.at # "pushing"
            /\ now.status \in {"none", "pending"} => now.at = "none"
            /\ now.at \in {"none", "staging", "staged", "committing"} =>
                 job[j].at \in {"none", "staging", "staged", "committing"}
            /\ now.base \in {job[j].base, head, <<>>}
        BY <2>2, <4>0 DEF NoPush, AllJobs
      <4> HIDE DEF now
      <4> QED
        BY <4>1, <4>2, <4>3
    <3>9. CASE \E e \in BOOLEAN : Finish(j, e)
      <4>0. PICK e \in BOOLEAN : Finish(j, e)
        BY <3>9
      <4> DEFINE now == [job[j] EXCEPT !.at = "done", !.status = "succeeded"]
      <4>1. (job' = [job EXCEPT ![j] = now] \/ job' = Touched([job EXCEPT ![j] = now], "log"))
        BY <4>0 DEF Finish
      <4>2. now \in AllJobs
        BY <1>0, <2>2 DEF AllJobs
      <4>3. /\ now.pushed = job[j].pushed /\ now.commit = job[j].commit /\ now.at # "pushing"
            /\ now.status \in {"none", "pending"} => now.at = "none"
            /\ now.at \in {"none", "staging", "staged", "committing"} =>
                 job[j].at \in {"none", "staging", "staged", "committing"}
            /\ now.base \in {job[j].base, head, <<>>}
        BY <2>2, <4>0 DEF Finish, AllJobs
      <4> HIDE DEF now
      <4> QED
        BY <4>1, <4>2, <4>3
    <3> QED
      BY <1>1, <3>1, <3>2, <3>3, <3>4, <3>5, <3>6, <3>7, <3>8, <3>9
  <2> DEFINE now == [job EXCEPT ![j] = next]
  <2>4. now \in [Job -> AllJobs] /\ now[j] = next /\ \A k \in Job : k # j => now[k] = job[k]
    BY <1>0, <2>3
  <2> HIDE DEF now
  <2>5. job' = now \/ job' = Added(now) \/ job' = Touched(now, "log")
    BY <2>3 DEF now
  <2>6. /\ job' \in [Job -> AllJobs]
        /\ \A k \in Job :
             /\ job'[k].status = now[k].status /\ job'[k].at = now[k].at /\ job'[k].commit = now[k].commit
             /\ job'[k].pushed = now[k].pushed /\ job'[k].base = now[k].base
    BY <1>6, <2>4, <2>5
  <2>7. /\ job'[j].status = next.status /\ job'[j].at = next.at /\ job'[j].commit = next.commit
        /\ job'[j].pushed = next.pushed /\ job'[j].base = next.base
    BY <2>4, <2>6
  <2>8. \A k \in Job : k # j =>
          /\ job'[k].status = job[k].status /\ job'[k].at = job[k].at /\ job'[k].commit = job[k].commit
          /\ job'[k].pushed = job[k].pushed /\ job'[k].base = job[k].base
    BY <2>4, <2>6
  <2> QED
    BY <2>1, <2>2, <2>3, <2>6, <2>7, <2>8, JobMoves
<1>2. ASSUME NEW j \in Job, Commit(j) PROVE PublishInv'
  <2> DEFINE base == job[j].base
             next == [job[j] EXCEPT !.at = IF AutoPush THEN "pushing" ELSE "logging",
                                    !.commit = made + 1, !.base = <<>>, !.since = "clean"]
  <2>1. /\ job[j].at = "committing" /\ made' = made + 1 /\ head' = Append(base, made + 1)
        /\ remote' = remote /\ undone' = undone /\ dirty' = job[j].since
        /\ lost' = lost \union (Range(head) \ Range(base))
        /\ job' = [job EXCEPT ![j] = next]
    BY <1>2 DEF Commit, SetHead
  <2>2. /\ job[j] \in AllJobs /\ base \in Seq(1..made) /\ dirty' \in {"clean", "log", "pages"}
        /\ ~job[j].pushed /\ job[j].status \notin {"none", "pending"}
    BY <1>0, <2>1 DEF JobInv, AllJobs
  <2>3. /\ head \in Seq(1..made + 1) /\ remote \in Seq(1..made + 1) /\ base \in Seq(1..made + 1)
        /\ made + 1 \in 1..made + 1 /\ made + 1 \in Nat
    BY <1>0, <2>2, WiderSeq
  <2>4. /\ head' \in Seq(1..made + 1) /\ Len(head') = Len(base) + 1
        /\ \A i \in 1..Len(base) : head'[i] = base[i]
        /\ head'[Len(base) + 1] = made + 1 /\ Range(head') = Range(base) \union {made + 1}
    <3> DEFINE S == 1..made + 1
    <3> HIDE DEF S, base
    <3>1. base \in Seq(S) /\ made + 1 \in S
      BY <2>3 DEF S
    <3>2. /\ Append(base, made + 1) \in Seq(S) /\ Len(Append(base, made + 1)) = Len(base) + 1
          /\ \A i \in 1..Len(base) : Append(base, made + 1)[i] = base[i]
          /\ Append(base, made + 1)[Len(base) + 1] = made + 1
          /\ Range(Append(base, made + 1)) = Range(base) \union {made + 1}
      BY <3>1, AppendIs
    <3> QED
      BY <2>1, <3>2 DEF S
  <2>5. /\ next \in AllJobs' /\ next.at \in {"pushing", "logging"} /\ next.commit = made + 1
        /\ next.pushed = job[j].pushed /\ next.status = job[j].status /\ next.base = <<>>
    <3>1. PICK at \in {"pushing", "logging"} : at = IF AutoPush THEN "pushing" ELSE "logging"
      OBVIOUS
    <3>2. next = [job[j] EXCEPT !.at = at, !.commit = made + 1, !.base = <<>>, !.since = "clean"]
      BY <3>1
    <3>3. <<>> \in Seq(1..made')
      OBVIOUS
    <3> HIDE DEF next
    <3> QED
      BY <2>2, <2>3, <3>2, <3>3 DEF AllJobs
  <2>6. AllJobs \subseteq AllJobs'
    <3> SUFFICES ASSUME NEW b \in AllJobs PROVE b \in AllJobs'
      OBVIOUS
    <3>1. b.base \in Seq(1..made + 1)
      BY <1>0, WiderSeq DEF AllJobs
    <3> QED
      BY <2>1, <3>1 DEF AllJobs
  <2> HIDE DEF next
  <2>7. /\ job' \in [Job -> AllJobs'] /\ job'[j] = next
        /\ \A k \in Job : k # j => job'[k] = job[k]
    BY <1>0, <2>1, <2>5, <2>6
  <2> HIDE DEF base
  <2>14. /\ base \in Seq(1..made) /\ Len(base) \in Nat /\ DOMAIN base = 1..Len(base)
        /\ \A k \in 1..Len(base) : base[k] \in 1..made
    <3>1. base \in Seq(1..made) /\ made \in Nat
      BY <1>0, <2>2
    <3> QED
      BY <3>1
  <2>15. DOMAIN head' = 1..Len(base) + 1
    <3>1. head' \in Seq(1..made + 1) /\ Len(head') = Len(base) + 1
      BY <2>4
    <3> QED
      BY <3>1
  <2>8. Range(head) \union undone \union lost \subseteq Range(head') \union undone' \union lost'
    BY <2>1, <2>4
  <2>9. \A s, t \in Branches' : Coherent(s, t)
    <3>1. base \in Branches
      BY <2>2 DEF Branches, IsBranch, base
    <3>2. ASSUME NEW s \in Branches', s # head', s # <<>> PROVE s \in Branches
      <4>1. IsBranch(s)
        <5>1. s = remote \/ \E k \in Job : s = job'[k].base
          BY <2>1, <3>2 DEF Branches, IsBranch
        <5>2. ASSUME NEW k \in Job, s = job'[k].base PROVE s = job[k].base
          BY <2>5, <2>7, <3>2, <5>2
        <5> QED
          BY <5>1, <5>2 DEF IsBranch
      <4>2. s \in Seq(1..made)
        BY <1>0, <4>1 DEF IsBranch, AllJobs
      <4> QED
        BY <4>1, <4>2 DEF Branches
    <3>3. ASSUME NEW t \in Branches
          PROVE  Coherent(head', t) /\ Coherent(t, head')
      <4>1. Coherent(base, t) /\ Coherent(t, base) /\ t \in Seq(1..made)
        BY <1>0, <3>1 DEF Branches
      <4>2. /\ DOMAIN head' = 1..Len(base) + 1 /\ DOMAIN base = 1..Len(base) /\ Len(base) \in Nat
            /\ \A k \in DOMAIN t : t[k] \in 1..made /\ k \in Nat
        <5>1. t \in Seq(1..made) /\ made \in Nat
          BY <1>0, <4>1
        <5>2. \A k \in DOMAIN t : t[k] \in 1..made /\ k \in Nat
          BY <5>1
        <5> QED
          BY <2>14, <2>15, <5>2
      <4>3. ASSUME NEW i \in DOMAIN head', NEW k \in DOMAIN t, head'[i] = t[k]
            PROVE  i = k /\ \A m \in 1..i : head'[m] = t[m]
        <5>1. i \in DOMAIN base
          <6>1. i # Len(base) + 1
            BY <1>0, <2>4, <4>2, <4>3
          <6> QED
            BY <4>2, <6>1
        <5>2. i = k /\ \A m \in 1..i : base[m] = t[m]
          BY <2>4, <4>1, <4>2, <4>3, <5>1 DEF Coherent
        <5>3. \A m \in 1..i : m \in 1..Len(base)
          BY <4>2, <5>1
        <5> QED
          BY <2>4, <5>2, <5>3
      <4>4. \A k \in DOMAIN t, i \in DOMAIN head' :
              t[k] = head'[i] => k = i /\ \A m \in 1..k : t[m] = head'[m]
        BY <4>3
      <4> QED
        BY <4>3, <4>4 DEF Coherent
    <3>4. Coherent(head', head')
      <4>1. Coherent(base, base)
        BY <1>0, <3>1
      <4>2. /\ DOMAIN head' = 1..Len(base) + 1 /\ DOMAIN base = 1..Len(base) /\ Len(base) \in Nat
            /\ \A k \in 1..Len(base) : base[k] \in 1..made
        BY <2>14, <2>15
      <4>3. ASSUME NEW i \in 1..Len(base) + 1, NEW k \in 1..Len(base) + 1, head'[i] = head'[k] PROVE i = k
        <5>1. \A m \in 1..Len(base) : head'[m] \in 1..made /\ head'[m] # made + 1
          BY <1>0, <2>4, <4>2
        <5>2. CASE i \in 1..Len(base) /\ k \in 1..Len(base)
          BY <2>4, <4>1, <4>2, <4>3, <5>2 DEF Coherent
        <5>3. CASE i \notin 1..Len(base) \/ k \notin 1..Len(base)
          <6>1. i = Len(base) + 1 \/ k = Len(base) + 1
            BY <4>2, <5>3
          <6>2. (i = Len(base) + 1 \/ i \in 1..Len(base)) /\ (k = Len(base) + 1 \/ k \in 1..Len(base))
            BY <4>2
          <6> QED
            BY <2>4, <4>3, <5>1, <6>1, <6>2
        <5> QED
          BY <5>2, <5>3
      <4> QED
        BY <4>2, <4>3 DEF Coherent
    <3> SUFFICES ASSUME NEW s \in Branches', NEW t \in Branches' PROVE Coherent(s, t)
      OBVIOUS
    <3>5. CASE s = <<>> \/ t = <<>>
      BY <3>5 DEF Coherent
    <3>6. CASE s # <<>> /\ t # <<>>
      BY <1>0, <3>2, <3>3, <3>4, <3>6
    <3> QED
      BY <3>5, <3>6
  <2>10. JobInv'
    <3> SUFFICES ASSUME NEW k \in Job
                 PROVE  /\ job'[k].status \in {"none", "pending"} => job'[k].at = "none"
                        /\ job'[k].at \in {"none", "staging", "staged", "committing"} => ~job'[k].pushed
                        /\ job'[k].at = "pushing" => job'[k].commit \in Range(head') \union undone' \union lost'
      BY <2>7 DEF JobInv
    <3>1. CASE k = j
      BY <2>2, <2>4, <2>5, <2>7, <3>1
    <3>2. CASE k # j
      BY <1>0, <2>7, <2>8, <3>2 DEF JobInv
    <3> QED
      BY <3>1, <3>2
  <2>11. PushedIsThere'
    <3> SUFFICES ASSUME NEW k \in Job, job'[k].pushed
                 PROVE  job'[k].commit \in Range(remote') \union undone' \union lost'
      BY DEF PushedIsThere
    <3>1. k # j
      BY <2>2, <2>5, <2>7
    <3> QED
      BY <1>0, <2>1, <2>7, <3>1 DEF PushedIsThere
  <2>12. BehindUntilRollback'
    <3>1. CASE IsPrefix(remote, head)
      <4> DEFINE S == 1..made + 1
                 n == Len(remote)
      <4> HIDE DEF S
      <4>1. remote \in Seq(S) /\ head \in Seq(S) /\ head' \in Seq(S) /\ n \in Nat
        BY <2>3, <2>4 DEF S
      <4>2. DOMAIN remote = 1..n /\ DOMAIN base = 1..Len(base) /\ Len(base) \in Nat
        BY <2>3
      <4>3. CASE n = 0
        <5>2. Len(remote) <= Len(head') /\ \A i \in 1..Len(remote) : remote[i] = head'[i]
          BY <4>1, <4>3
        <5>1. IsPrefix(remote, head')
          BY <4>1, <5>2, PrefixIs
        <5> QED
          BY <2>1, <5>1 DEF BehindUntilRollback
      <4>4. CASE n # 0 /\ remote[n] \in Range(base)
        <5>1. PICK k \in DOMAIN base : base[k] = remote[n]
          BY <4>4 DEF Range
        <5>2. remote \in Branches /\ base \in Branches
          BY <1>0, <2>2 DEF Branches, IsBranch, base
        <5>6. Coherent(remote, base) /\ n \in DOMAIN remote
          BY <1>0, <4>1, <4>2, <4>4, <5>2
        <5>3. n = k /\ \A m \in 1..n : remote[m] = base[m]
          BY <5>1, <5>6 DEF Coherent
        <5>4. n <= Len(head') /\ \A i \in 1..n : remote[i] = head'[i]
          BY <2>4, <4>1, <4>2, <5>3
        <5>5. IsPrefix(remote, head')
          BY <4>1, <5>4, PrefixIs
        <5> QED
          BY <2>1, <5>5 DEF BehindUntilRollback
      <4>5. CASE n # 0 /\ remote[n] \notin Range(base)
        <5>1. remote[n] \in Range(remote)
          BY <4>1, <4>2, <4>5 DEF Range
        <5>2. Range(remote) \subseteq Range(head)
          BY <3>1, <4>1, PrefixWithin
        <5>3. remote[n] \in lost'
          BY <2>1, <4>5, <5>1, <5>2
        <5> QED
          BY <2>1, <5>1, <5>3 DEF BehindUntilRollback
      <4> QED
        BY <4>3, <4>4, <4>5
    <3> QED
      BY <1>0, <2>1, <3>1 DEF BehindUntilRollback
  <2>13. /\ made' \in Nat /\ head' \in Seq(1..made') /\ remote' \in Seq(1..made')
         /\ undone' \subseteq 1..made' /\ lost' \subseteq 1..made'
    <3>1. Range(head) \subseteq 1..made /\ 1..made \subseteq 1..made + 1
      BY <1>0 DEF Range
    <3> QED
      BY <1>0, <2>1, <2>3, <2>4, <3>1
  <2> QED
    BY <2>2, <2>9, <2>10, <2>11, <2>12, <2>13 DEF PublishInv
<1>3. ASSUME NEW j \in Job, Push(j) PROVE PublishInv'
  <2> DEFINE taken == IsPrefix(remote, head)
             next == [job[j] EXCEPT !.at = "logging", !.pushed = taken, !.errors = ~taken]
  <2>1. /\ job[j].at = "pushing" /\ UNCHANGED <<made, head, undone, lost, dirty>>
        /\ job' = [job EXCEPT ![j] = next]
        /\ remote' = IF taken THEN head ELSE remote
    BY <1>3 DEF Push
  <2>2. taken \in BOOLEAN
    BY DEF IsPrefix
  <2>3. taken => Range(remote) \subseteq Range(head)
    BY <1>0, PrefixWithin
  <2>4. IsPrefix(head, head)
    BY <1>0, PrefixIs
  <2> HIDE DEF taken
  <2>5. /\ next \in AllJobs /\ next.at = "logging" /\ next.commit = job[j].commit
        /\ next.pushed = taken /\ next.status = job[j].status /\ next.base = job[j].base
    BY <1>0, <2>2 DEF AllJobs
  <2> HIDE DEF next
  <2>6. /\ job' \in [Job -> AllJobs] /\ job'[j] = next /\ AllJobs' = AllJobs
        /\ \A k \in Job : k # j => job'[k] = job[k]
    BY <1>0, <2>1, <2>5 DEF AllJobs
  <2>7. \A k \in Job : job'[k].base = job[k].base
    BY <2>5, <2>6
  <2>8. Branches' \subseteq Branches
    <3> SUFFICES ASSUME NEW s \in Branches' PROVE s \in Branches
      OBVIOUS
    <3>1. s \in Seq(1..made)
      BY <2>1 DEF Branches
    <3>2. IsBranch(s)
      BY <2>1, <2>7 DEF Branches, IsBranch
    <3> QED
      BY <3>1, <3>2 DEF Branches
  <2>9. JobInv'
    <3> SUFFICES ASSUME NEW k \in Job
                 PROVE  /\ job'[k].status \in {"none", "pending"} => job'[k].at = "none"
                        /\ job'[k].at \in {"none", "staging", "staged", "committing"} => ~job'[k].pushed
                        /\ job'[k].at = "pushing" => job'[k].commit \in Range(head) \union undone \union lost
      BY <2>1, <2>6 DEF JobInv
    <3>1. CASE k = j
      BY <1>0, <2>1, <2>5, <2>6, <3>1 DEF JobInv
    <3>2. CASE k # j
      BY <1>0, <2>6, <3>2 DEF JobInv
    <3> QED
      BY <3>1, <3>2
  <2>10. PushedIsThere'
    <3> SUFFICES ASSUME NEW k \in Job, job'[k].pushed
                 PROVE  job'[k].commit \in Range(remote') \union undone \union lost
      BY <2>1 DEF PushedIsThere
    <3>1. CASE k = j
      BY <1>0, <2>1, <2>5, <2>6, <3>1 DEF JobInv
    <3>2. CASE k # j
      BY <1>0, <2>1, <2>3, <2>6, <3>2 DEF PushedIsThere
    <3> QED
      BY <3>1, <3>2
  <2>11. BehindUntilRollback'
    BY <1>0, <2>1, <2>4 DEF BehindUntilRollback
  <2>12. remote' \in Seq(1..made)
    BY <1>0, <2>1
  <2> QED
    BY <1>0, <2>1, <2>8, <2>9, <2>10, <2>11, <2>12 DEF PublishInv
<1>4. CASE Rollback
  <2>1. /\ Len(head) > 1 /\ undone' = undone \union {Last(head)} /\ head' = Front(head)
        /\ made' = made /\ remote' = remote /\ lost' = lost /\ job' = job /\ dirty' = "pages"
    BY <1>4 DEF Rollback
  <2> DEFINE S == 1..made
  <2> HIDE DEF S
  <2>2. head \in Seq(S) /\ remote \in Seq(S) /\ Len(head) \in Nat /\ Len(remote) \in Nat
    BY <1>0 DEF S
  <2>3. /\ head' \in Seq(S) /\ Len(head') = Len(head) - 1
        /\ \A i \in 1..Len(head) - 1 : head'[i] = head[i]
        /\ Last(head) \in S /\ Range(head) = Range(head') \union {Last(head)}
    BY SMTT(30), <2>1, <2>2, FrontIs
  <2>4. undone' \subseteq 1..made /\ head' \in Seq(1..made)
    BY <1>0, <2>1, <2>3 DEF S
  <2>5. \A s, t \in Branches' : Coherent(s, t)
    <3>1. head \in Branches
      BY <1>0 DEF Branches, IsBranch
    <3>2. ASSUME NEW s \in Branches', s # head' PROVE s \in Branches
      <4>1. IsBranch(s) /\ s \in Seq(1..made)
        BY <2>1, <3>2 DEF Branches, IsBranch
      <4> QED
        BY <4>1 DEF Branches
    <3>3. /\ DOMAIN head' = 1..Len(head) - 1 /\ DOMAIN head = 1..Len(head)
          /\ \A i \in DOMAIN head' : i \in DOMAIN head /\ \A m \in 1..i : m \in DOMAIN head' /\ head'[m] = head[m]
      BY <2>2, <2>3
    <3>4. \A t : Coherent(head, t) => Coherent(head', t)
      BY <3>3 DEF Coherent
    <3>5. \A t : Coherent(t, head) => Coherent(t, head')
      <4> SUFFICES ASSUME NEW t, Coherent(t, head), NEW k \in DOMAIN t, NEW i \in DOMAIN head', t[k] = head'[i]
                   PROVE  k = i /\ \A m \in 1..k : t[m] = head'[m]
        BY DEF Coherent
      <4>1. i \in DOMAIN head /\ t[k] = head[i]
        BY <2>2, <3>3
      <4>2. k = i /\ \A m \in 1..k : t[m] = head[m]
        BY <4>1 DEF Coherent
      <4> QED
        BY <3>3, <4>2
    <3>6. \A t \in Branches : Coherent(head', t) /\ Coherent(t, head')
      BY <1>0, <3>1, <3>4, <3>5
    <3>7. Coherent(head', head')
      BY <3>1, <3>4, <3>6
    <3> QED
      BY <1>0, <3>2, <3>6, <3>7
  <2>6. JobInv'
    <3>1. AllJobs' = AllJobs
      BY <2>1 DEF AllJobs
    <3> QED
      BY <1>0, <2>1, <2>3, <3>1 DEF JobInv
  <2>7. PushedIsThere'
    BY <1>0, <2>1 DEF PushedIsThere
  <2>8. BehindUntilRollback'
    <3>1. CASE IsPrefix(remote, head)
      <4>1. Len(remote) <= Len(head) /\ \A i \in 1..Len(remote) : remote[i] = head[i]
        BY <2>2, <3>1, PrefixIs
      <4>2. CASE Len(remote) = Len(head)
        <5>1. Last(head) = remote[Len(remote)] /\ Len(remote) \in DOMAIN remote
          BY <2>1, <2>2, <4>1, <4>2 DEF Last
        <5>2. Last(head) \in Range(remote)
          BY <5>1 DEF Range
        <5> QED
          BY <2>1, <5>2 DEF BehindUntilRollback
      <4>3. CASE Len(remote) # Len(head)
        <5>1. Len(remote) <= Len(head') /\ \A i \in 1..Len(remote) : remote[i] = head'[i]
          BY <2>2, <2>3, <4>1, <4>3
        <5>2. IsPrefix(remote, head')
          BY <2>2, <2>3, <5>1, PrefixIs
        <5> QED
          BY <2>1, <5>2 DEF BehindUntilRollback
      <4> QED
        BY <4>2, <4>3
    <3>2. CASE (undone \union lost) \intersect Range(remote) # {}
      BY <2>1, <3>2 DEF BehindUntilRollback
    <3> QED
      BY <1>0, <3>1, <3>2 DEF BehindUntilRollback
  <2> QED
    BY <1>0, <2>1, <2>4, <2>5, <2>6, <2>7, <2>8 DEF PublishInv
<1>5. CASE Write \/ UNCHANGED publishVars
  <2>1. /\ head' = head /\ made' = made /\ remote' = remote /\ undone' = undone /\ lost' = lost
        /\ dirty' \in {"clean", "log", "pages"} /\ (job' = job \/ job' = Touched(job, "pages"))
    BY <1>0, <1>5 DEF Write, publishVars
  <2>2. CASE Job = {}
    <3>1. job' \in [Job -> AllJobs]
      BY <1>0, <1>6, <2>1
    <3>2. AllJobs' = AllJobs
      BY <2>1 DEF AllJobs
    <3>3. Branches' = Branches
      BY <2>1, <2>2 DEF Branches, IsBranch
    <3> QED
      BY <1>0, <2>1, <2>2, <3>1, <3>2, <3>3 DEF PublishInv, JobInv, PushedIsThere, BehindUntilRollback
  <2>3. ASSUME NEW j \in Job PROVE PublishInv'
    <3>1. job' \in [Job -> AllJobs] /\ \A k \in Job :
            /\ job'[k].status = job[k].status /\ job'[k].at = job[k].at /\ job'[k].commit = job[k].commit
            /\ job'[k].pushed = job[k].pushed /\ job'[k].base = job[k].base
      BY <1>0, <1>6, <2>1
    <3>2. /\ job[j].status \in {"none", "pending"} => job[j].at = "none"
          /\ job[j].at \in {"none", "staging", "staged", "committing"} => ~job[j].pushed
      BY <1>0 DEF JobInv
    <3> QED
      BY <2>1, <3>1, <3>2, JobMoves
  <2> QED
    BY <2>2, <2>3
<1> QED
  BY <1>1, <1>2, <1>3, <1>4, <1>5 DEF PublishNext, JobStep

(* A branch that agrees with itself has no commit twice.                   *)
LEMMA BranchesTyped ==
  ASSUME PublishInv PROVE PublishTypeOK
<1>1. Coherent(head, head) /\ Coherent(remote, remote)
  BY DEF PublishInv, Branches, IsBranch
<1>2. IsInjective(head) /\ IsInjective(remote)
  BY <1>1 DEF Coherent, IsInjective
<1> QED
  BY <1>2 DEF PublishInv, PublishTypeOK, JobInv, AllJobs

(* A commit that is owed makes the count of status positive.               *)
LEMMA OwedIsCounted ==
  ASSUME PublishInv PROVE OwedShows
<1> SUFFICES ASSUME NEW x \in Range(head) \ Range(remote), tracking
             PROVE  Cardinality(Range(head) \ Range(remote)) # 0
  BY DEF OwedShows, Unpushed
<1>1. head \in Seq(1..made) /\ made \in Nat
  BY DEF PublishInv
<1>2. Range(head) \subseteq 1..made
  BY <1>1 DEF Range
<1>3. IsFiniteSet(Range(head) \ Range(remote))
  BY <1>1, <1>2, FS_Interval, FS_Subset
<1> QED
  BY <1>3, FS_EmptySet

(* For any number of overlapping jobs, commits and rollbacks: a job that   *)
(* says pushed is right unless its commit was rolled back or lost to       *)
(* another job before, the branch leaves the remote's only by one of the   *)
(* two, and status shows every commit of the branch that is owed           *)
(* (publisher.py).                                                         *)
THEOREM PublishSoundThm == PublisherSpec => []PublishSound
<1>1. PublishInit => PublishInv
  <2> SUFFICES ASSUME PublishInit PROVE PublishInv
    OBVIOUS
  <2>1. /\ made \in {0, 1} /\ head = [k \in 1..made |-> k] /\ remote \in {<<>>, head}
        /\ undone = {} /\ lost = {} /\ job = [j \in Job |-> NoJob] /\ dirty = "pages"
    BY DEF PublishInit
  <2>2. head \in Seq(1..made) /\ <<>> \in Seq(1..made)
    BY <2>1
  <2>3. \A s, t \in Branches : Coherent(s, t)
    <3>1. \A s \in Branches : s = head \/ s = <<>>
      BY <2>1 DEF Branches, IsBranch, NoJob
    <3>2. Coherent(head, head)
      BY <2>1 DEF Coherent
    <3>3. \A s : Coherent(<<>>, s) /\ Coherent(s, <<>>)
      BY DEF Coherent
    <3> QED
      BY <3>1, <3>2, <3>3
  <2>4. IsPrefix(remote, head)
    <3> DEFINE S == 1..made
    <3> HIDE DEF S
    <3>1. head \in Seq(S) /\ remote \in Seq(S) /\ <<>> \in Seq(S)
      BY <2>1, <2>2 DEF S
    <3>2. Len(remote) <= Len(head) /\ \A i \in 1..Len(remote) : remote[i] = head[i]
      BY <2>1, <3>1
    <3> QED
      BY <3>1, <3>2, PrefixIs
  <2>5. NoJob \in AllJobs
    BY DEF NoJob, AllJobs
  <2>6. JobInv /\ PushedIsThere
    BY <2>1, <2>5 DEF JobInv, PushedIsThere, NoJob
  <2>7. remote \in Seq(1..made) /\ made \in Nat
    <3>1. made \in Nat
      BY <2>1
    <3>2. remote = <<>> \/ remote = head
      BY <2>1
    <3> QED
      BY <2>2, <3>1, <3>2
  <2> QED
    BY <2>1, <2>2, <2>3, <2>4, <2>6, <2>7 DEF PublishInv, BehindUntilRollback
<1>2. PublishInv => PublishSound
  BY OwedIsCounted, BranchesTyped DEF PublishInv, PublishSound
<1> QED
  BY <1>1, <1>2, PublisherStep, PTL DEF PublisherSpec
-----------------------------------------------------------------------------
(* The Confluence sync.  What a run has not seen of its space, up to where *)
(* it has listed, was absent at some time.                                 *)
PageRun == [at : {"idle", "fetching", "ingesting"},
            space : {SpaceOf[p] : p \in SyncPage} \union {"none"}, next : Nat, attempt : 0..MaxRetries,
            seen : SUBSET SyncPage, left : SUBSET SyncPage]

HonestRun(b, gone) ==
  /\ b.left \subseteq b.seen /\ b.seen \subseteq Inside(b)
  /\ b.at = "fetching" => \A p \in Inside(b) : p < b.next /\ p \notin b.seen => p \in gone
  /\ b.at = "ingesting" => \A p \in Inside(b) : p \notin b.seen => p \in gone

PagesInv ==
  /\ upstream \subseteq SyncPage /\ synced \subseteq SyncPage /\ archived \subseteq SyncPage
  /\ ownFlagged \subseteq SyncPage /\ ownFlagged \subseteq absent /\ SyncPage \ upstream \subseteq absent
  /\ sync \in [Syncer -> PageRun] /\ \A r \in Syncer : HonestRun(sync[r], absent)
  /\ crashes \in Nat

LEMMA RestingIs == Resting \in PageRun /\ \A gone : HonestRun(Resting, gone)
BY DEF Resting, PageRun, HonestRun, MaxRetries, Inside

(* One run goes on; the files stay as they are.                            *)
LEMMA RunMoves ==
  ASSUME PagesInv, NEW r \in Syncer, NEW next \in PageRun, HonestRun(next, absent),
         sync' = [sync EXCEPT ![r] = next],
         UNCHANGED <<upstream, absent, synced, archived, ownFlagged, crashes>>
  PROVE  PagesInv'
<1>1. sync' \in [Syncer -> PageRun] /\ \A q \in Syncer : HonestRun(sync'[q], absent)
  BY DEF PagesInv
<1> QED
  BY <1>1 DEF PagesInv

LEMMA ListedStep ==
  ASSUME PagesInv, NEW r \in Syncer, Listed(r)
  PROVE  PagesInv'
<1> DEFINE b == sync[r]
           to == b.next + PerRequest
           listed == upstream \intersect Inside(b)
           seen == b.seen \union {p \in listed : b.next <= p /\ p < to}
           now == IF \E p \in listed : p >= to
                   THEN [b EXCEPT !.next = to, !.attempt = 1, !.seen = seen]
                   ELSE [b EXCEPT !.at = "ingesting", !.attempt = 0, !.seen = seen, !.left = seen]
<1>1. /\ b.at = "fetching" /\ sync' = [sync EXCEPT ![r] = now]
      /\ UNCHANGED <<upstream, absent, synced, archived, ownFlagged, crashes>>
  BY DEF Listed
<1>2. /\ b \in PageRun /\ HonestRun(b, absent) /\ PerRequest \in Nat \ {0}
      /\ upstream \subseteq SyncPage /\ SyncPage \ upstream \subseteq absent
      /\ PageCount \in Nat /\ Inside(b) \subseteq SyncPage
  BY SyncAssumption DEF PagesInv, Inside
<1>3. /\ b.at = "fetching" /\ b.next \in Nat /\ b.seen \subseteq Inside(b) /\ b.left \subseteq b.seen
      /\ \A p \in Inside(b) : p < b.next /\ p \notin b.seen => p \in absent
  BY <1>1, <1>2 DEF PageRun, HonestRun
<1> DEFINE window == {p \in listed : b.next <= p /\ p < to}
<1>4. /\ to \in Nat /\ seen \subseteq Inside(b) /\ b.left \subseteq seen
      /\ \A p \in Inside(b) : p < to /\ p \notin seen => p \in absent
  <2>1. to \in Nat
    BY <1>2, <1>3
  <2>2. seen = b.seen \union window /\ window \subseteq Inside(b)
    BY <1>2
  <2>3. ASSUME NEW p \in Inside(b), p < to, p \notin seen PROVE p \in absent
    <3>1. p \notin b.seen /\ p \notin window
      BY <2>2, <2>3
    <3>2. CASE p < b.next
      BY <1>3, <3>1, <3>2
    <3>3. CASE ~(p < b.next)
      <4>1. b.next <= p
        BY <1>2, <1>3, <3>3 DEF SyncPage
      <4>2. p \notin upstream
        BY <2>3, <3>1, <4>1
      <4> QED
        BY <1>2, <4>2
    <3> QED
      BY <3>2, <3>3
  <2> HIDE DEF to, seen, window
  <2> QED
    BY <1>3, <2>1, <2>2, <2>3
<1>6. listed \subseteq SyncPage /\ \A p \in Inside(b) : p \notin listed => p \in absent
  BY <1>2
<1> HIDE DEF to, seen, window, listed
<1>5. now \in PageRun /\ HonestRun(now, absent)
  <2>1. CASE \E p \in listed : p >= to
    <3>1. now = [b EXCEPT !.next = to, !.attempt = 1, !.seen = seen]
      BY <2>1
    <3>2. now.next = to /\ now.seen = seen /\ now.left = b.left /\ now.at = "fetching" /\ now.space = b.space
      BY <1>2, <1>3, <3>1 DEF PageRun
    <3>3. now \in PageRun
      <4>1. PICK first \in 0..MaxRetries : first = 1
        BY DEF MaxRetries
      <4> QED
        BY <1>2, <1>4, <3>1, <4>1 DEF PageRun
    <3>4. Inside(now) = Inside(b)
      BY <3>2 DEF Inside
    <3> HIDE DEF now
    <3> QED
      BY <1>4, <3>2, <3>3, <3>4 DEF HonestRun
  <2>2. CASE ~\E p \in listed : p >= to
    <3>1. now = [b EXCEPT !.at = "ingesting", !.attempt = 0, !.seen = seen, !.left = seen]
      BY <2>2
    <3>3. now.seen = seen /\ now.left = seen /\ now.at = "ingesting" /\ now.space = b.space
      BY <1>2, <3>1 DEF PageRun
    <3>4. now \in PageRun
      <4>1. PICK none \in 0..MaxRetries : none = 0
        BY DEF MaxRetries
      <4> QED
        BY <1>2, <1>4, <3>1, <4>1 DEF PageRun
    <3>2. ASSUME NEW p \in Inside(b), p \notin seen PROVE p \in absent
      <4>1. CASE p < to
        BY <1>4, <3>2, <4>1
      <4>2. CASE ~(p < to)
        <5>1. p >= to
          BY <1>2, <1>4, <4>2 DEF SyncPage
        <5> QED
          BY <1>6, <2>2, <5>1
      <4> QED
        BY <4>1, <4>2
    <3>5. Inside(now) = Inside(b)
      BY <3>3 DEF Inside
    <3> HIDE DEF now
    <3> QED
      BY <1>4, <3>2, <3>3, <3>4, <3>5 DEF HonestRun
  <2> QED
    BY <2>1, <2>2
<1> HIDE DEF now
<1> QED
  BY <1>1, <1>5, RunMoves

(* The end of a run, and a crash in it.                                    *)
LEMMA ConcludeStep ==
  ASSUME PagesInv, NEW r \in Syncer, NEW cut \in {"none", "between", "torn"}, Conclude(r, cut)
  PROVE  /\ PagesInv'
         /\ \A p \in synced \ synced' : p \in archived'
         /\ crashes' = crashes => archived \subseteq archived'
<1> DEFINE deleted == synced \ sync[r].seen
<1>1. /\ sync[r].at = "ingesting" /\ upstream' = upstream /\ absent' = absent
      /\ archived' = IF cut = "torn" THEN {} ELSE archived \union deleted
      /\ ownFlagged' = ownFlagged \union (deleted \intersect Inside(sync[r]))
      /\ synced' = IF cut = "none" THEN sync[r].seen ELSE synced
      /\ cut = "none" => crashes' = crashes /\ sync' = [sync EXCEPT ![r] = Resting]
      /\ cut # "none" => crashes' = crashes + 1 /\ sync' = [q \in Syncer |-> Resting]
  BY DEF Conclude, EndRun
<1>2. /\ sync[r] \in PageRun /\ HonestRun(sync[r], absent) /\ synced \subseteq SyncPage
      /\ ownFlagged \subseteq absent /\ ownFlagged \subseteq SyncPage
      /\ archived \subseteq SyncPage /\ crashes \in Nat
  BY DEF PagesInv
<1>3. /\ sync[r].seen \subseteq SyncPage /\ deleted \subseteq SyncPage
      /\ deleted \intersect Inside(sync[r]) \subseteq absent
  BY <1>1, <1>2 DEF PageRun, HonestRun
<1>4. sync' \in [Syncer -> PageRun] /\ \A q \in Syncer : HonestRun(sync'[q], absent)
  <2>1. CASE cut = "none"
    BY <1>1, <2>1, RestingIs DEF PagesInv
  <2>2. CASE cut # "none"
    BY <1>1, <2>2, RestingIs
  <2> QED
    BY <2>1, <2>2
<1>5. /\ ownFlagged' \subseteq absent /\ ownFlagged' \subseteq SyncPage
      /\ archived' \subseteq SyncPage /\ synced' \subseteq SyncPage
  BY <1>1, <1>2, <1>3
<1>6. crashes' \in Nat
  BY <1>1, <1>2
<1>7. PagesInv'
  BY <1>1, <1>4, <1>5, <1>6 DEF PagesInv
<1>8. \A p \in synced \ synced' : p \in archived'
  BY <1>1
<1>9. crashes' = crashes => cut = "none"
  BY <1>1, <1>2
<1> QED
  BY <1>1, <1>7, <1>8, <1>9

LEMMA PagesStep ==
  ASSUME PagesInv,
         \/ \E p \in SyncPage : Change(p)
         \/ \E r \in Syncer : ConfluenceStep(r)
         \/ CrashSync
  PROVE  /\ PagesInv'
         /\ \A p \in synced \ synced' : p \in archived'
         /\ crashes' = crashes => archived \subseteq archived'
<1> DEFINE Unmoved == UNCHANGED <<upstream, absent, synced, archived, ownFlagged, crashes>>
<1>1. ASSUME NEW p \in SyncPage, Change(p)
      PROVE  PagesInv' /\ synced' = synced /\ archived' = archived
  <2>1. /\ upstream' = (upstream \ {p}) \union ({p} \ upstream)
        /\ absent' = absent \union ({p} \intersect upstream)
        /\ synced' = synced /\ archived' = archived /\ ownFlagged' = ownFlagged
        /\ sync' = sync /\ crashes' = crashes
    BY <1>1 DEF Change
  <2>2. upstream' \subseteq SyncPage /\ SyncPage \ upstream' \subseteq absent' /\ absent \subseteq absent'
    BY <2>1 DEF PagesInv
  <2>3. \A r \in Syncer : HonestRun(sync[r], absent')
    BY <2>2 DEF PagesInv, HonestRun
  <2> QED
    BY <2>1, <2>2, <2>3 DEF PagesInv
<1>2. ASSUME NEW r \in Syncer,
             (\E p \in SyncPage : Fetch(r, SpaceOf[p])) \/ Refused(r) \/ Unanswered(r) \/ IngestPage(r)
      PROVE  PagesInv' /\ synced' = synced /\ archived' = archived
  <2>1. Unmoved
    BY <1>2 DEF Fetch, Refused, Unanswered, IngestPage, signozVars
  <2>2. sync[r] \in PageRun /\ HonestRun(sync[r], absent)
    BY DEF PagesInv
  <2>3. CASE \E p \in SyncPage : Fetch(r, SpaceOf[p])
    <3>0. PICK space \in {SpaceOf[p] : p \in SyncPage} : Fetch(r, space)
      BY <2>3
    <3> DEFINE now == [Resting EXCEPT !.at = "fetching", !.space = space, !.attempt = 1]
    <3>1. sync' = [sync EXCEPT ![r] = now]
      BY <3>0 DEF Fetch
    <3>2. now.at = "fetching" /\ now.next = 1 /\ now.seen = {} /\ now.left = {}
      BY DEF Resting
    <3>3. now \in PageRun
      <4>1. PICK first \in 0..MaxRetries : first = 1
        BY DEF MaxRetries
      <4>2. now = [Resting EXCEPT !.at = "fetching", !.space = space, !.attempt = first]
        BY <4>1
      <4> HIDE DEF now
      <4> QED
        BY <4>2, RestingIs DEF PageRun
    <3>4. \A p \in Inside(now) : ~(p < 1)
      BY SyncAssumption DEF SyncPage, Inside
    <3>5. HonestRun(now, absent)
      BY <3>2, <3>4 DEF HonestRun
    <3> HIDE DEF now
    <3> QED
      BY <2>1, <3>1, <3>3, <3>5, RunMoves
  <2>4. CASE Refused(r) \/ (Unanswered(r) /\ ~(sync[r].attempt < MaxRetries))
    <3>1. sync' = [sync EXCEPT ![r] = Resting]
      BY <2>4 DEF Refused, Unanswered
    <3> QED
      BY <2>1, <3>1, RestingIs, RunMoves
  <2>5. CASE Unanswered(r) /\ sync[r].attempt < MaxRetries
    <3> DEFINE now == [sync[r] EXCEPT !.attempt = sync[r].attempt + 1]
    <3>1. sync' = [sync EXCEPT ![r] = now]
      <4>1. sync' = [sync EXCEPT ![r] = IF sync[r].attempt < MaxRetries THEN now ELSE Resting]
        BY <2>5 DEF Unanswered, Again
      <4> QED
        BY <2>5, <4>1
    <3>2. now \in PageRun
      BY <2>2, <2>5 DEF PageRun, MaxRetries
    <3>4. now.space = sync[r].space /\ now.at = sync[r].at /\ now.seen = sync[r].seen
          /\ now.left = sync[r].left /\ now.next = sync[r].next
      BY <2>2 DEF PageRun
    <3>5. Inside(now) = Inside(sync[r])
      BY <3>4 DEF Inside
    <3> HIDE DEF now
    <3>3. HonestRun(now, absent)
      BY <2>2, <3>4, <3>5 DEF HonestRun
    <3> QED
      BY <2>1, <3>1, <3>2, <3>3, RunMoves
  <2>6. CASE IngestPage(r)
    <3>1. PICK p \in sync[r].left : sync' = [sync EXCEPT ![r].left = @ \ {p}]
      BY <2>6 DEF IngestPage
    <3> DEFINE now == [sync[r] EXCEPT !.left = sync[r].left \ {p}]
    <3>2. sync' = [sync EXCEPT ![r] = now]
      BY <3>1 DEF PagesInv
    <3>3. now \in PageRun
      BY <2>2 DEF PageRun
    <3>5. now.space = sync[r].space /\ now.at = sync[r].at /\ now.seen = sync[r].seen
          /\ now.left \subseteq sync[r].left /\ now.next = sync[r].next
      BY <2>2 DEF PageRun
    <3>6. Inside(now) = Inside(sync[r])
      BY <3>5 DEF Inside
    <3> HIDE DEF now
    <3>4. HonestRun(now, absent)
      BY <2>2, <3>5, <3>6 DEF HonestRun
    <3> QED
      BY <2>1, <3>2, <3>3, <3>4, RunMoves
  <2> QED
    BY <1>2, <2>1, <2>3, <2>4, <2>5, <2>6
<1>3. CASE CrashSync
  <2>1. /\ sync' = [r \in Syncer |-> Resting] /\ crashes' = crashes + 1
        /\ UNCHANGED <<upstream, absent, synced, archived, ownFlagged>>
    BY <1>3 DEF CrashSync
  <2>2. sync' \in [Syncer -> PageRun] /\ \A q \in Syncer : HonestRun(sync'[q], absent)
    BY <2>1, RestingIs
  <2> QED
    BY <2>1, <2>2 DEF PagesInv
<1>4. ASSUME NEW r \in Syncer, Listed(r)
      PROVE  PagesInv' /\ synced' = synced /\ archived' = archived
  BY <1>4, ListedStep DEF Listed
<1>5. ASSUME NEW r \in Syncer, ConfluenceStep(r)
      PROVE  /\ PagesInv'
             /\ \A p \in synced \ synced' : p \in archived'
             /\ crashes' = crashes => archived \subseteq archived'
  BY <1>2, <1>4, <1>5, ConcludeStep DEF ConfluenceStep
<1> QED
  BY <1>1, <1>3, <1>5 DEF CrashSync
(* The SigNoz sync.  A run that ingests knows every incident entered, and  *)
(* has none of those it has entered itself left, unless runs overlapped.   *)
AlertIds == UNION {{b[k].id : k \in 1..Len(b)} : b \in Batch}
AlertRun == [at : {"idle", "fetching", "ingesting"}, attempt : 0..MaxRetries, left : Seq(AlertIds),
             known : SUBSET AlertIds, new : SUBSET AlertIds]

(* What a run of its own knows and has left, given what was entered.       *)
OnlyRun(b, e) ==
  b.at = "ingesting" =>
    /\ \A i \in AlertIds : e[i] > 0 => i \in b.new
    /\ \A k \in 1..Len(b.left) : b.left[k] \in b.new => b.left[k] \in b.known
    /\ \A j, k \in 1..Len(b.left) : b.left[j] = b.left[k] => j = k

Undisturbed ==
  /\ \A i \in AlertIds : entered[i] <= 1
  /\ \A q, r \in Syncer : pull[q].at # "idle" /\ pull[r].at # "idle" => q = r
  /\ (\A r \in Syncer : pull[r].at # "ingesting") => \A i \in AlertIds : entered[i] > 0 => i \in tracked
  /\ \A r \in Syncer : OnlyRun(pull[r], entered)

AlertsInv ==
  /\ entered \in [AlertIds -> Nat] /\ tracked \subseteq AlertIds
  /\ pull \in [Syncer -> AlertRun]
  /\ \A r \in Syncer : pull[r].known \subseteq pull[r].new
  /\ \A i \in tracked : entered[i] > 0
  /\ \A r \in Syncer : \A i \in pull[r].new : entered[i] > 0
  /\ unclear \in BOOLEAN
  /\ unclear \/ Undisturbed

LEMMA QuietIs ==
  /\ Quiet \in AlertRun /\ Quiet.known = {} /\ Quiet.new = {} /\ Quiet.at = "idle"
  /\ \A e : OnlyRun(Quiet, e)
BY DEF Quiet, AlertRun, MaxRetries, OnlyRun

LEMMA TailIs ==
  ASSUME NEW S, NEW s \in Seq(S), s # <<>>
  PROVE  /\ Tail(s) \in Seq(S) /\ Len(Tail(s)) = Len(s) - 1 /\ Len(s) \in Nat /\ Len(s) >= 1
         /\ Head(s) = s[1] /\ Head(s) \in S
         /\ \A k \in 1..Len(s) - 1 : Tail(s)[k] = s[k + 1]
BY HeadTailProperties

(* One run goes on, nothing is entered or kept.                            *)
LEMMA PullMoves ==
  ASSUME AlertsInv, NEW r \in Syncer, NEW now \in AlertRun,
         pull' = [pull EXCEPT ![r] = now],
         now.known \subseteq now.new, \A i \in now.new : entered[i] > 0,
         UNCHANGED <<tracked, entered>>, unclear' \in BOOLEAN,
         ~unclear' =>
           /\ ~unclear
           /\ now.at # "idle" => \A q \in Syncer : q # r => pull[q].at = "idle"
           /\ pull[r].at = "ingesting" => now.at = "ingesting"
           /\ OnlyRun(now, entered)
  PROVE  AlertsInv'
<1>0. pull'[r] = now /\ \A q \in Syncer : q # r => pull'[q] = pull[q]
  BY DEF AlertsInv
<1>1. pull' \in [Syncer -> AlertRun]
  BY DEF AlertsInv
<1>2. \A q \in Syncer : /\ pull'[q].known \subseteq pull'[q].new
                        /\ \A i \in pull'[q].new : entered[i] > 0
  BY <1>0 DEF AlertsInv
<1>3. ASSUME ~unclear' PROVE Undisturbed'
  <2>1. Undisturbed
    BY <1>3 DEF AlertsInv
  <2>2. \A p, q \in Syncer : pull'[p].at # "idle" /\ pull'[q].at # "idle" => p = q
    BY <1>0, <1>3, <2>1 DEF Undisturbed
  <2>3. (\A q \in Syncer : pull'[q].at # "ingesting") =>
          \A i \in AlertIds : entered[i] > 0 => i \in tracked
    BY <1>0, <1>3, <2>1 DEF Undisturbed
  <2>4. \A q \in Syncer : OnlyRun(pull'[q], entered)
    BY <1>0, <1>3, <2>1 DEF Undisturbed
  <2> QED
    BY <2>1, <2>2, <2>3, <2>4 DEF Undisturbed
<1>4. unclear' \/ Undisturbed'
  BY <1>3
<1> QED
  BY <1>1, <1>2, <1>4 DEF AlertsInv

(* What the filter keeps of the answer are ids of it.                      *)
LEMMA PositionsAre ==
  ASSUME NEW b \in Batch, NEW at \in Enumerations({k \in 1..Len(b) : InWindow(b[k]) /\ IsResolved(b[k])})
  PROVE  [k \in DOMAIN at |-> b[at[k]].id] \in Seq(AlertIds)
<1> DEFINE kept == {k \in 1..Len(b) : InWindow(b[k]) /\ IsResolved(b[k])}
           n == Cardinality(kept)
<1>1. b \in Seq(Alert) /\ Len(b) \in Nat
  BY SyncAssumption
<1>2. kept \subseteq 1..Len(b) /\ IsFiniteSet(kept)
  <2>1. kept \subseteq 1..Len(b)
    OBVIOUS
  <2>2. IsFiniteSet(1..Len(b))
    BY <1>1, FS_Interval
  <2> HIDE DEF kept
  <2> QED
    BY <2>1, <2>2, FS_Subset
<1>3. n \in Nat
  BY <1>2, FS_CardinalityType
<1>4. at \in [1..n -> kept]
  BY DEF Enumerations
<1> HIDE DEF kept, n
<1>5. \A k \in 1..n : b[at[k]].id \in AlertIds
  <2> SUFFICES ASSUME NEW k \in 1..n PROVE b[at[k]].id \in AlertIds
    OBVIOUS
  <2>1. at[k] \in 1..Len(b)
    BY <1>2, <1>4
  <2>2. b[at[k]].id \in {b[j].id : j \in 1..Len(b)}
    BY <2>1
  <2> QED
    BY <2>2 DEF AlertIds
<1> QED
  BY <1>3, <1>4, <1>5

LEMMA AlertsStep ==
  ASSUME AlertsInv, NEW r \in Syncer, NEW b \in Batch, Alerts(r, b)
  PROVE  AlertsInv'
<1>1. PICK at \in Enumerations({k \in 1..Len(b) : InWindow(b[k]) /\ IsResolved(b[k])}) :
        /\ pull' = [pull EXCEPT ![r] = [Quiet EXCEPT !.at = "ingesting",
                      !.left = [k \in DOMAIN at |-> b[at[k]].id], !.known = tracked, !.new = tracked]]
        /\ unclear' = (unclear \/ ~IsInjective([k \in DOMAIN at |-> b[at[k]].id]))
  BY DEF Alerts
<1>2. PICK ids \in Seq(AlertIds) : ids = [k \in DOMAIN at |-> b[at[k]].id]
  BY PositionsAre
<1> DEFINE now == [Quiet EXCEPT !.at = "ingesting", !.left = ids, !.known = tracked, !.new = tracked]
<1>3. /\ pull' = [pull EXCEPT ![r] = now] /\ unclear' = (unclear \/ ~IsInjective(ids))
      /\ UNCHANGED <<tracked, entered>> /\ pull[r].at = "fetching"
  BY <1>1, <1>2 DEF Alerts
<1>4. now.at = "ingesting" /\ now.left = ids /\ now.known = tracked /\ now.new = tracked
  BY DEF Quiet
<1>5. now \in AlertRun
  BY <1>2, QuietIs DEF AlertsInv, AlertRun
<1>6. \A i \in tracked : entered[i] > 0
  BY DEF AlertsInv
<1> HIDE DEF now
<1>7. unclear' \in BOOLEAN
  BY <1>3 DEF AlertsInv, IsInjective
<1>8. ASSUME ~unclear'
      PROVE  /\ ~unclear
             /\ \A q \in Syncer : q # r => pull[q].at = "idle"
             /\ OnlyRun(now, entered)
  <2>1. ~unclear /\ IsInjective(ids) /\ Undisturbed
    BY <1>3, <1>8 DEF AlertsInv
  <2>2. \A q \in Syncer : q # r => pull[q].at = "idle"
    BY <1>3, <2>1 DEF Undisturbed
  <2>3. \A i \in AlertIds : entered[i] > 0 => i \in tracked
    BY <1>3, <2>1, <2>2 DEF Undisturbed
  <2>4. \A j, k \in 1..Len(ids) : ids[j] = ids[k] => j = k
    BY <1>2, <2>1 DEF IsInjective
  <2> QED
    BY <1>4, <2>1, <2>2, <2>3, <2>4 DEF OnlyRun
<1> QED
  BY <1>3, <1>4, <1>5, <1>6, <1>7, <1>8, PullMoves

LEMMA IncidentStep ==
  ASSUME AlertsInv, NEW r \in Syncer,
         PassOver(r) \/ \E ok \in BOOLEAN : IngestIncident(r, ok)
  PROVE  AlertsInv'
<1> DEFINE b == pull[r]
           i == Head(b.left)
<1>1. /\ b.at = "ingesting" /\ b.left # <<>> /\ tracked' = tracked /\ unclear' = unclear
      /\ \/ /\ pull' = [pull EXCEPT ![r].left = Tail(@)] /\ entered' = entered
         \/ /\ i \notin b.known
            /\ pull' = [pull EXCEPT ![r].left = Tail(@), ![r].new = @ \union {i}]
            /\ entered' = [entered EXCEPT ![i] = @ + 1]
  BY DEF PassOver, IngestIncident, Passed
<1>2. b \in AlertRun /\ pull \in [Syncer -> AlertRun] /\ b.known \subseteq b.new
  BY DEF AlertsInv
<1>3. /\ b.left \in Seq(AlertIds) /\ b.new \subseteq AlertIds
  BY <1>2 DEF AlertRun
<1>4. /\ Tail(b.left) \in Seq(AlertIds) /\ Len(Tail(b.left)) = Len(b.left) - 1
      /\ Len(b.left) \in Nat /\ Len(b.left) >= 1 /\ i = b.left[1] /\ i \in AlertIds
      /\ \A k \in 1..Len(b.left) - 1 : Tail(b.left)[k] = b.left[k + 1]
  BY <1>1, <1>3, TailIs
<1>5. OnlyRun(b, entered) =>
        /\ \A j \in AlertIds : entered[j] > 0 => j \in b.new
        /\ \A k \in 1..Len(Tail(b.left)) :
             Tail(b.left)[k] \in b.new \union {i} => Tail(b.left)[k] \in b.known
        /\ \A j, k \in 1..Len(Tail(b.left)) : Tail(b.left)[j] = Tail(b.left)[k] => j = k
        /\ i \in b.new => i \in b.known
  <2> SUFFICES ASSUME OnlyRun(b, entered)
               PROVE  /\ \A j \in AlertIds : entered[j] > 0 => j \in b.new
                      /\ \A k \in 1..Len(Tail(b.left)) :
                           Tail(b.left)[k] \in b.new \union {i} => Tail(b.left)[k] \in b.known
                      /\ \A j, k \in 1..Len(Tail(b.left)) :
                           Tail(b.left)[j] = Tail(b.left)[k] => j = k
                      /\ i \in b.new => i \in b.known
    OBVIOUS
  <2>1. /\ \A j \in AlertIds : entered[j] > 0 => j \in b.new
        /\ \A k \in 1..Len(b.left) : b.left[k] \in b.new => b.left[k] \in b.known
        /\ \A j, k \in 1..Len(b.left) : b.left[j] = b.left[k] => j = k
    BY <1>1 DEF OnlyRun
  <2>2. ASSUME NEW k \in 1..Len(Tail(b.left))
        PROVE  /\ k + 1 \in 1..Len(b.left) /\ Tail(b.left)[k] = b.left[k + 1]
               /\ Tail(b.left)[k] # i
    <3>1. k + 1 \in 1..Len(b.left) /\ Tail(b.left)[k] = b.left[k + 1] /\ 1 \in 1..Len(b.left) /\ k + 1 # 1
      BY <1>4
    <3> QED
      BY <1>4, <2>1, <3>1
  <2>3. ASSUME NEW j \in 1..Len(Tail(b.left)), NEW k \in 1..Len(Tail(b.left)),
               Tail(b.left)[j] = Tail(b.left)[k]
        PROVE  j = k
    <3>1. j + 1 = k + 1
      BY <2>1, <2>2, <2>3
    <3> QED
      BY <1>4, <3>1
  <2>4. 1 \in 1..Len(b.left)
    BY <1>4
  <2> HIDE DEF b, i
  <2>5. i \in b.new => i \in b.known
    BY <1>4, <2>1, <2>4
  <2> QED
    BY <2>1, <2>2, <2>3, <2>5
<1>6. CASE pull' = [pull EXCEPT ![r].left = Tail(@)] /\ entered' = entered
  <2> DEFINE now == [b EXCEPT !.left = Tail(b.left)]
  <2>1. pull' = [pull EXCEPT ![r] = now]
    BY <1>2, <1>6
  <2>2. now \in AlertRun /\ now.at = b.at /\ now.left = Tail(b.left) /\ now.known = b.known /\ now.new = b.new
    BY <1>2, <1>4 DEF AlertRun
  <2>3. \A j \in b.new : entered[j] > 0
    BY DEF AlertsInv
  <2> HIDE DEF now, i
  <2>4. ASSUME ~unclear'
        PROVE  /\ ~unclear /\ OnlyRun(now, entered)
               /\ \A q \in Syncer : q # r => pull[q].at = "idle"
    <3>1. ~unclear /\ Undisturbed
      BY <1>1, <2>4 DEF AlertsInv
    <3>2. OnlyRun(b, entered)
      BY <3>1 DEF Undisturbed
    <3>3. OnlyRun(now, entered)
      BY <1>5, <2>2, <3>2 DEF OnlyRun
    <3>4. \A q \in Syncer : q # r => pull[q].at = "idle"
      BY <1>1, <3>1 DEF Undisturbed
    <3> QED
      BY <3>1, <3>3, <3>4
  <2>5. unclear' \in BOOLEAN
    BY <1>1 DEF AlertsInv
  <2>6. now.known \subseteq now.new /\ \A j \in now.new : entered[j] > 0
    BY <1>2, <2>2, <2>3
  <2>7. pull[r].at = "ingesting" /\ now.at = "ingesting"
    BY <1>1, <2>2
  <2>8. UNCHANGED <<tracked, entered>>
    BY <1>1, <1>6
  <2> QED
    BY <2>1, <2>2, <2>4, <2>5, <2>6, <2>7, <2>8, PullMoves
<1>7. CASE /\ i \notin b.known
           /\ pull' = [pull EXCEPT ![r].left = Tail(@), ![r].new = @ \union {i}]
           /\ entered' = [entered EXCEPT ![i] = @ + 1]
  <2> DEFINE now == [b EXCEPT !.left = Tail(b.left), !.new = b.new \union {i}]
  <2>1. pull' = [pull EXCEPT ![r] = now]
    BY <1>2, <1>7
  <2>2. /\ now.at = b.at /\ now.left = Tail(b.left) /\ now.known = b.known
        /\ now.new = b.new \union {i}
    BY <1>2 DEF AlertRun
  <2>3. now \in AlertRun
    BY <1>2, <1>4 DEF AlertRun
  <2> HIDE DEF now
  <2>4. pull'[r] = now /\ (\A q \in Syncer : q # r => pull'[q] = pull[q]) /\ pull' \in [Syncer -> AlertRun]
    BY <1>2, <2>1, <2>3
  <2>5. /\ entered \in [AlertIds -> Nat] /\ entered' \in [AlertIds -> Nat]
        /\ \A j \in AlertIds : entered[j] > 0 => entered'[j] > 0
        /\ entered'[i] = entered[i] + 1 /\ entered'[i] > 0
        /\ \A j \in AlertIds : j # i => entered'[j] = entered[j]
    <3> HIDE DEF i
    <3>1. entered \in [AlertIds -> Nat] /\ i \in AlertIds /\ entered' = [entered EXCEPT ![i] = entered[i] + 1]
      BY <1>4, <1>7 DEF AlertsInv
    <3> QED
      BY <3>1
  <2>6. \A q \in Syncer : /\ pull'[q].known \subseteq pull'[q].new
                          /\ \A j \in pull'[q].new : entered'[j] > 0
    <3>1. \A q \in Syncer : /\ pull[q].known \subseteq pull[q].new /\ pull[q].new \subseteq AlertIds
                            /\ \A j \in pull[q].new : entered[j] > 0
      BY DEF AlertsInv, AlertRun
    <3> HIDE DEF i
    <3> QED
      BY <2>2, <2>4, <2>5, <3>1
  <2>7. ASSUME ~unclear' PROVE Undisturbed'
    <3> HIDE DEF i
    <3>1. Undisturbed
      BY <1>1, <2>7 DEF AlertsInv
    <3>2. OnlyRun(b, entered) /\ \A q \in Syncer : q # r => pull[q].at = "idle"
      BY <1>1, <3>1 DEF Undisturbed
    <3>3. i \notin b.new
      BY <1>5, <1>7, <3>2
    <3>4. entered[i] = 0
      BY <1>4, <1>5, <2>5, <3>2, <3>3
    <3>5. \A j \in AlertIds : entered'[j] <= 1
      BY <2>5, <3>1, <3>4 DEF Undisturbed
    <3>6. \A j \in AlertIds : entered'[j] > 0 => j \in b.new \union {i}
      BY <1>5, <2>5, <3>2
    <3>7. OnlyRun(now, entered')
      BY <1>5, <2>2, <3>2, <3>6 DEF OnlyRun
    <3>8. \A q \in Syncer : q # r => OnlyRun(pull'[q], entered')
      BY <2>4, <3>2 DEF OnlyRun
    <3>9. now.at = "ingesting"
      BY <1>1, <2>2
    <3> HIDE DEF b
    <3> QED
      BY <2>4, <3>2, <3>5, <3>7, <3>8, <3>9 DEF Undisturbed
  <2>8. \A j \in tracked : entered'[j] > 0
    BY <2>5 DEF AlertsInv
  <2> QED
    BY <1>1, <2>4, <2>5, <2>6, <2>7, <2>8 DEF AlertsInv
<1> QED
  BY <1>1, <1>6, <1>7
LEMMA SignozAnswers ==
  ASSUME AlertsInv, NEW r \in Syncer, Ask(r) \/ NoAnswer(r) \/ NotAllowed(r)
  PROVE  AlertsInv'
<1>1. /\ pull[r] \in AlertRun /\ pull \in [Syncer -> AlertRun] /\ unclear \in BOOLEAN
      /\ pull[r].known \subseteq pull[r].new /\ \A i \in pull[r].new : entered[i] > 0
      /\ unclear \/ Undisturbed
  BY DEF AlertsInv
<1>2. UNCHANGED <<tracked, entered>>
  BY DEF Ask, NoAnswer, NotAllowed
<1>3. ASSUME ~unclear, pull[r].at # "idle"
      PROVE  \A q \in Syncer : q # r => pull[q].at = "idle"
  BY <1>1, <1>3 DEF Undisturbed
<1>4. CASE Ask(r)
  <2> DEFINE now == [Quiet EXCEPT !.at = "fetching", !.attempt = 1]
  <2>1. /\ pull' = [pull EXCEPT ![r] = now] /\ pull[r].at = "idle"
        /\ unclear' = (unclear \/ \E q \in Syncer : pull[q].at # "idle")
    BY <1>4 DEF Ask
  <2>2. now.at = "fetching" /\ now.known = {} /\ now.new = {}
    BY DEF Quiet
  <2>3. now \in AlertRun
    <3>1. PICK first \in 0..MaxRetries : first = 1
      BY DEF MaxRetries
    <3>2. now = [Quiet EXCEPT !.at = "fetching", !.attempt = first]
      BY <3>1
    <3> HIDE DEF now
    <3> QED
      BY <3>2, QuietIs DEF AlertRun
  <2>4. OnlyRun(now, entered)
    BY <2>2 DEF OnlyRun
  <2> HIDE DEF now
  <2>5. unclear' \in BOOLEAN
    BY <1>1, <2>1
  <2>6. ~unclear' => ~unclear /\ \A q \in Syncer : pull[q].at = "idle"
    BY <2>1
  <2> QED
    BY <1>2, <2>1, <2>2, <2>3, <2>4, <2>5, <2>6, PullMoves
<1>5. CASE NotAllowed(r) \/ (NoAnswer(r) /\ ~(pull[r].attempt < MaxRetries))
  <2>1. pull' = [pull EXCEPT ![r] = Quiet] /\ pull[r].at = "fetching" /\ unclear' = unclear
    BY <1>5 DEF NotAllowed, NoAnswer
  <2> QED
    BY <1>1, <1>2, <2>1, QuietIs, PullMoves
<1>6. CASE NoAnswer(r) /\ pull[r].attempt < MaxRetries
  <2> DEFINE now == [pull[r] EXCEPT !.attempt = pull[r].attempt + 1]
  <2>1. pull' = [pull EXCEPT ![r] = now] /\ pull[r].at = "fetching" /\ unclear' = unclear
    <3>1. pull' = [pull EXCEPT ![r] = IF pull[r].attempt < MaxRetries THEN now ELSE Quiet]
      BY <1>6 DEF NoAnswer, Again
    <3> QED
      BY <1>6, <3>1 DEF NoAnswer
  <2>2. now.at = "fetching" /\ now.known = pull[r].known /\ now.new = pull[r].new
    BY <1>1, <2>1 DEF AlertRun
  <2>3. now \in AlertRun
    <3>1. PICK n \in 0..MaxRetries : n = pull[r].attempt + 1
      BY <1>1, <1>6 DEF AlertRun, MaxRetries
    <3> QED
      BY <1>1, <3>1 DEF AlertRun
  <2>4. OnlyRun(now, entered)
    BY <2>2 DEF OnlyRun
  <2> HIDE DEF now
  <2>5. now.known \subseteq now.new /\ \A i \in now.new : entered[i] > 0
    BY <1>1, <2>2
  <2> QED
    BY <1>1, <1>2, <1>3, <2>1, <2>2, <2>3, <2>4, <2>5, PullMoves
<1> QED
  BY <1>4, <1>5, <1>6

LEMMA SaveStep ==
  ASSUME AlertsInv, NEW r \in Syncer, SaveTracked(r)
  PROVE  AlertsInv'
<1>1. /\ pull[r].at = "ingesting" /\ tracked' = pull[r].new /\ pull' = [pull EXCEPT ![r] = Quiet]
      /\ entered' = entered /\ unclear' = unclear
  BY DEF SaveTracked, Kept
<1>2. pull'[r] = Quiet /\ \A q \in Syncer : q # r => pull'[q] = pull[q]
  BY <1>1 DEF AlertsInv
<1>3. tracked' \subseteq AlertIds /\ \A i \in tracked' : entered[i] > 0
  BY <1>1 DEF AlertsInv, AlertRun
<1>4. pull' \in [Syncer -> AlertRun]
  BY <1>1, QuietIs DEF AlertsInv
<1>5. \A q \in Syncer : pull'[q].known \subseteq pull'[q].new /\ \A i \in pull'[q].new : entered[i] > 0
  BY <1>2, QuietIs DEF AlertsInv
<1>6. ASSUME ~unclear' PROVE Undisturbed'
  <2>1. Undisturbed
    BY <1>1, <1>6 DEF AlertsInv
  <2>2. \A i \in AlertIds : entered[i] > 0 => i \in tracked'
    BY <1>1, <2>1 DEF Undisturbed, OnlyRun
  <2>3. \A p, q \in Syncer : pull'[p].at # "idle" /\ pull'[q].at # "idle" => p = q
    BY <1>2, <2>1, QuietIs DEF Undisturbed
  <2>4. \A q \in Syncer : OnlyRun(pull'[q], entered)
    BY <1>2, <2>1, QuietIs DEF Undisturbed
  <2> QED
    BY <1>1, <2>1, <2>2, <2>3, <2>4 DEF Undisturbed
<1> QED
  BY <1>1, <1>3, <1>4, <1>5, <1>6 DEF AlertsInv

(* The other sync leaves this one alone, unless it ends in a crash.        *)
LEMMA AlertsRest ==
  ASSUME AlertsInv,
         \/ UNCHANGED signozVars
         \/ pull' = [q \in Syncer |-> Quiet] /\ unclear' = TRUE /\ UNCHANGED <<tracked, entered>>
  PROVE  AlertsInv'
<1>1. CASE UNCHANGED signozVars
  BY <1>1 DEF AlertsInv, Undisturbed, signozVars
<1>2. CASE pull' = [q \in Syncer |-> Quiet] /\ unclear' = TRUE /\ UNCHANGED <<tracked, entered>>
  <2>1. pull' \in [Syncer -> AlertRun] /\ \A q \in Syncer : pull'[q] = Quiet
    BY <1>2, QuietIs
  <2> QED
    BY <1>2, <2>1, QuietIs DEF AlertsInv
<1> QED
  BY <1>1, <1>2

SyncInv == PagesInv /\ AlertsInv

LEMMA SyncStep ==
  ASSUME SyncInv, [ConfluenceNext \/ SignozNext]_syncVars
  PROVE  /\ SyncInv'
         /\ \A p \in synced \ synced' : p \in archived'
         /\ crashes' = crashes => archived \subseteq archived'
<1>0. PagesInv /\ AlertsInv
  BY DEF SyncInv
<1>1. CASE ConfluenceNext \/ CrashSync
  <2>1. /\ PagesInv'
        /\ \A p \in synced \ synced' : p \in archived'
        /\ crashes' = crashes => archived \subseteq archived'
    BY <1>0, <1>1, PagesStep DEF ConfluenceNext
  <2>2. \/ UNCHANGED signozVars
        \/ pull' = [q \in Syncer |-> Quiet] /\ unclear' = TRUE /\ UNCHANGED <<tracked, entered>>
    BY <1>1 DEF ConfluenceNext, ConfluenceStep, CrashSync, Change, Fetch, Refused, Unanswered,
                Listed, IngestPage, Conclude, EndRun
  <2> QED
    BY <1>0, <2>1, <2>2, AlertsRest DEF SyncInv
<1>2. ASSUME NEW r \in Syncer, SignozStep(r)
      PROVE  AlertsInv' /\ UNCHANGED confluenceVars /\ crashes' = crashes
  <2>1. AlertsInv'
    BY <1>0, <1>2, SignozAnswers, SaveStep, AlertsStep, IncidentStep DEF SignozStep
  <2>2. UNCHANGED confluenceVars /\ crashes' = crashes
    BY <1>2 DEF SignozStep, Ask, NoAnswer, NotAllowed, PassOver, SaveTracked, Alerts, IngestIncident
  <2> QED
    BY <2>1, <2>2
<1>3. CASE UNCHANGED syncVars
  <2>1. UNCHANGED signozVars /\ UNCHANGED confluenceVars /\ crashes' = crashes
    BY <1>3 DEF syncVars
  <2>2. AlertsInv'
    BY <1>0, <2>1, AlertsRest
  <2> QED
    BY <1>0, <2>1, <2>2 DEF SyncInv, PagesInv, confluenceVars
<1>4. ASSUME UNCHANGED confluenceVars, crashes' = crashes
      PROVE  PagesInv' /\ synced' = synced /\ archived' = archived
  BY <1>0, <1>4 DEF PagesInv, confluenceVars
<1> QED
  BY <1>0, <1>1, <1>2, <1>3, <1>4 DEF SignozNext, SyncInv

LEMMA SyncInvSound ==
  ASSUME SyncInv
  PROVE  SyncTypeOK /\ ArchivedWasAbsent /\ TrackedWasEntered /\ EnteredOnce
<1>1. SyncTypeOK
  BY DEF SyncInv, PagesInv, AlertsInv, SyncTypeOK, PageRun, AlertRun, HonestRun
<1>2. ArchivedWasAbsent /\ TrackedWasEntered
  BY DEF SyncInv, PagesInv, AlertsInv, ArchivedWasAbsent, TrackedWasEntered
<1>3. EnteredOnce
  BY DEF SyncInv, AlertsInv, EnteredOnce, Undisturbed
<1> QED
  BY <1>1, <1>2, <1>3

(* For any pages, spaces, alerts, runs, overlaps and crashes: what a sync  *)
(* flags of its own space was absent, no id leaves the tracking file but   *)
(* into the sidecar, what is tracked was ingested, and only once unless    *)
(* runs were disturbed (confluence_sync.py, signoz_sync.py).               *)
THEOREM SyncSoundThm == SyncSpec => SyncSound
<1>1. SyncInit => SyncInv
  <2> SUFFICES ASSUME SyncInit PROVE SyncInv
    OBVIOUS
  <2>1. /\ upstream \subseteq SyncPage /\ absent = SyncPage \ upstream /\ synced = {} /\ archived = {} /\ ownFlagged = {}
        /\ sync = [r \in Syncer |-> Resting] /\ tracked = {} /\ pull = [r \in Syncer |-> Quiet]
        /\ entered = [i \in AlertIds |-> 0] /\ unclear = FALSE /\ crashes = 0
    BY DEF SyncInit, AlertIds
  <2>2. PagesInv
    BY <2>1, RestingIs DEF PagesInv
  <2>3. pull \in [Syncer -> AlertRun] /\ \A q \in Syncer : pull[q] = Quiet
    BY <2>1, QuietIs
  <2>4. Undisturbed
    BY <2>1, <2>3, QuietIs DEF Undisturbed
  <2>5. AlertsInv
    BY <2>1, <2>3, <2>4, QuietIs DEF AlertsInv
  <2> QED
    BY <2>2, <2>5 DEF SyncInv
<1>2. SyncInv /\ [ConfluenceNext \/ SignozNext]_syncVars =>
        /\ SyncInv'
        /\ [\A p \in synced \ synced' : p \in archived']_syncVars
        /\ [crashes' = crashes => archived \subseteq archived']_syncVars
  BY SyncStep
<1> QED
  BY <1>1, <1>2, SyncInvSound, PTL DEF SyncSpec, SyncSound, LeavesIntoArchive, ArchiveGrows
-----------------------------------------------------------------------------
(* The engine.  Every file and page is one the code can have written or    *)
(* read, and a merge has a page for its target.                            *)
Page == [type : Types, sources : SUBSET WSource, deps : BOOLEAN, scope : BOOLEAN, fresh : Freshness]
Vaults == [Dirs -> [Slug -> File \union {NoFile}]]
Calls == [at : {"idle", "deciding", "creating", "merging", "saved", "skipped", "failed"},
          source : SUBSET WSource, target : File \union {NoFile}, slug : Slug,
          type : Types \union {"none"}]
Overviews == [version : 0..MaxEdits, marker : BOOLEAN, blocks : 0..MaxBlocks, writing : BOOLEAN,
              kept : 0..MaxEdits, keptBlocks : 0..MaxBlocks]
Merges(b) == b.at = "merging" => b.target.type \in Types

WikiInv ==
  /\ vault \in Vaults /\ memory \in [Slug -> Page \union {NoFile}]
  /\ call \in [Ingest -> Calls] /\ \A c \in Ingest : Merges(call[c])
  /\ overview \in Overviews /\ (overview.writing => overview.keptBlocks < MaxBlocks)
  /\ edits \in 0..MaxEdits /\ losses \in Nat

LEMMA DirsAre == Dirs = {"entities", "concepts", "incidents", "runbooks", "entitys", "_archive"}
<1>1. DOMAIN Shelves = {1, 2, 3, 4}
  BY DEF Shelves
<1>2. Shelves[1] = "entities" /\ Shelves[2] = "concepts" /\ Shelves[3] = "incidents" /\ Shelves[4] = "runbooks"
  BY DEF Shelves
<1> QED
  BY <1>1, <1>2 DEF Dirs

LEMMA PagesAre ==
  /\ NoFile.type = "absent" /\ NoFile \notin File /\ Page \subseteq File
  /\ \A t \in Types, ss \in SUBSET WSource : Fresh(t, ss) \in Page /\ Fresh(t, ss).type = t
                                               /\ Fresh(t, ss).sources = ss
  /\ \A f \in File : [f EXCEPT !.fresh = "archived"] \in File
  /\ \A t \in Types : Home(t) \in Dirs
<1>1. NoFile.type = "absent" /\ NoFile \notin File
  BY DEF NoFile, File, Types
<1>2. Page \subseteq File
  BY DEF Page, File
<1>3. \A t \in Types, ss \in SUBSET WSource : Fresh(t, ss) \in Page /\ Fresh(t, ss).type = t
                                                /\ Fresh(t, ss).sources = ss
  BY DEF Fresh, Page, Freshness
<1>4. \A f \in File : [f EXCEPT !.fresh = "archived"] \in File
  BY DEF File, Freshness
<1>5. \A t \in Types : Home(t) \in Dirs
  BY DirsAre DEF Home, Types
<1> QED
  BY <1>1, <1>2, <1>3, <1>4, <1>5

LEMMA LoadedIs ==
  ASSUME vault \in Vaults
  PROVE  Loaded \in [Slug -> Page \union {NoFile}]
<1> SUFFICES ASSUME NEW s \in Slug PROVE Loaded[s] \in Page \union {NoFile}
  BY DEF Loaded
<1> DEFINE on == {i \in DOMAIN Shelves : Readable(Shelves[i], s)}
           last == CHOOSE i \in on : \A j \in on : j <= i
<1>1. DOMAIN Shelves = {1, 2, 3, 4} /\ \A i \in DOMAIN Shelves : Shelves[i] \in Dirs
  BY DEF Shelves, Dirs
<1>2. Loaded[s] = IF on = {} THEN NoFile ELSE Parsed(Shelves[last], vault[Shelves[last]][s])
  BY DEF Loaded
<1>3. ASSUME on # {} PROVE last \in on
  <2>1. on \subseteq {1, 2, 3, 4}
    BY <1>1
  <2> HIDE DEF on
  <2>2. \E i \in on : \A j \in on : j <= i
    <3>1. CASE 4 \in on
      BY <2>1, <3>1
    <3>2. CASE 4 \notin on /\ 3 \in on
      BY <2>1, <3>2
    <3>3. CASE 4 \notin on /\ 3 \notin on /\ 2 \in on
      BY <2>1, <3>3
    <3>4. CASE 4 \notin on /\ 3 \notin on /\ 2 \notin on
      <4>1. PICK i \in on : TRUE
        BY <1>3
      <4>2. \A j \in on : j = 1
        BY <2>1, <3>4
      <4> QED
        BY <4>1, <4>2
    <3> QED
      BY <3>1, <3>2, <3>3, <3>4
  <2> QED
    BY <2>2
<1>4. ASSUME on # {} PROVE Parsed(Shelves[last], vault[Shelves[last]][s]) \in Page
  <2>1. PICK d \in Dirs : d = Shelves[last] /\ Readable(d, s)
    BY <1>1, <1>3, <1>4
  <2>2. PICK f \in File : f = vault[d][s] /\ f.type \notin {"absent", "broken"}
    <3>1. vault[d][s] \in File \union {NoFile}
      BY DEF Vaults
    <3>2. vault[d][s].type \notin {"absent", "broken"}
      BY <2>1 DEF Readable
    <3>3. vault[d][s] # NoFile
      BY <3>2, PagesAre
    <3> QED
      BY <3>1, <3>2, <3>3
  <2>3. f.type \in Types \union {"none", "other"}
    BY <2>2 DEF File
  <2> DEFINE t == IF f.type = "none" THEN Inferred(d) ELSE IF f.type = "other" THEN "concept" ELSE f.type
  <2>4. t \in Types
    BY <2>3 DEF Inferred, Types
  <2>5. Parsed(d, f) = [f EXCEPT !.type = t]
    BY DEF Parsed
  <2> HIDE DEF t
  <2>6. [f EXCEPT !.type = t] \in Page
    BY <2>4 DEF File, Page
  <2> HIDE DEF last
  <2> QED
    BY <2>1, <2>2, <2>5, <2>6
<1> QED
  BY <1>2, <1>4

LEMMA MovedIs ==
  ASSUME vault \in Vaults, NEW from \in [Slug -> Dirs \ {"_archive"}],
         \A s \in Slug : Stem(s) # {} => from[s] \in Stem(s),
         NEW moved \in SUBSET Slug, NEW half \in SUBSET Slug,
         \A s \in moved \union half : Stem(s) # {}
  PROVE  /\ Moved(moved, half, from) \in Vaults
         /\ \A s \in Slug : Holds(vault, s) => Holds(Moved(moved, half, from), s)
<1> DEFINE v == Moved(moved, half, from)
           copy(s) == [vault[from[s]][s] EXCEPT !.fresh = "archived"]
<1>1. "_archive" \in Dirs
  BY DirsAre
<1>2. ASSUME NEW s \in moved \union half
      PROVE  copy(s) \in File
  <2>1. from[s] \in Dirs /\ vault[from[s]][s] # NoFile
    BY <1>2 DEF Stem
  <2>2. vault[from[s]][s] \in File
    BY <1>2, <2>1 DEF Vaults
  <2> QED
    BY <2>2, PagesAre
<1>3. /\ v = [d \in Dirs |-> [s \in Slug |-> v[d][s]]]
      /\ \A d \in Dirs : \A s \in Slug :
           v[d][s] = IF s \in moved /\ d = from[s] THEN NoFile
                     ELSE IF s \in moved \union half /\ d = "_archive" THEN copy(s)
                     ELSE vault[d][s]
  BY DEF Moved
<1> HIDE DEF v, copy
<1>4. v \in Vaults
  <2>1. ASSUME NEW d \in Dirs, NEW s \in Slug PROVE v[d][s] \in File \union {NoFile}
    BY <1>2, <1>3 DEF Vaults
  <2> QED
    BY <1>3, <2>1 DEF Vaults
<1>5. ASSUME NEW s \in Slug, Holds(vault, s) PROVE Holds(v, s)
  <2>1. PICK d \in Dirs : vault[d][s] # NoFile
    BY <1>5 DEF Holds
  <2>2. CASE s \in moved \union half
    <3>1. from[s] # "_archive"
      OBVIOUS
    <3>2. v["_archive"][s] = copy(s)
      BY <1>1, <1>3, <2>2, <3>1
    <3>3. v["_archive"][s] # NoFile
      BY <1>2, <2>2, <3>2, PagesAre
    <3> QED
      BY <1>1, <3>3 DEF Holds
  <2>3. CASE s \notin moved \union half
    BY <1>3, <2>1, <2>3 DEF Holds
  <2> QED
    BY <2>2, <2>3
<1> QED
  BY <1>4, <1>5 DEF v
(* What every step keeps besides the types: the action parts of the        *)
(* engine's property.                                                      *)
MergesKept ==
  \A c \in Ingest : (call[c].at = "merging" /\ call'[c].at = "saved") =>
    \E d \in Dirs, s \in Slug :
      /\ vault'[d][s].type # "absent" /\ vault'[d][s] = memory'[s]
      /\ call[c].target.sources \union call[c].source \subseteq vault'[d][s].sources
PagesStay == edits' = edits => \A s \in Slug : Holds(vault, s) => Holds(vault', s)
PreambleStays ==
  (overview.writing /\ ~overview'.writing /\ overview.marker /\ overview.kept = overview.version
     /\ losses' = losses) => overview'.version = overview.version
EngineKeeps == WikiInv' /\ MergesKept /\ PagesStay /\ PreambleStays

(* One call goes on without writing a page.                                *)
LEMMA CallMoves ==
  ASSUME WikiInv, NEW c \in Ingest, NEW next \in Calls, Merges(next), next.at # "saved",
         call' = [call EXCEPT ![c] = next],
         memory' \in [Slug -> Page \union {NoFile}],
         UNCHANGED <<vault, overview, edits, losses>>
  PROVE  EngineKeeps
<1>1. call'[c] = next /\ (\A d \in Ingest : d # c => call'[d] = call[d]) /\ call' \in [Ingest -> Calls]
  BY DEF WikiInv
<1>2. WikiInv'
  BY <1>1 DEF WikiInv
<1>3. MergesKept
  BY <1>1 DEF MergesKept
<1>4. PagesStay /\ PreambleStays
  BY DEF PagesStay, PreambleStays
<1> QED
  BY <1>2, <1>3, <1>4 DEF EngineKeeps

LEMMA AskingStep ==
  ASSUME WikiInv, NEW c \in Ingest,
         \/ \E s \in WSource : Begin(c, s)
         \/ Skip(c) \/ Garble(c) \/ Fail(c)
         \/ \E asked \in {{}} \union {{s} : s \in Slug}, t \in WrittenType : Create(c, asked, t)
         \/ \E s \in Slug : Target(c, s)
  PROVE  EngineKeeps
<1>0. /\ call \in [Ingest -> Calls] /\ call[c] \in Calls /\ Merges(call[c]) /\ vault \in Vaults
      /\ memory \in [Slug -> Page \union {NoFile}]
      /\ WrittenType \subseteq Types /\ Overview \in Slug
  BY WikiAssumption DEF WikiInv
<1>1. ASSUME NEW s \in WSource, Begin(c, s) PROVE EngineKeeps
  <2> DEFINE next == [Idle EXCEPT !.at = "deciding", !.source = {s}]
  <2>1. /\ call' = [call EXCEPT ![c] = next] /\ memory' = Loaded
        /\ UNCHANGED <<vault, overview, edits, losses>>
    BY <1>1 DEF Begin
  <2>2. next.at = "deciding"
    BY DEF Idle
  <2>3. next \in Calls
    <3>1. PICK ss \in SUBSET WSource : ss = {s}
      OBVIOUS
    <3>2. Idle \in Calls
      BY <1>0 DEF Idle, Calls
    <3>3. next = [Idle EXCEPT !.at = "deciding", !.source = ss]
      BY <3>1
    <3> HIDE DEF next
    <3> QED
      BY <3>2, <3>3 DEF Calls
  <2>4. memory' \in [Slug -> Page \union {NoFile}]
    BY <1>0, <2>1, LoadedIs
  <2> HIDE DEF next
  <2> QED
    BY <2>1, <2>2, <2>3, <2>4, CallMoves DEF Merges
<1>2. ASSUME NEW at \in {"skipped", "failed"},
             call' = [call EXCEPT ![c] = [call[c] EXCEPT !.at = at]],
             UNCHANGED <<vault, memory, overview, edits, losses>>
      PROVE  EngineKeeps
  <2> DEFINE next == [call[c] EXCEPT !.at = at]
  <2>1. next \in Calls /\ next.at = at
    BY <1>0, <1>2 DEF Calls
  <2> HIDE DEF next
  <2>2. call' = [call EXCEPT ![c] = next]
    BY <1>2 DEF next
  <2> QED
    BY <1>0, <1>2, <2>1, <2>2, CallMoves DEF Merges
<1>3. CASE Skip(c) \/ Garble(c)
  BY <1>2, <1>3 DEF Skip, Garble, Answered
<1>4. CASE Fail(c)
  <2>1. call' = [call EXCEPT ![c] = [call[c] EXCEPT !.at = "failed"]]
    BY <1>0, <1>4 DEF Fail
  <2> QED
    BY <1>2, <1>4, <2>1 DEF Fail
<1>5. ASSUME NEW asked, NEW t \in WrittenType, Create(c, asked, t) PROVE EngineKeeps
  <2> DEFINE next == [[call[c] EXCEPT !.at = "creating"] EXCEPT !.type = t]
  <2>1. call' = [call EXCEPT ![c] = next] /\ UNCHANGED <<vault, memory, overview, edits, losses>>
    BY <1>5 DEF Create, Answered
  <2>2. next \in Calls /\ next.at = "creating"
    BY <1>0 DEF Calls
  <2> HIDE DEF next
  <2> QED
    BY <1>0, <2>1, <2>2, CallMoves DEF Merges
<1>6. ASSUME NEW s \in Slug, Target(c, s) PROVE EngineKeeps
  <2> DEFINE next == [[call[c] EXCEPT !.at = "merging"] EXCEPT !.target = memory[s], !.slug = s]
  <2>1. /\ call' = [call EXCEPT ![c] = next] /\ memory[s] # NoFile
        /\ UNCHANGED <<vault, memory, overview, edits, losses>>
    BY <1>6 DEF Target, Answered
  <2>2. memory[s] \in Page /\ memory[s] \in File
    BY <1>0, <2>1, PagesAre
  <2>3. next \in Calls /\ next.at = "merging" /\ next.target = memory[s]
    BY <1>0, <2>2 DEF Calls
  <2> HIDE DEF next
  <2>4. Merges(next)
    BY <2>2, <2>3 DEF Merges, Page
  <2> QED
    BY <1>0, <2>1, <2>3, <2>4, CallMoves
<1> QED
  BY <1>1, <1>3, <1>4, <1>5, <1>6

(* A page is written; a merge's names what it was given.                   *)
LEMMA SaveKeeps ==
  ASSUME WikiInv, NEW c \in Ingest, NEW slug \in Slug, NEW t \in Types, NEW ss \in SUBSET WSource,
         Save(c, slug, Fresh(t, ss)),
         call[c].at = "merging" => call[c].target.sources \union call[c].source \subseteq ss
  PROVE  EngineKeeps
<1> DEFINE page == Fresh(t, ss)
           home == Home(t)
           next == [call[c] EXCEPT !.at = "saved"]
<1>1. page \in Page /\ page \in File /\ page.type = t /\ page.sources = ss /\ home \in Dirs /\ page # NoFile
  BY PagesAre
<1>2. /\ vault' = [vault EXCEPT ![home][slug] = page] /\ memory' = [memory EXCEPT ![slug] = page]
      /\ call' = [call EXCEPT ![c] = next] /\ UNCHANGED <<overview, edits, losses>>
  BY <1>1 DEF Save, Answered
<1> HIDE DEF page, home
<1>3. /\ vault \in Vaults /\ memory \in [Slug -> Page \union {NoFile}] /\ call \in [Ingest -> Calls]
      /\ \A d \in Ingest : Merges(call[d])
  BY DEF WikiInv
<1>4. /\ vault' \in Vaults /\ vault'[home][slug] = page
      /\ \A d \in Dirs : \A s \in Slug : vault'[d][s] = page \/ vault'[d][s] = vault[d][s]
  <2>1. vault' = [vault EXCEPT ![home] = [vault[home] EXCEPT ![slug] = page]]
    BY <1>2
  <2>2. [vault[home] EXCEPT ![slug] = page] \in [Slug -> File \union {NoFile}]
    BY <1>1, <1>3 DEF Vaults
  <2>3. vault' \in Vaults
    BY <1>3, <2>1, <2>2 DEF Vaults
  <2>4. \A d \in Dirs : vault'[d] = IF d = home THEN [vault[home] EXCEPT ![slug] = page] ELSE vault[d]
    BY <1>3, <2>1 DEF Vaults
  <2>5. \A s \in Slug : [vault[home] EXCEPT ![slug] = page][s] = IF s = slug THEN page ELSE vault[home][s]
    BY <1>1, <1>3 DEF Vaults
  <2> QED
    BY <1>1, <2>3, <2>4, <2>5
<1>5. memory' \in [Slug -> Page \union {NoFile}] /\ memory'[slug] = page
  BY <1>1, <1>2, <1>3
<1>6. next \in Calls /\ next.at = "saved"
  BY <1>3 DEF Calls
<1> HIDE DEF next
<1>7. call'[c] = next /\ (\A d \in Ingest : d # c => call'[d] = call[d]) /\ call' \in [Ingest -> Calls]
  BY <1>2, <1>3, <1>6
<1>8. WikiInv'
  BY <1>2, <1>3, <1>4, <1>5, <1>6, <1>7 DEF WikiInv, Merges
<1>9. MergesKept
  <2>1. ASSUME call[c].at = "merging"
        PROVE  /\ vault'[home][slug].type # "absent" /\ vault'[home][slug] = memory'[slug]
               /\ call[c].target.sources \union call[c].source \subseteq vault'[home][slug].sources
    BY <1>1, <1>4, <1>5, <2>1 DEF Types
  <2> QED
    BY <1>1, <1>7, <2>1 DEF MergesKept
<1>10. PagesStay
  BY <1>1, <1>4 DEF PagesStay, Holds
<1>11. PreambleStays
  BY <1>2 DEF PreambleStays
<1> QED
  BY <1>8, <1>9, <1>10, <1>11 DEF EngineKeeps

LEMMA SavingStep ==
  ASSUME WikiInv, NEW c \in Ingest, NEW s \in Slug, NEW t \in WrittenType,
         (\E g \in {{}, call[c].source} : SaveNew(c, s, t, g)) \/ SaveMerged(c, s, t, {})
  PROVE  EngineKeeps
<1>1. t \in Types /\ call[c] \in Calls /\ Merges(call[c])
  BY WikiAssumption DEF WikiInv
<1>2. CASE \E g \in {{}, call[c].source} : SaveNew(c, s, t, g)
  <2>1. PICK g \in {{}, call[c].source} : SaveNew(c, s, t, g)
    BY <1>2
  <2>2. g \in SUBSET WSource /\ call[c].at = "creating" /\ Save(c, s, Fresh(t, g))
    BY <1>1, <2>1 DEF SaveNew, Calls
  <2> QED
    BY <1>1, <2>2, SaveKeeps
<1>3. CASE SaveMerged(c, s, t, {})
  <2>1. call[c].at = "merging" /\ Save(c, s, Fresh(t, MergedSources(c, {})))
    BY <1>3 DEF SaveMerged
  <2>2. call[c].target \in File /\ call[c].source \subseteq WSource
    BY <1>1, <2>1, PagesAre DEF Calls, Merges, Types
  <2>3. MergedSources(c, {}) \in SUBSET WSource
        /\ call[c].target.sources \union call[c].source \subseteq MergedSources(c, {})
    BY <2>2 DEF MergedSources, File
  <2> QED
    BY <1>1, <2>1, <2>3, SaveKeeps
<1> QED
  BY <1>2, <1>3
LEMMA OverviewStep ==
  ASSUME WikiInv, ReadOverview \/ WriteOverview \/ DropOverview
  PROVE  EngineKeeps
<1>0. /\ overview \in Overviews /\ vault \in Vaults /\ memory \in [Slug -> Page \union {NoFile}]
      /\ call \in [Ingest -> Calls]
  BY DEF WikiInv
<1>1. vault' = vault /\ call' = call /\ edits' = edits /\ losses' = losses
  BY DEF ReadOverview, WriteOverview, DropOverview
<1>2. MergesKept /\ PagesStay
  BY <1>1 DEF MergesKept, PagesStay
<1>3. ASSUME overview' \in Overviews, memory' \in [Slug -> Page \union {NoFile}],
             overview'.writing => overview'.keptBlocks < MaxBlocks
      PROVE  WikiInv'
  BY <1>1, <1>3 DEF WikiInv
<1>4. CASE ReadOverview
  <2> DEFINE kept == IF overview.marker THEN overview.version ELSE 0
             blocks == IF overview.marker THEN overview.blocks ELSE 0
  <2>1. /\ ~overview.writing /\ overview.blocks < MaxBlocks /\ memory' = Loaded
        /\ overview' = [overview EXCEPT !.writing = TRUE, !.kept = kept, !.keptBlocks = blocks]
    BY <1>4 DEF ReadOverview
  <2>2. kept \in 0..MaxEdits /\ blocks \in 0..MaxBlocks /\ blocks < MaxBlocks
    BY <1>0, <2>1, WikiAssumption DEF Overviews
  <2> HIDE DEF kept, blocks
  <2>3. overview' \in Overviews /\ overview'.keptBlocks = blocks
    BY <1>0, <2>1, <2>2 DEF Overviews
  <2>4. memory' \in [Slug -> Page \union {NoFile}]
    BY <1>0, <2>1, LoadedIs
  <2> QED
    BY <1>2, <1>3, <2>1, <2>2, <2>3, <2>4 DEF EngineKeeps, PreambleStays
<1>5. CASE WriteOverview
  <2>1. /\ overview' = [overview EXCEPT !.writing = FALSE, !.marker = TRUE, !.version = overview.kept,
                          !.blocks = overview.keptBlocks + 1]
        /\ overview.writing
        /\ memory' = [memory EXCEPT ![Overview] = Fresh("concept", {})]
    BY <1>5 DEF WriteOverview
  <2>2. /\ overview' \in Overviews /\ overview'.version = overview.kept /\ ~overview'.writing
    <3>1. overview.keptBlocks + 1 \in 0..MaxBlocks
      BY <1>0, <2>1, WikiAssumption DEF Overviews, WikiInv
    <3> QED
      BY <1>0, <2>1, <3>1 DEF Overviews
  <2>3. Fresh("concept", {}) \in Page
    BY PagesAre DEF Types
  <2>4. memory' \in [Slug -> Page \union {NoFile}]
    BY <1>0, <2>1, <2>3
  <2> QED
    BY <1>2, <1>3, <2>2, <2>4 DEF EngineKeeps, PreambleStays
<1>6. CASE DropOverview
  <2>1. overview' = [overview EXCEPT !.writing = FALSE] /\ memory' = memory
    BY <1>6 DEF DropOverview
  <2>2. overview' \in Overviews /\ overview'.version = overview.version /\ ~overview'.writing
    BY <1>0, <2>1 DEF Overviews
  <2> QED
    BY <1>0, <1>2, <1>3, <2>1, <2>2 DEF EngineKeeps, PreambleStays
<1> QED
  BY <1>4, <1>5, <1>6

(* A crash, between two steps or in the middle of an archive run.          *)
LEMMA RestartKeeps ==
  ASSUME WikiInv, Restart, vault' \in Vaults, edits' = edits,
         \A s \in Slug : Holds(vault, s) => Holds(vault', s)
  PROVE  EngineKeeps
<1>1. /\ memory' = [s \in Slug |-> NoFile] /\ overview' = [overview EXCEPT !.writing = FALSE]
      /\ losses' = losses + 1 /\ losses \in Nat /\ overview \in Overviews
      /\ call' = [c \in Ingest |-> IF call[c].at \in {"deciding", "creating", "merging"}
                                   THEN [call[c] EXCEPT !.at = "failed"] ELSE call[c]]
  BY DEF Restart, WikiInv
<1>2. \A c \in Ingest : /\ call'[c] \in Calls /\ Merges(call'[c])
                        /\ ~(call[c].at = "merging" /\ call'[c].at = "saved")
  <2> SUFFICES ASSUME NEW c \in Ingest
               PROVE  /\ call'[c] \in Calls /\ Merges(call'[c])
                      /\ ~(call[c].at = "merging" /\ call'[c].at = "saved")
    OBVIOUS
  <2>1. call[c] \in Calls /\ Merges(call[c])
    BY DEF WikiInv
  <2>2. CASE call[c].at \in {"deciding", "creating", "merging"}
    <3>1. call'[c] = [call[c] EXCEPT !.at = "failed"]
      BY <1>1, <2>2
    <3>2. call'[c] \in Calls /\ call'[c].at = "failed"
      BY <2>1, <3>1 DEF Calls
    <3> QED
      BY <3>2 DEF Merges
  <2>3. CASE call[c].at \notin {"deciding", "creating", "merging"}
    BY <1>1, <2>1, <2>3
  <2> QED
    BY <2>2, <2>3
<1>3. call' \in [Ingest -> Calls]
  BY <1>1, <1>2
<1>4. overview' \in Overviews
  BY <1>1 DEF Overviews
<1>8. ~overview'.writing
  BY <1>1 DEF Overviews
<1>5. WikiInv'
  BY <1>1, <1>2, <1>3, <1>4, <1>8 DEF WikiInv
<1>6. MergesKept /\ PagesStay
  BY <1>2 DEF MergesKept, PagesStay
<1>7. PreambleStays
  BY <1>1 DEF PreambleStays
<1> QED
  BY <1>5, <1>6, <1>7 DEF EngineKeeps

LEMMA ArchiveStep ==
  ASSUME WikiInv, NEW report \in SUBSET Slug, AutoArchive(report)
  PROVE  EngineKeeps
<1> DEFINE found == {s \in report : Stem(s) # {}}
<1>1. PICK from \in [Slug -> Dirs \ {"_archive"}] :
        /\ \A s \in Slug : Stem(s) # {} => from[s] \in Stem(s)
        /\ \/ /\ vault' = Moved(found, {}, from)
              /\ UNCHANGED <<memory, call, overview, losses>>
           \/ /\ Restart
              /\ \E half \in found : vault' = Moved(found \ {half}, {half}, from)
  BY DEF AutoArchive
<1>2. edits' = edits /\ vault \in Vaults
  BY DEF AutoArchive, WikiInv
<1>3. found \in SUBSET Slug /\ \A s \in found : Stem(s) # {}
  OBVIOUS
<1> HIDE DEF found
<1>4. CASE vault' = Moved(found, {}, from) /\ UNCHANGED <<memory, call, overview, losses>>
  <2>1. vault' \in Vaults /\ \A s \in Slug : Holds(vault, s) => Holds(vault', s)
    BY <1>1, <1>2, <1>3, <1>4, MovedIs
  <2>2. WikiInv'
    BY <1>2, <1>4, <2>1 DEF WikiInv
  <2>3. MergesKept /\ PagesStay /\ PreambleStays
    BY <1>4, <2>1 DEF MergesKept, PagesStay, PreambleStays
  <2> QED
    BY <2>2, <2>3 DEF EngineKeeps
<1>5. ASSUME Restart, NEW half \in found, vault' = Moved(found \ {half}, {half}, from)
      PROVE  EngineKeeps
  <2> DEFINE rest == found \ {half}
             one == {half}
  <2>1. rest \in SUBSET Slug /\ one \in SUBSET Slug /\ \A s \in rest \union one : Stem(s) # {}
    BY <1>3, <1>5
  <2>2. vault' = Moved(rest, one, from)
    BY <1>5
  <2> HIDE DEF rest, one
  <2>3. vault' \in Vaults /\ \A s \in Slug : Holds(vault, s) => Holds(vault', s)
    BY <1>1, <1>2, <2>1, <2>2, MovedIs
  <2> QED
    BY <1>2, <1>5, <2>3, RestartKeeps
<1> QED
  BY <1>1, <1>4, <1>5

LEMMA EditStep ==
  ASSUME WikiInv,
         \/ \E d \in {"entities", "incidents"}, s \in Slug, f \in HumanFile : Edit(d, s, f)
         \/ \E m, clean \in BOOLEAN : EditOverview(m, clean)
  PROVE  EngineKeeps
<1>0. /\ overview \in Overviews /\ vault \in Vaults /\ edits \in 0..MaxEdits /\ MaxEdits \in Nat
      /\ HumanFile \subseteq File \union {NoFile}
  BY WikiAssumption DEF WikiInv
<1>1. edits < MaxEdits /\ edits' = edits + 1 /\ memory' = memory /\ call' = call /\ losses' = losses
  BY DEF Edit, EditOverview
<1>2. edits' \in 0..MaxEdits /\ edits' # edits /\ edits + 1 \in 0..MaxEdits
  BY <1>0, <1>1
<1>3. MergesKept /\ PagesStay
  BY <1>1, <1>2 DEF MergesKept, PagesStay
<1>4. ASSUME vault' \in Vaults, overview' \in Overviews,
             overview'.writing = overview.writing, overview'.keptBlocks = overview.keptBlocks
      PROVE  WikiInv'
  BY <1>1, <1>2, <1>4 DEF WikiInv
<1>5. ASSUME NEW d \in {"entities", "incidents"}, NEW s \in Slug, NEW f \in HumanFile, Edit(d, s, f)
      PROVE  EngineKeeps
  <2>1. vault' = [vault EXCEPT ![d][s] = f] /\ overview' = overview /\ d \in Dirs
    BY <1>5, DirsAre DEF Edit
  <2>2. vault' = [vault EXCEPT ![d] = [vault[d] EXCEPT ![s] = f]]
    BY <2>1
  <2>3. [vault[d] EXCEPT ![s] = f] \in [Slug -> File \union {NoFile}]
    BY <1>0, <2>1 DEF Vaults
  <2>4. vault' \in Vaults
    BY <1>0, <2>2, <2>3 DEF Vaults
  <2> QED
    BY <1>0, <1>3, <1>4, <2>1, <2>4 DEF EngineKeeps, PreambleStays
<1>6. ASSUME NEW m \in BOOLEAN, NEW clean \in BOOLEAN, EditOverview(m, clean) PROVE EngineKeeps
  <2>1. /\ overview' = [overview EXCEPT !.version = edits + 1, !.marker = m,
                          !.blocks = IF clean THEN 0 ELSE overview.blocks]
        /\ vault' = vault
    BY <1>6 DEF EditOverview
  <2>2. /\ overview' \in Overviews /\ overview'.writing = overview.writing
        /\ overview'.keptBlocks = overview.keptBlocks
    <3>1. (IF clean THEN 0 ELSE overview.blocks) \in 0..MaxBlocks
      BY <1>0, WikiAssumption DEF Overviews
    <3> QED
      BY <1>0, <1>2, <2>1, <3>1 DEF Overviews
  <2> QED
    BY <1>0, <1>3, <1>4, <2>1, <2>2 DEF EngineKeeps, PreambleStays
<1> QED
  BY <1>5, <1>6

LEMMA WikiStep ==
  ASSUME WikiInv, [WikiNext]_wikiVars
  PROVE  EngineKeeps
<1>1. ASSUME NEW c \in Ingest, Answer(c) \/ \E s \in WSource : Begin(c, s)
      PROVE  EngineKeeps
  BY <1>1, AskingStep, SavingStep DEF Answer
<1>2. CASE Lose
  <2>1. Restart /\ vault' = vault /\ edits' = edits /\ vault \in Vaults
    BY <1>2 DEF Lose, WikiInv
  <2> QED
    BY <2>1, RestartKeeps
<1>3. CASE UNCHANGED wikiVars
  BY <1>3 DEF wikiVars, WikiInv, EngineKeeps, MergesKept, PagesStay, PreambleStays
<1>4. ASSUME NEW report \in SUBSET Slug \ {{}}, AutoArchive(report) PROVE EngineKeeps
  BY <1>4, ArchiveStep
<1> QED
  BY <1>1, <1>2, <1>3, <1>4, OverviewStep, EditStep DEF WikiNext

LEMMA WikiTyped == WikiInv => WikiTypeOK
<1> SUFFICES ASSUME WikiInv PROVE WikiTypeOK
  OBVIOUS
<1>1. \A s \in Slug : memory[s] \in File \union {NoFile} /\ memory[s].type \in Types \union {"absent"}
  BY PagesAre DEF WikiInv, Page
<1>2. memory \in [Slug -> File \union {NoFile}]
  BY <1>1 DEF WikiInv
<1>3. \A c \in Ingest :
        /\ call[c].at \in {"idle", "deciding", "creating", "merging", "saved", "skipped", "failed"}
        /\ call[c].at = "merging" => call[c].target.type \in Types
  BY DEF WikiInv, Calls, Merges
<1>4. /\ overview.version \in 0..MaxEdits /\ overview.kept \in 0..MaxEdits
      /\ overview.blocks \in 0..MaxBlocks /\ overview.keptBlocks \in 0..MaxBlocks
  BY DEF WikiInv, Overviews
<1> QED
  BY <1>1, <1>2, <1>3, <1>4 DEF WikiTypeOK, WikiInv, Vaults

(* For any pages, sources, calls, editors, archive runs and crashes: a     *)
(* merge keeps the sources it was given, no page vanishes but by a human   *)
(* hand, and the text a person wrote above the overview's marker is put    *)
(* back, below one more frontmatter (engine.py, synthesizer.py,            *)
(* staleness.py).                                                          *)
THEOREM WikiSoundThm == WikiSpec => WikiSound
<1>1. WikiInit => WikiInv
  <2> SUFFICES ASSUME WikiInit PROVE WikiInv
    OBVIOUS
  <2>1. /\ vault = [d \in Dirs |-> [s \in Slug |-> NoFile]] /\ memory = [s \in Slug |-> NoFile]
        /\ call = [c \in Ingest |-> Idle] /\ edits = 0 /\ losses = 0
        /\ overview = [version |-> 0, marker |-> FALSE, blocks |-> 0, writing |-> FALSE, kept |-> 0, keptBlocks |-> 0]
        /\ MaxEdits \in Nat /\ MaxBlocks \in Nat
    BY WikiAssumption DEF WikiInit
  <2>2. Idle \in Calls /\ Merges(Idle)
    BY WikiAssumption DEF Idle, Calls, Merges
  <2>3. overview \in Overviews
    BY <2>1 DEF Overviews
  <2>4. vault \in Vaults
    BY <2>1 DEF Vaults
  <2> QED
    BY <2>1, <2>2, <2>3, <2>4 DEF WikiInv
<1>2. WikiInv /\ [WikiNext]_wikiVars =>
        WikiInv' /\ [MergesKept]_wikiVars /\ [PagesStay]_wikiVars /\ [PreambleStays]_wikiVars
  BY WikiStep DEF EngineKeeps
<1> QED
  BY <1>1, <1>2, WikiTyped, PTL
  DEF WikiSpec, WikiSound, MergeKeeps, NothingVanishes, PreambleKept,
      MergesKept, PagesStay, PreambleStays

-----------------------------------------------------------------------------
(* What the wiki computes over its pages.                                  *)
LEMMA ListedPages ==
  ASSUME NEW pages \in LintInputs
  PROVE  /\ Len(pages) \in Nat /\ \A k \in 1..Len(pages) : pages[k] \in LintPage
  BY LintAssumption

LEMMA ScoreIsInt ==
  ASSUME NEW p \in LintPage
  PROVE  Relevance(p) \in Int /\ TopicScore(p) \in Int /\ (TopicScore(p) > 0 <=> p.hits # {})
<1>1. /\ p.title_words \subseteq Keyword /\ p.slug_words \subseteq Keyword /\ p.tag_words \subseteq Keyword
      /\ p.hits \subseteq {"title", "slug", "body"}
  BY DEF LintPage
<1>2. /\ Cardinality(p.title_words) \in Nat /\ Cardinality(p.slug_words) \in Nat
      /\ Cardinality(p.tag_words) \in Nat
  BY <1>1, LintAssumption, FS_Subset, FS_CardinalityType
<1>3. Relevance(p) \in Int
  BY <1>2 DEF Relevance
<1>4. TopicScore(p) \in Int /\ (TopicScore(p) > 0 <=> p.hits # {})
  BY <1>1 DEF TopicScore
<1> QED
  BY <1>3, <1>4

(* A ranking that is cut has the best, in order.                           *)
LEMMA BestFirst ==
  ASSUME NEW n \in Nat, NEW of \in SUBSET (1..n), NEW score \in [1..n -> Int],
         NEW r \in Rankings(of, score)
  PROVE  /\ DOMAIN Cut(r) = 1..Limited(Cardinality(of)) /\ Range(Cut(r)) \subseteq of
         /\ \A i \in Range(Cut(r)), j \in of \ Range(Cut(r)) : Sooner(score, i, j)
         /\ \A k, l \in DOMAIN Cut(r) : k < l => score[Cut(r)[k]] >= score[Cut(r)[l]]
<1>1. Cardinality(of) \in Nat
  <2>1. IsFiniteSet(1..n)
    BY FS_Interval
  <2> QED
    BY <2>1, FS_Subset, FS_CardinalityType
<1>2. /\ r \in [1..Cardinality(of) -> of] /\ DOMAIN r = 1..Cardinality(of)
      /\ \A k, l \in DOMAIN r : k < l => Sooner(score, r[k], r[l])
      /\ \A j \in of : \E k \in DOMAIN r : r[k] = j
  BY DEF Rankings
<1>3. /\ DOMAIN Cut(r) = {k \in DOMAIN r : k <= TopCount}
      /\ \A k \in DOMAIN Cut(r) : Cut(r)[k] = r[k]
  BY DEF Cut
<1>4. DOMAIN Cut(r) = 1..Limited(Cardinality(of))
  BY <1>1, <1>2, <1>3, LintAssumption DEF Limited
<1>5. Range(Cut(r)) = {r[k] : k \in DOMAIN Cut(r)}
  BY <1>3 DEF Range
<1>6. ASSUME NEW i \in Range(Cut(r)), NEW j \in of \ Range(Cut(r))
      PROVE  Sooner(score, i, j)
  <2>1. PICK k \in DOMAIN Cut(r) : i = r[k]
    BY <1>5
  <2>2. PICK l \in DOMAIN r : j = r[l]
    BY <1>2
  <2>3. l \notin DOMAIN Cut(r)
    BY <1>5, <2>2
  <2>4. k \in DOMAIN r /\ k < l
    BY <1>1, <1>2, <1>3, <2>1, <2>2, <2>3, LintAssumption
  <2> QED
    BY <1>2, <2>1, <2>2, <2>4
<1>7. ASSUME NEW k \in DOMAIN Cut(r), NEW l \in DOMAIN Cut(r), k < l
      PROVE  score[Cut(r)[k]] >= score[Cut(r)[l]]
  <2>1. Sooner(score, r[k], r[l]) /\ r[k] \in 1..n /\ r[l] \in 1..n
    BY <1>2, <1>3, <1>7
  <2> QED
    BY <1>3, <2>1 DEF Sooner
<1> QED
  BY <1>2, <1>3, <1>4, <1>5, <1>6, <1>7

(* The invariant: a report is one of the pages as they are.                *)
LintInv ==
  /\ lintPages \in LintInputs
  /\ lintReport = NoReport
       \/ \E top \in Top(lintPages), snippets \in Snippets(lintPages) :
            lintReport = [labels |-> Labels(lintPages), orphans |-> Orphans(lintPages),
                          asked |-> AskedPairs(lintPages), top |-> top, snippets |-> snippets]

Names(i, j) == {lintPages[i].slug, lintPages[j].slug}

LEMMA LintRight == LintInv => LintExact
<1>0. ~Reported => LintExact
  <2> SUFFICES ASSUME ~Reported PROVE LintExact
    OBVIOUS
  <2>1. AgeOnlyWorsens /\ OrphansStandAlone
    BY Zenon DEF AgeOnlyWorsens, OrphansStandAlone
  <2>2. RelatedAreAsked
    BY SMT DEF RelatedAreAsked
  <2>3. TopIsBest
    BY Zenon DEF TopIsBest
  <2>4. SnippetsAreBest
    BY Zenon DEF SnippetsAreBest
  <2> QED
    BY <2>1, <2>2, <2>3, <2>4 DEF LintExact
<1> SUFFICES ASSUME LintInv, Reported PROVE LintExact
  BY <1>0
<1>1. PICK top \in Top(lintPages), snippets \in Snippets(lintPages) :
        lintReport = [labels |-> Labels(lintPages), orphans |-> Orphans(lintPages),
                      asked |-> AskedPairs(lintPages), top |-> top, snippets |-> snippets]
  BY DEF LintInv, Reported
<1>2. /\ lintReport.labels = Labels(lintPages) /\ lintReport.orphans = Orphans(lintPages)
      /\ lintReport.asked = AskedPairs(lintPages) /\ lintReport.top = top /\ lintReport.snippets = snippets
  BY <1>1
<1>3. Len(lintPages) \in Nat /\ \A k \in Positions : lintPages[k] \in LintPage
  BY ListedPages DEF LintInv, Positions
<1>4. AgeOnlyWorsens
  <2> SUFFICES ASSUME NEW i \in Positions, NEW j \in Positions,
                      RuleFor(lintPages[i]) = RuleFor(lintPages[j]), ~lintPages[i].flagged,
                      Undated < lintPages[i].age, lintPages[i].age <= lintPages[j].age
               PROVE  Rank(lintReport.labels[i]) <= Rank(lintReport.labels[j])
    BY DEF AgeOnlyWorsens
  <2>1. lintReport.labels[i] = Label(lintPages[i]) /\ lintReport.labels[j] = Label(lintPages[j])
    BY <1>2 DEF Labels, Positions
  <2>2. lintPages[i].age \in Int /\ lintPages[j].age \in Int
    BY <1>3 DEF LintPage, Undated
  <2>3. RuleFor(lintPages[j])[1] \in Int /\ RuleFor(lintPages[j])[2] \in Int
    <3>1. /\ Rule.confluence = <<90, 180>> /\ Rule.github_docs = <<60, 180>> /\ Rule.runbook = <<120, 365>>
          /\ Rule.incident = <<365, 730>> /\ Rule.manual = <<30, 180>>
          /\ DOMAIN Rule = {"confluence", "github_docs", "runbook", "incident", "manual"}
      BY DEF Rule
    <3>2. \A key \in DOMAIN Rule : Rule[key][1] \in Int /\ Rule[key][2] \in Int
      BY <3>1
    <3>3. \E key \in DOMAIN Rule : RuleFor(lintPages[j]) = Rule[key]
      <4> DEFINE k == IF lintPages[j].source # "" THEN lintPages[j].source ELSE lintPages[j].type
      <4>1. RuleFor(lintPages[j]) = IF k \in DOMAIN Rule THEN Rule[k] ELSE Rule["manual"]
        BY DEF RuleFor
      <4>2. "manual" \in DOMAIN Rule
        BY <3>1
      <4> HIDE DEF k
      <4> QED
        BY <4>1, <4>2
    <3> QED
      BY <3>2, <3>3
  <2> DEFINE s == RuleFor(lintPages[j])[1]
             a == RuleFor(lintPages[j])[2]
  <2>4. /\ lintReport.labels[i] = IF lintPages[i].age >= a THEN "archived"
                                  ELSE IF lintPages[i].age >= s THEN "stale" ELSE "current"
        /\ lintReport.labels[j] = IF lintPages[j].flagged \/ lintPages[j].age >= a THEN "archived"
                                  ELSE IF lintPages[j].age >= s THEN "stale" ELSE "current"
    BY <2>1, <2>2 DEF Label, Undated
  <2> HIDE DEF s, a
  <2> QED
    BY <2>2, <2>3, <2>4 DEF Rank, s, a
<1>5. OrphansStandAlone
  <2> SUFFICES ASSUME NEW i \in Positions
               PROVE  /\ i \in lintReport.orphans =>
                           \A j \in Positions \ {i} : ~LinksTo(lintPages[j], lintPages[i])
                      /\ (lintPages[i].slug \notin Exempt /\ \A j \in Positions : ~LinksTo(lintPages[j], lintPages[i]))
                           => i \in lintReport.orphans
    BY DEF OrphansStandAlone
  <2>1. i \in lintReport.orphans <=>
          /\ {lintPages[i].slug, lintPages[i].title} \intersect LinkedNames(lintPages) = {}
          /\ lintPages[i].slug \notin Exempt
    BY <1>2 DEF Orphans, Positions
  <2>2. \A x : x \in LinkedNames(lintPages) <=> \E j \in Positions : x \in lintPages[j].links
    BY DEF LinkedNames, Positions
  <2> QED
    BY <2>1, <2>2 DEF LinksTo
<1>6. RelatedAreAsked
  <2> DEFINE Shared(i, j) == Topics(lintPages[i]) \intersect Topics(lintPages[j]) # {}
             Related == {q \in {Names(i, j) : i, j \in Positions} :
                           Cardinality(q) = 2 /\ \E i, j \in Positions : q = Names(i, j) /\ Shared(i, j)}
  <2>1. \A q : q \in DOMAIN lintReport.asked <=>
          (\E key \in AllTopics(lintPages) : q \in UniquePairs(lintPages, key)) /\ Cardinality(q) = 2
    BY <1>2 DEF AskedPairs
  <2>2. \A key, q : q \in UniquePairs(lintPages, key) <=>
          \E i, j \in Positions : key \in Topics(lintPages[i]) /\ key \in Topics(lintPages[j]) /\ q = Names(i, j)
    BY DEF UniquePairs, Cluster, Positions, Names
  <2>3. \A key : key \in AllTopics(lintPages) <=> \E i \in Positions : key \in Topics(lintPages[i])
    BY DEF AllTopics, Positions
  <2>4. \A q : q \in Related <=>
          Cardinality(q) = 2 /\ \E i, j \in Positions : q = Names(i, j) /\ Shared(i, j)
    BY SMTT(20)
  <2>5. \A q : q \in DOMAIN lintReport.asked <=> q \in Related
    <3> HIDE DEF Related
    <3>1. ASSUME NEW q, q \in DOMAIN lintReport.asked PROVE q \in Related
      <4>1. PICK key : q \in UniquePairs(lintPages, key) /\ Cardinality(q) = 2
        BY <2>1, <3>1
      <4>2. PICK i \in Positions, j \in Positions :
              key \in Topics(lintPages[i]) /\ key \in Topics(lintPages[j]) /\ q = Names(i, j)
        BY <2>2, <4>1
      <4> QED
        BY <2>4, <4>1, <4>2
    <3>2. ASSUME NEW q, q \in Related PROVE q \in DOMAIN lintReport.asked
      <4>1. PICK i \in Positions, j \in Positions : q = Names(i, j) /\ Shared(i, j)
        BY <2>4, <3>2
      <4>2. PICK key : key \in Topics(lintPages[i]) /\ key \in Topics(lintPages[j])
        BY <4>1
      <4>3. key \in AllTopics(lintPages) /\ q \in UniquePairs(lintPages, key)
        BY <2>2, <2>3, <4>1, <4>2
      <4>4. Cardinality(q) = 2
        BY <2>4, <3>2
      <4> QED
        BY <2>1, <4>3, <4>4
    <3> QED
      BY <3>1, <3>2
  <2>6. DOMAIN lintReport.asked = Related
    <3> HIDE DEF Related
    <3> QED
      BY <2>5
  <2> QED
    BY <2>6 DEF RelatedAreAsked, Names
<1>7. TopIsBest
  <2> DEFINE score == Scores(lintPages)
  <2>1. PICK r \in Rankings(Positions, score) : top = Cut(r)
    BY DEF Top, Positions
  <2>2. /\ score \in [Positions -> Int] /\ Positions \in SUBSET (1..Len(lintPages))
        /\ \A i \in Positions : score[i] = Relevance(lintPages[i])
    BY <1>3, ScoreIsInt DEF Scores, Positions
  <2>3. Cardinality(Positions) = Len(lintPages)
    BY SMTT(20), <1>3, FS_Interval DEF Positions
  <2> HIDE DEF score
  <2>4. /\ DOMAIN top = 1..Limited(Len(lintPages)) /\ Range(top) \subseteq Positions
        /\ \A i \in Range(top), j \in Positions \ Range(top) : Sooner(score, i, j)
        /\ \A k, l \in DOMAIN top : k < l => score[top[k]] >= score[top[l]]
    BY <1>3, <2>1, <2>2, <2>3, BestFirst DEF Positions
  <2>5. \A k \in DOMAIN top : top[k] \in Positions
    BY <2>4 DEF Range
  <2> QED
    BY ZenonT(30), <1>2, <2>2, <2>4, <2>5 DEF TopIsBest, Sooner
<1>8. SnippetsAreBest
  <2> DEFINE score == TopicScores(lintPages)
             hit == Hitting(lintPages)
  <2>1. PICK r \in Rankings(hit, score) : snippets = Cut(r)
    BY DEF Snippets
  <2>2. /\ score \in [Positions -> Int] /\ hit \in SUBSET Positions
        /\ \A i \in Positions : score[i] = TopicScore(lintPages[i])
    BY <1>3, ScoreIsInt DEF TopicScores, Positions, Hitting
  <2>3. hit = {i \in Positions : lintPages[i].hits # {}}
    BY <1>3, ScoreIsInt DEF Hitting, Positions
  <2>4. \A j \in Positions \ hit : score[j] <= 0
    BY <1>3, <2>2, ScoreIsInt DEF Hitting, Positions
  <2>5. \A i \in hit : score[i] > 0
    BY <1>3, <2>2, ScoreIsInt DEF Hitting, Positions
  <2> HIDE DEF score, hit
  <2>6. /\ DOMAIN snippets = 1..Limited(Cardinality(hit)) /\ Range(snippets) \subseteq hit
        /\ \A i \in Range(snippets), j \in hit \ Range(snippets) : Sooner(score, i, j)
    BY <1>3, <2>1, <2>2, BestFirst DEF Positions
  <2>7. ASSUME NEW i \in Range(snippets), NEW j \in Positions \ Range(snippets)
        PROVE  TopicScore(lintPages[j]) <= TopicScore(lintPages[i])
    <3>1. i \in hit /\ i \in Positions /\ score[i] \in Int /\ score[j] \in Int
      BY <2>2, <2>6
    <3>2. score[j] <= score[i]
      BY <2>4, <2>5, <2>6, <3>1 DEF Sooner
    <3> QED
      BY <2>2, <3>1, <3>2
  <2> QED
    BY <1>2, <2>3, <2>6, <2>7 DEF SnippetsAreBest
<1> QED
  BY <1>4, <1>5, <1>6, <1>7, <1>8 DEF LintExact

(* staleness.py, contradiction.py, routers/wiki.py and the control tower's *)
(* WikiAdapter: labels, orphans, pairs and answers are what they should    *)
(* be, for any pages.                                                      *)
THEOREM LintExactThm == LintSpec => []LintExact
<1>1. LintInit => LintInv
  BY DEF LintInit, LintInv
<1>2. LintInv /\ [Lint]_lintVars => LintInv'
  BY DEF LintInv, Lint, lintVars
<1> QED
  BY <1>1, <1>2, LintRight, PTL DEF LintSpec
=============================================================================
