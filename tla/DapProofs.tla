----------------------------- MODULE DapProofs -----------------------------
(***************************************************************************)
(* Proofs about the debug adapter, for conversations of any length with    *)
(* any client: every request is answered once and in order, every stop is  *)
(* announced, and a pause is neither lost at the end of the run nor stuck  *)
(* behind it.                                                              *)
(***************************************************************************)
EXTENDS DapAdapter, TLAPS

Before == {"initialize", "launch", "configuring", "draining", "starting"}
Stops == {"serving", "loop", "evaluating", "marked"}
Ends == {"epilogue", "clearing", "settling", "terminated", "over"}

Busy == reader \in {"sawRunning", "flagged"}

Message == [id : Nat, cmd : Requests, late : BOOLEAN]

Types ==
    /\ {running, flag, detached, noDebug, stopOnEntry, async, live, told} \subseteq BOOLEAN
    /\ asked \in Seq(Requests) /\ Len(asked) <= MaxSeq
    /\ inbox \in Seq(Message)
    /\ replies \in [1..MaxSeq -> Nat]
    /\ {pauseSeq, now, pending} \subseteq 0..Len(asked)
    /\ reader \in {"framing", "sawRunning", "flagged", "gone"}

\* The main thread follows the debuggee: it serves while that is parked.
Together ==
    \/ at \in Before /\ phase = "starting"
    \/ at = "running" /\ phase \in {"starting", "free"}
    \/ at \in Stops /\ phase = "parked"
    \/ at \in Ends \ {"over"} /\ phase = "over"
    \/ at = "over" /\ phase \in {"starting", "over"}

\* What is being served: a resume between its two halves, an evaluation until
\* the stop is served again or for ever when it ended the run.
Served ==
    /\ now # Nobody <=> at = "marked"
    /\ now # Nobody => asked[now] \in Resumes
    /\ pending # Nobody => asked[pending] = "evaluate"
    /\ at \in Before \cup {"loop", "marked"} => pending = Nobody
    /\ at = "evaluating" => pending # Nobody

\* The pause the reader holds is the last request; one that was noted is not
\* queued.
Pauses ==
    /\ Busy => /\ asked # << >> /\ asked[Len(asked)] = "pause"
               /\ pauseSeq < Len(asked) /\ pending < Len(asked)
    /\ pauseSeq # Nobody => asked[pauseSeq] = "pause"
    /\ \A k \in DOMAIN inbox : inbox[k].id # pauseSeq

\* The channel holds requests in the order they were sent, after those that
\* are being served.
Queued ==
    /\ \A k \in DOMAIN inbox :
          /\ inbox[k].id \in 1..Len(asked) /\ inbox[k].cmd = asked[inbox[k].id]
          /\ Busy => inbox[k].id < Len(asked)
          /\ now < inbox[k].id /\ pending < inbox[k].id
    /\ \A k, l \in DOMAIN inbox : k < l => inbox[k].id < inbox[l].id

IsWaiting(i) ==
    \/ now = i \/ pending = i \/ pauseSeq = i
    \/ i = Len(asked) /\ Busy
    \/ \E k \in DOMAIN inbox : inbox[k].id = i

\* A request is answered once it has stopped waiting.
Counted ==
    /\ \A i \in DOMAIN asked :
          /\ replies[i] \in {0, 1}
          /\ IsWaiting(i) => replies[i] = 0
          /\ ~IsWaiting(i) => replies[i] = 1 \/ Superseded(i)
    /\ \A i \in 1..MaxSeq : i > Len(asked) => replies[i] = 0

\* The answered requests other than pause come before those that wait.
Ordered ==
    \A j \in DOMAIN asked : replies[j] > 0 /\ asked[j] # "pause" =>
        /\ now # Nobody => j < now
        /\ \A k \in DOMAIN inbox : j < inbox[k].id

\* The lock of session_flag: nobody notes a pause once the flag is taken away.
Locked ==
    /\ reader = "flagged" => flag
    /\ at \in Before \cup {"settling", "terminated"} => ~flag
    /\ at \in Before \cup {"terminated"} => pauseSeq = Nobody

\* The client is told of a run only while the reader knows of it.
Known ==
    /\ view = "running" => at \notin Before
    /\ at \notin Ends /\ view = "running" => running
    /\ at = "marked" => running
    /\ at \notin Ends => \A k \in DOMAIN inbox : inbox[k].late => inbox[k].cmd # "pause"

\* Where the threads are, and where the requests are.
Control == Together /\ Served /\ Locked /\ Known
Accounts == Pauses /\ Queued /\ Counted /\ Ordered

DapInv == Types /\ Control /\ Accounts

\* An evaluation that ends the run leaves no stop to be served again.
Announced ==
    /\ at \in {"loop", "evaluating", "marked"} => told
    /\ at = "serving" /\ pending # Nobody => told
    /\ at = "running" /\ pending # Nobody => ~live

-----------------------------------------------------------------------------
(* The channel. *)

\* Taking the first message.
LEMMA TailFacts ==
    ASSUME NEW S, NEW s \in Seq(S), s # << >>
    PROVE  /\ 1 \in DOMAIN s /\ Head(s) = s[1] /\ Head(s) \in S
           /\ Tail(s) \in Seq(S)
           /\ \A k \in DOMAIN Tail(s) : k + 1 \in DOMAIN s /\ Tail(s)[k] = s[k + 1]
           /\ \A k \in DOMAIN s : k # 1 => k - 1 \in DOMAIN Tail(s) /\ Tail(s)[k - 1] = s[k]
           /\ DOMAIN s \subseteq Nat /\ DOMAIN Tail(s) \subseteq Nat
           /\ \A k \in DOMAIN s : 1 <= k
<1>1. Len(s) \in Nat /\ Len(s) # 0 /\ DOMAIN s = 1..Len(s)
  OBVIOUS
<1>2. Tail(s) \in Seq(S) /\ Len(Tail(s)) = Len(s) - 1
  OBVIOUS
<1>3. \A k \in 1..(Len(s) - 1) : Tail(s)[k] = s[k + 1]
  OBVIOUS
<1>4. DOMAIN Tail(s) = 1..(Len(s) - 1)
  BY <1>2
<1> QED
  BY <1>1, <1>2, <1>3, <1>4

\* Adding a message at the end.
LEMMA AppendFacts ==
    ASSUME NEW S, NEW s \in Seq(S), NEW e \in S
    PROVE  /\ Append(s, e) \in Seq(S) /\ Len(Append(s, e)) = Len(s) + 1
           /\ Len(s) \in Nat /\ DOMAIN s = 1..Len(s)
           /\ DOMAIN Append(s, e) = 1..(Len(s) + 1)
           /\ \A k \in DOMAIN s : Append(s, e)[k] = s[k]
           /\ Append(s, e)[Len(s) + 1] = e
OBVIOUS

-----------------------------------------------------------------------------
(* What the steps do to the accounts. *)

\* Nothing is framed, taken or answered.
LEMMA SameAccounts ==
    ASSUME DapInv, UNCHANGED <<asked, inbox, replies, now, pending, pauseSeq>>, Busy' = Busy
    PROVE  Accounts'
<1>1. Pauses' /\ Queued'
  BY DEF DapInv, Accounts, Pauses, Queued
<1>2. Counted' /\ Ordered'
  BY DEF DapInv, Accounts, Counted, Ordered, IsWaiting, Superseded
<1> QED
  BY <1>1, <1>2 DEF Accounts

LEMMA TypeFacts ==
    ASSUME DapInv
    PROVE  /\ inbox \in Seq(Message) /\ asked \in Seq(Requests)
           /\ Len(asked) <= MaxSeq /\ Len(asked) \in Nat /\ DOMAIN asked = 1..Len(asked)
           /\ {now, pending, pauseSeq} \subseteq Nat /\ MaxSeq \in Nat
           /\ replies \in [1..MaxSeq -> Nat]
<1>1. asked \in Seq(Requests)
  BY DEF DapInv, Types
<1>2. Len(asked) \in Nat /\ DOMAIN asked = 1..Len(asked)
  BY <1>1
<1>3. {pauseSeq, now, pending} \subseteq 0..Len(asked)
  BY DEF DapInv, Types
<1>4. {now, pending, pauseSeq} \subseteq Nat
  BY <1>2, <1>3
<1> QED
  BY <1>1, <1>2, <1>4, DapAssumption DEF DapInv, Types

\* The first request of the channel waits nowhere else.
LEMMA HeadAlone ==
    ASSUME DapInv, inbox # << >>
    PROVE  LET i == Head(inbox).id
           IN  /\ i \in 1..Len(asked) /\ i \in 1..MaxSeq /\ i \in DOMAIN asked
               /\ now < i /\ pending < i /\ pauseSeq # i /\ (Busy => i < Len(asked))
               /\ \A k \in DOMAIN Tail(inbox) : i < Tail(inbox)[k].id
               /\ replies[i] = 0 /\ Head(inbox).cmd = asked[i]
               /\ Head(inbox) \in Message /\ Tail(inbox) \in Seq(Message)
               /\ {now, pending, pauseSeq} \subseteq Nat
<1>1. /\ inbox \in Seq(Message) /\ asked \in Seq(Requests) /\ Len(asked) <= MaxSeq /\ Len(asked) \in Nat
      /\ {now, pending, pauseSeq} \subseteq Nat /\ MaxSeq \in Nat /\ DOMAIN asked = 1..Len(asked)
  BY TypeFacts
<1>2. /\ 1 \in DOMAIN inbox /\ Head(inbox) = inbox[1] /\ Head(inbox) \in Message
      /\ Tail(inbox) \in Seq(Message)
      /\ \A k \in DOMAIN Tail(inbox) : k + 1 \in DOMAIN inbox /\ Tail(inbox)[k] = inbox[k + 1]
      /\ DOMAIN inbox \subseteq Nat /\ DOMAIN Tail(inbox) \subseteq Nat
      /\ \A k \in DOMAIN inbox : 1 <= k
  BY <1>1, TailFacts
<1>3. /\ inbox[1].id \in 1..Len(asked) /\ inbox[1].cmd = asked[inbox[1].id]
      /\ now < inbox[1].id /\ pending < inbox[1].id /\ inbox[1].id # pauseSeq
      /\ Busy => inbox[1].id < Len(asked)
  BY <1>2 DEF DapInv, Accounts, Queued, Pauses
<1>4. \A k \in DOMAIN Tail(inbox) : inbox[1].id < Tail(inbox)[k].id
  <2>1. SUFFICES ASSUME NEW k \in DOMAIN Tail(inbox) PROVE inbox[1].id < inbox[k + 1].id
    BY <1>2
  <2>2. k + 1 \in DOMAIN inbox /\ k \in Nat /\ 1 <= k + 1 /\ k # 0
    BY <1>1, <1>2
  <2> QED
    BY <1>2, <2>2 DEF DapInv, Accounts, Queued
<1>5. inbox[1].id \in DOMAIN asked /\ inbox[1].id \in 1..MaxSeq
  BY <1>1, <1>3
<1>6. replies[inbox[1].id] = 0
  BY <1>2, <1>5 DEF DapInv, Accounts, Counted, IsWaiting
<1> QED
  BY <1>1, <1>2, <1>3, <1>4, <1>5, <1>6

\* The other requests of the channel.
LEMMA TailQueued ==
    ASSUME DapInv, inbox # << >>
    PROVE  /\ \A k \in DOMAIN Tail(inbox) :
                  \E l \in DOMAIN inbox : l # 1 /\ Tail(inbox)[k] = inbox[l]
           /\ \A k \in DOMAIN inbox :
                  inbox[k].id # Head(inbox).id => \E l \in DOMAIN Tail(inbox) : Tail(inbox)[l] = inbox[k]
           /\ \A k, l \in DOMAIN Tail(inbox) : k < l => Tail(inbox)[k].id < Tail(inbox)[l].id
<1>1. inbox \in Seq(Message)
  BY DEF DapInv, Types
<1>2. /\ 1 \in DOMAIN inbox /\ Head(inbox) = inbox[1]
      /\ \A k \in DOMAIN Tail(inbox) : k + 1 \in DOMAIN inbox /\ Tail(inbox)[k] = inbox[k + 1]
      /\ \A k \in DOMAIN inbox : k # 1 => k - 1 \in DOMAIN Tail(inbox) /\ Tail(inbox)[k - 1] = inbox[k]
      /\ DOMAIN Tail(inbox) \subseteq Nat /\ \A k \in DOMAIN inbox : 1 <= k
  BY <1>1, TailFacts
<1>3. ASSUME NEW k \in DOMAIN Tail(inbox) PROVE \E l \in DOMAIN inbox : l # 1 /\ Tail(inbox)[k] = inbox[l]
  <2>1. k \in Nat /\ k + 1 \in DOMAIN inbox
    BY <1>2
  <2>2. k # 0
    BY <1>1
  <2> QED
    BY <1>2, <2>1, <2>2
<1>4. ASSUME NEW k \in DOMAIN Tail(inbox), NEW l \in DOMAIN Tail(inbox), k < l
      PROVE  Tail(inbox)[k].id < Tail(inbox)[l].id
  <2>1. k + 1 < l + 1
    BY <1>2, <1>4
  <2> QED
    BY <1>2, <2>1 DEF DapInv, Accounts, Queued
<1> QED
  BY <1>2, <1>3, <1>4

\* The first request is taken and answered.
LEMMA HeadAnswered ==
    ASSUME DapInv, inbox # << >>, inbox' = Tail(inbox), Reply(Head(inbox).id), now = Nobody,
           UNCHANGED <<asked, now, pending, pauseSeq, reader>>
    PROVE  Accounts' /\ replies' \in [1..MaxSeq -> Nat]
<1>0. PICK i : i = Head(inbox).id
  OBVIOUS
<1>1. /\ i \in 1..Len(asked) /\ i \in 1..MaxSeq /\ i \in DOMAIN asked
      /\ now < i /\ pending < i /\ pauseSeq # i /\ (Busy => i < Len(asked))
      /\ \A k \in DOMAIN Tail(inbox) : i < Tail(inbox)[k].id
      /\ replies[i] = 0
  BY <1>0, HeadAlone
<1>2. /\ Len(asked) <= MaxSeq /\ Len(asked) \in Nat /\ DOMAIN asked = 1..Len(asked)
      /\ {now, pending, pauseSeq} \subseteq Nat /\ MaxSeq \in Nat /\ replies \in [1..MaxSeq -> Nat]
  BY TypeFacts
<1>3. /\ replies' \in [1..MaxSeq -> Nat] /\ replies'[i] = 1
      /\ \A j \in 1..MaxSeq : j # i => replies'[j] = replies[j]
  BY <1>0, <1>1, <1>2 DEF Reply
<1>4. /\ \A k \in DOMAIN inbox' : \E l \in DOMAIN inbox : inbox'[k] = inbox[l]
      /\ \A k \in DOMAIN inbox :
             inbox[k].id # i => \E l \in DOMAIN inbox' : inbox'[l] = inbox[k]
      /\ \A k, l \in DOMAIN inbox' : k < l => inbox'[k].id < inbox'[l].id
  BY <1>0, TailQueued
<1>5. Busy' = Busy
  BY DEF Busy
<1>6. Pauses'
  BY <1>4, <1>5 DEF DapInv, Accounts, Pauses
<1>7. Queued'
  BY <1>4, <1>5 DEF DapInv, Accounts, Queued
<1>8. \A j \in DOMAIN asked : j # i => (IsWaiting(j)' <=> IsWaiting(j))
  BY <1>4, <1>5 DEF IsWaiting
<1>9. ~IsWaiting(i)'
  BY <1>1, <1>2, <1>5 DEF IsWaiting
<1>10. Counted'
  <2>1. ASSUME NEW j \in DOMAIN asked
        PROVE  /\ replies'[j] \in {0, 1}
               /\ IsWaiting(j)' => replies'[j] = 0
               /\ ~IsWaiting(j)' => replies'[j] = 1 \/ Superseded(j)'
    <3>1. j \in 1..MaxSeq
      BY <1>2
    <3>2. CASE j = i
      BY <1>3, <1>9, <3>2
    <3>3. CASE j # i
      BY <1>3, <1>8, <3>1, <3>3 DEF DapInv, Accounts, Counted, Superseded
    <3> QED
      BY <3>2, <3>3
  <2>2. \A j \in 1..MaxSeq : j > Len(asked') => replies'[j] = 0
    BY <1>1, <1>2, <1>3 DEF DapInv, Accounts, Counted
  <2> QED
    BY <2>1, <2>2 DEF Counted
<1>11. Ordered'
  <2>1. ASSUME NEW j \in DOMAIN asked, replies'[j] > 0, asked[j] # "pause", NEW k \in DOMAIN inbox'
        PROVE  j < inbox'[k].id
    <3>1. CASE j = i
      BY <1>1, <3>1
    <3>2. CASE j # i
      <4>1. replies[j] > 0
        BY <1>2, <1>3, <2>1, <3>2
      <4> QED
        BY <1>4, <2>1, <4>1 DEF DapInv, Accounts, Ordered
    <3> QED
      BY <3>1, <3>2
  <2>2. now' = Nobody
    OBVIOUS
  <2> QED
    BY <2>1, <2>2 DEF Ordered
<1> QED
  BY <1>3, <1>6, <1>7, <1>10, <1>11 DEF Accounts

\* The first request is taken and kept: a resume or an evaluation.
LEMMA HeadKept ==
    ASSUME DapInv, inbox # << >>, inbox' = Tail(inbox), now = Nobody, pending = Nobody,
           \/ now' = Head(inbox).id /\ pending' = pending
           \/ pending' = Head(inbox).id /\ now' = now,
           UNCHANGED <<asked, replies, pauseSeq, reader>>
    PROVE  Accounts' /\ {now', pending'} \subseteq 0..Len(asked)
<1>0. PICK i : i = Head(inbox).id
  OBVIOUS
<1>1. /\ i \in 1..Len(asked) /\ i \in 1..MaxSeq /\ i \in DOMAIN asked
      /\ now < i /\ pending < i /\ pauseSeq # i /\ (Busy => i < Len(asked))
      /\ \A k \in DOMAIN Tail(inbox) : i < Tail(inbox)[k].id
      /\ replies[i] = 0
  BY <1>0, HeadAlone
<1>2. /\ Len(asked) <= MaxSeq /\ Len(asked) \in Nat /\ DOMAIN asked = 1..Len(asked)
      /\ {now, pending, pauseSeq} \subseteq Nat /\ MaxSeq \in Nat
  BY TypeFacts
<1>3. \/ now' = i /\ pending' = Nobody
      \/ pending' = i /\ now' = Nobody
  BY <1>0
<1>4. /\ \A k \in DOMAIN inbox' : \E l \in DOMAIN inbox : inbox'[k] = inbox[l]
      /\ \A k \in DOMAIN inbox :
             inbox[k].id # i => \E l \in DOMAIN inbox' : inbox'[l] = inbox[k]
      /\ \A k, l \in DOMAIN inbox' : k < l => inbox'[k].id < inbox'[l].id
  BY <1>0, TailQueued
<1>5. Busy' = Busy
  BY DEF Busy
<1>6. Pauses'
  BY <1>1, <1>3, <1>4, <1>5 DEF DapInv, Accounts, Pauses, Nobody
<1>7. Queued'
  <2>1. ASSUME NEW k \in DOMAIN inbox'
        PROVE  /\ inbox'[k].id \in 1..Len(asked) /\ inbox'[k].cmd = asked[inbox'[k].id]
               /\ Busy => inbox'[k].id < Len(asked)
               /\ now' < inbox'[k].id /\ pending' < inbox'[k].id
    <3>1. /\ inbox'[k].id \in 1..Len(asked) /\ inbox'[k].cmd = asked[inbox'[k].id]
          /\ Busy => inbox'[k].id < Len(asked)
      BY <1>4 DEF DapInv, Accounts, Queued
    <3>2. i < inbox'[k].id
      BY <1>1
    <3> QED
      BY <1>2, <1>3, <3>1, <3>2 DEF Nobody
  <2> QED
    BY <1>4, <1>5, <2>1 DEF Queued
<1>8. \A j \in DOMAIN asked : IsWaiting(j)' <=> IsWaiting(j)
  <2>1. ASSUME NEW j \in DOMAIN asked PROVE IsWaiting(j)' <=> IsWaiting(j)
    <3>1. j # Nobody
      BY <1>2 DEF Nobody
    <3>2. CASE j = i
      <4>1. IsWaiting(j)'
        BY <1>3, <3>2 DEF IsWaiting
      <4>2. inbox \in Seq(Message)
        BY TypeFacts
      <4>3. 1 \in DOMAIN inbox /\ inbox[1].id = i
        BY <1>0, <4>2, TailFacts
      <4> QED
        BY <3>2, <4>1, <4>3 DEF IsWaiting
    <3>3. CASE j # i
      BY <1>3, <1>4, <1>5, <3>1, <3>3 DEF IsWaiting
    <3> QED
      BY <3>2, <3>3
  <2> QED
    BY <2>1
<1>9. Counted'
  BY <1>8 DEF DapInv, Accounts, Counted, Superseded
<1>10. Ordered'
  <2>1. ASSUME NEW j \in DOMAIN asked, replies[j] > 0, asked[j] # "pause"
        PROVE  j < i /\ \A k \in DOMAIN inbox' : j < inbox'[k].id
    <3>1. inbox \in Seq(Message)
      BY TypeFacts
    <3>2. 1 \in DOMAIN inbox /\ inbox[1].id = i
      BY <1>0, <3>1, TailFacts
    <3> QED
      BY <1>4, <2>1, <3>2 DEF DapInv, Accounts, Ordered
  <2> QED
    BY <1>3, <2>1 DEF Ordered
<1>11. {now', pending'} \subseteq 0..Len(asked)
  BY <1>1, <1>2, <1>3 DEF Nobody
<1> QED
  BY <1>6, <1>7, <1>9, <1>10, <1>11 DEF Accounts

\* A request that was owed its reply gets it: a resume, an evaluation, a pause.
LEMMA OwedAnswered ==
    ASSUME DapInv, NEW i, i # Nobody, Reply(i), UNCHANGED <<asked, inbox, reader>>,
           \/ i = now /\ now' = Nobody /\ UNCHANGED <<pending, pauseSeq>>
           \/ i = pending /\ now = Nobody /\ pending' = Nobody /\ UNCHANGED <<now, pauseSeq>>
           \/ i = pauseSeq /\ pauseSeq' = Nobody /\ UNCHANGED <<now, pending>>
    PROVE  Accounts' /\ replies' \in [1..MaxSeq -> Nat]
<1>1. /\ Len(asked) <= MaxSeq /\ Len(asked) \in Nat /\ DOMAIN asked = 1..Len(asked)
      /\ {now, pending, pauseSeq} \subseteq Nat /\ MaxSeq \in Nat /\ replies \in [1..MaxSeq -> Nat]
  BY TypeFacts
<1>2. i \in 1..Len(asked) /\ i \in 1..MaxSeq
  <2>1. i \in 0..Len(asked)
    BY DEF DapInv, Types
  <2> QED
    BY <1>1, <2>1 DEF Nobody
<1>3. IsWaiting(i)
  BY DEF IsWaiting
<1>4. replies[i] = 0
  BY <1>1, <1>2, <1>3 DEF DapInv, Accounts, Counted
<1>5. /\ replies' \in [1..MaxSeq -> Nat] /\ replies'[i] = 1
      /\ \A j \in 1..MaxSeq : j # i => replies'[j] = replies[j]
  BY <1>1, <1>2, <1>4 DEF Reply
<1>6. Busy' = Busy
  BY DEF Busy
<1>7. /\ now # Nobody => asked[now] \in Resumes
      /\ pending # Nobody => asked[pending] = "evaluate"
      /\ pauseSeq # Nobody => asked[pauseSeq] = "pause"
      /\ Busy => asked[Len(asked)] = "pause" /\ pauseSeq < Len(asked) /\ pending < Len(asked)
  BY DEF DapInv, Control, Served, Accounts, Pauses
<1>8. \A k \in DOMAIN inbox : /\ now < inbox[k].id /\ pending < inbox[k].id /\ inbox[k].id # pauseSeq
                              /\ inbox[k].id \in 1..Len(asked)
  BY DEF DapInv, Accounts, Pauses, Queued
<1>9. i # now' /\ i # pending' /\ i # pauseSeq'
  BY <1>7 DEF Resumes
<1>10. ~(i = Len(asked) /\ Busy)
  BY <1>1, <1>7 DEF Resumes
<1>11. \A k \in DOMAIN inbox : inbox[k].id # i
  BY <1>1, <1>2, <1>8
<1>12. ~IsWaiting(i)'
  BY <1>6, <1>9, <1>10, <1>11 DEF IsWaiting
<1>13. ASSUME NEW j \in DOMAIN asked, j # i PROVE IsWaiting(j)' <=> IsWaiting(j)
  <2>1. j # Nobody
    BY <1>1 DEF Nobody
  <2> QED
    BY <1>6, <1>13, <2>1 DEF IsWaiting
<1>14. Pauses'
  <2>1. pauseSeq' # Nobody => asked'[pauseSeq'] = "pause"
    BY <1>7
  <2>2. \A k \in DOMAIN inbox' : inbox'[k].id # pauseSeq'
    BY <1>1, <1>8 DEF Nobody
  <2>3. Busy' => /\ asked' # << >> /\ asked'[Len(asked')] = "pause"
                 /\ pauseSeq' < Len(asked') /\ pending' < Len(asked')
    <3>1. Busy => asked # << >>
      BY DEF DapInv, Accounts, Pauses
    <3>2. asked # << >> => Len(asked) # 0
      BY TypeFacts
    <3> QED
      BY <1>1, <1>6, <1>7, <3>1, <3>2 DEF Nobody
  <2> QED
    BY <2>1, <2>2, <2>3 DEF Pauses
<1>15. Queued'
  BY <1>1, <1>6, <1>8 DEF DapInv, Accounts, Queued, Nobody
<1>16. Counted'
  <2>1. ASSUME NEW j \in DOMAIN asked
        PROVE  /\ replies'[j] \in {0, 1}
               /\ IsWaiting(j)' => replies'[j] = 0
               /\ ~IsWaiting(j)' => replies'[j] = 1 \/ Superseded(j)'
    <3>1. j \in 1..MaxSeq
      BY <1>1
    <3>2. CASE j = i
      BY <1>5, <1>12, <3>2
    <3>3. CASE j # i
      BY <1>5, <1>13, <3>1, <3>3 DEF DapInv, Accounts, Counted, Superseded
    <3> QED
      BY <3>2, <3>3
  <2>2. \A j \in 1..MaxSeq : j > Len(asked') => replies'[j] = 0
    BY <1>1, <1>2, <1>5 DEF DapInv, Accounts, Counted
  <2> QED
    BY <2>1, <2>2 DEF Counted
<1>17. Ordered'
  <2>1. ASSUME NEW j \in DOMAIN asked, replies'[j] > 0, asked[j] # "pause"
        PROVE  /\ now' # Nobody => j < now'
               /\ \A k \in DOMAIN inbox : j < inbox[k].id
    <3>1. CASE j = i
      BY <1>7, <1>8, <2>1, <3>1
    <3>2. CASE j # i
      <4>1. replies[j] > 0
        BY <1>1, <1>5, <2>1, <3>2
      <4> QED
        BY <2>1, <4>1 DEF DapInv, Accounts, Ordered
    <3> QED
      BY <3>1, <3>2
  <2> QED
    BY <2>1 DEF Ordered
<1> QED
  BY <1>5, <1>14, <1>15, <1>16, <1>17 DEF Accounts

\* The reader queues a request.
LEMMA FrameQueued ==
    ASSUME DapInv, ~Busy, NEW c \in Requests, NEW m \in Message,
           Len(asked) < MaxSeq, asked' = Append(asked, c),
           m.id = Len(asked) + 1, m.cmd = c, inbox' = Append(inbox, m),
           UNCHANGED <<replies, now, pending, pauseSeq, reader>>
    PROVE  Accounts' /\ asked' \in Seq(Requests) /\ Len(asked') = Len(asked) + 1
                     /\ inbox' \in Seq(Message)
<1>1. /\ inbox \in Seq(Message) /\ asked \in Seq(Requests) /\ Len(asked) <= MaxSeq
      /\ Len(asked) \in Nat /\ DOMAIN asked = 1..Len(asked)
      /\ {now, pending, pauseSeq} \subseteq Nat /\ MaxSeq \in Nat /\ replies \in [1..MaxSeq -> Nat]
  BY TypeFacts
<1>2. now <= Len(asked) /\ pending <= Len(asked) /\ pauseSeq <= Len(asked)
  <2>1. {pauseSeq, now, pending} \subseteq 0..Len(asked)
    BY DEF DapInv, Types
  <2> QED
    BY <1>1, <2>1
<1>3. /\ asked' \in Seq(Requests) /\ Len(asked') = Len(asked) + 1 /\ DOMAIN asked' = 1..(Len(asked) + 1)
      /\ \A j \in DOMAIN asked : asked'[j] = asked[j]
      /\ asked'[Len(asked) + 1] = c
  BY <1>1, AppendFacts
<1>4. /\ inbox' \in Seq(Message) /\ Len(inbox) \in Nat /\ DOMAIN inbox = 1..Len(inbox)
      /\ DOMAIN inbox' = 1..(Len(inbox) + 1)
      /\ \A k \in DOMAIN inbox : inbox'[k] = inbox[k]
      /\ inbox'[Len(inbox) + 1] = m
  BY <1>1, AppendFacts
<1>5. ~Busy'
  BY DEF Busy
<1>6. ASSUME NEW k \in DOMAIN inbox'
      PROVE  \/ k \in DOMAIN inbox /\ inbox'[k] = inbox[k]
             \/ k = Len(inbox) + 1 /\ inbox'[k] = m
  BY <1>4
<1>7. Pauses'
  <2>1. pauseSeq' # Nobody => asked'[pauseSeq'] = "pause"
    <3>1. pauseSeq # Nobody => pauseSeq \in DOMAIN asked
      BY <1>1, <1>2 DEF Nobody
    <3> QED
      BY <1>3, <3>1 DEF DapInv, Accounts, Pauses
  <2>2. ASSUME NEW k \in DOMAIN inbox' PROVE inbox'[k].id # pauseSeq
    BY <1>1, <1>2, <1>6 DEF DapInv, Accounts, Pauses
  <2> QED
    BY <1>5, <2>1, <2>2 DEF Pauses
<1>8. \A k \in DOMAIN inbox : inbox[k].id \in 1..Len(asked) /\ inbox[k].cmd = asked[inbox[k].id]
                              /\ now < inbox[k].id /\ pending < inbox[k].id
  BY DEF DapInv, Accounts, Queued
<1>9. Queued'
  <2>1. ASSUME NEW k \in DOMAIN inbox'
        PROVE  /\ inbox'[k].id \in 1..Len(asked') /\ inbox'[k].cmd = asked'[inbox'[k].id]
               /\ now < inbox'[k].id /\ pending < inbox'[k].id
    <3>1. CASE k \in DOMAIN inbox /\ inbox'[k] = inbox[k]
      BY <1>1, <1>3, <1>8, <3>1
    <3>2. CASE k = Len(inbox) + 1 /\ inbox'[k] = m
      BY <1>1, <1>2, <1>3, <3>2
    <3> QED
      BY <1>6, <3>1, <3>2
  <2>2. ASSUME NEW k \in DOMAIN inbox', NEW l \in DOMAIN inbox', k < l
        PROVE  inbox'[k].id < inbox'[l].id
    <3>1. k \in DOMAIN inbox /\ inbox'[k] = inbox[k]
      BY <1>4, <1>6, <2>2
    <3>2. CASE l \in DOMAIN inbox /\ inbox'[l] = inbox[l]
      BY <2>2, <3>1, <3>2 DEF DapInv, Accounts, Queued
    <3>3. CASE l = Len(inbox) + 1 /\ inbox'[l] = m
      BY <1>1, <1>8, <3>1, <3>3
    <3> QED
      BY <1>6, <3>2, <3>3
  <2> QED
    BY <1>5, <2>1, <2>2 DEF Queued
<1>10. Counted'
  <2>1. ASSUME NEW j \in DOMAIN asked
        PROVE  /\ replies[j] \in {0, 1}
               /\ IsWaiting(j)' => replies[j] = 0
               /\ ~IsWaiting(j)' => replies[j] = 1 \/ Superseded(j)'
    <3>1. IsWaiting(j)' <=> IsWaiting(j)
      <4>1. (\E k \in DOMAIN inbox' : inbox'[k].id = j) <=> (\E k \in DOMAIN inbox : inbox[k].id = j)
        BY <1>1, <1>4, <1>6
      <4> QED
        BY <1>5, <4>1 DEF IsWaiting
    <3>2. Superseded(j) => Superseded(j)'
      BY <1>1, <1>3 DEF Superseded
    <3> QED
      BY <3>1, <3>2 DEF DapInv, Accounts, Counted
  <2>2. PICK n : n = Len(asked) + 1
    OBVIOUS
  <2>3. n \in 1..MaxSeq
    BY <1>1, <2>2
  <2>4. replies[n] = 0
    BY <1>1, <2>2, <2>3 DEF DapInv, Accounts, Counted
  <2>5. IsWaiting(n)'
    <3>1. Len(inbox) + 1 \in DOMAIN inbox' /\ inbox'[Len(inbox) + 1].id = n
      BY <1>4, <2>2
    <3> QED
      BY <3>1 DEF IsWaiting
  <2>6. ASSUME NEW j \in DOMAIN asked'
        PROVE  /\ replies'[j] \in {0, 1}
               /\ IsWaiting(j)' => replies'[j] = 0
               /\ ~IsWaiting(j)' => replies'[j] = 1 \/ Superseded(j)'
    <3>1. CASE j \in DOMAIN asked
      BY <2>1, <3>1
    <3>2. CASE j = n
      BY <2>4, <2>5, <3>2
    <3> QED
      BY <1>1, <1>3, <2>2, <3>1, <3>2
  <2>7. \A j \in 1..MaxSeq : j > Len(asked') => replies'[j] = 0
    BY <1>1, <1>3 DEF DapInv, Accounts, Counted
  <2> QED
    BY <2>6, <2>7 DEF Counted
<1>11. Ordered'
  <2>1. ASSUME NEW j \in DOMAIN asked', replies'[j] > 0, asked'[j] # "pause"
        PROVE  /\ now # Nobody => j < now
               /\ \A k \in DOMAIN inbox' : j < inbox'[k].id
    <3>1. j \in DOMAIN asked
      <4>1. Len(asked) + 1 \in 1..MaxSeq
        BY <1>1
      <4>2. replies[Len(asked) + 1] = 0
        BY <1>1, <4>1 DEF DapInv, Accounts, Counted
      <4> QED
        BY <1>1, <1>3, <2>1, <4>2
    <3>2. asked[j] # "pause" /\ replies[j] > 0
      BY <1>3, <2>1, <3>1
    <3>3. /\ now # Nobody => j < now
          /\ \A k \in DOMAIN inbox : j < inbox[k].id
      BY <3>1, <3>2 DEF DapInv, Accounts, Ordered
    <3> QED
      BY <1>1, <1>6, <3>1, <3>3
  <2> QED
    BY <2>1 DEF Ordered
<1> QED
  BY <1>3, <1>4, <1>7, <1>9, <1>10, <1>11 DEF Accounts

\* The reader holds a pause.
LEMMA FrameHeld ==
    ASSUME DapInv, ~Busy, NEW c \in Requests, c = "pause", Len(asked) < MaxSeq,
           asked' = Append(asked, c), reader' = "sawRunning",
           UNCHANGED <<inbox, replies, now, pending, pauseSeq>>
    PROVE  Accounts' /\ asked' \in Seq(Requests) /\ Len(asked') = Len(asked) + 1
<1>1. /\ inbox \in Seq(Message) /\ asked \in Seq(Requests) /\ Len(asked) <= MaxSeq
      /\ Len(asked) \in Nat /\ DOMAIN asked = 1..Len(asked)
      /\ {now, pending, pauseSeq} \subseteq Nat /\ MaxSeq \in Nat /\ replies \in [1..MaxSeq -> Nat]
  BY TypeFacts
<1>2. now <= Len(asked) /\ pending <= Len(asked) /\ pauseSeq <= Len(asked)
  <2>1. {pauseSeq, now, pending} \subseteq 0..Len(asked)
    BY DEF DapInv, Types
  <2> QED
    BY <1>1, <2>1
<1>3. /\ asked' \in Seq(Requests) /\ Len(asked') = Len(asked) + 1 /\ DOMAIN asked' = 1..(Len(asked) + 1)
      /\ \A j \in DOMAIN asked : asked'[j] = asked[j]
      /\ asked'[Len(asked) + 1] = "pause"
  BY <1>1, AppendFacts
<1>4. PICK n : n = Len(asked) + 1
  OBVIOUS
<1>5. /\ n \in 1..MaxSeq /\ n = Len(asked') /\ n \notin DOMAIN asked
      /\ DOMAIN asked' = DOMAIN asked \cup {n}
  BY <1>1, <1>3, <1>4
<1>6. replies[n] = 0
  BY <1>1, <1>4, <1>5 DEF DapInv, Accounts, Counted
<1>7. \A k \in DOMAIN inbox : /\ inbox[k].id \in 1..Len(asked) /\ inbox[k].cmd = asked[inbox[k].id]
                              /\ now < inbox[k].id /\ pending < inbox[k].id
  BY DEF DapInv, Accounts, Queued
<1>8. Busy'
  BY DEF Busy
<1>9. Pauses'
  <2>1. pauseSeq' # Nobody => asked'[pauseSeq'] = "pause"
    <3>1. pauseSeq # Nobody => pauseSeq \in DOMAIN asked
      BY <1>1, <1>2 DEF Nobody
    <3> QED
      BY <1>3, <3>1 DEF DapInv, Accounts, Pauses
  <2>2. asked' # << >>
    BY <1>1, <1>3
  <2>3. \A k \in DOMAIN inbox' : inbox'[k].id # pauseSeq'
    BY DEF DapInv, Accounts, Pauses
  <2>4. pauseSeq' < Len(asked') /\ pending' < Len(asked') /\ asked'[Len(asked')] = "pause"
    BY <1>1, <1>2, <1>3
  <2> QED
    BY <2>1, <2>2, <2>3, <2>4 DEF Pauses
<1>10. Queued'
  <2>1. ASSUME NEW k \in DOMAIN inbox'
        PROVE  /\ inbox'[k].id \in 1..Len(asked') /\ inbox'[k].cmd = asked'[inbox'[k].id]
               /\ inbox'[k].id < Len(asked')
               /\ now' < inbox'[k].id /\ pending' < inbox'[k].id
    BY <1>1, <1>3, <1>7
  <2>2. \A k, l \in DOMAIN inbox' : k < l => inbox'[k].id < inbox'[l].id
    BY DEF DapInv, Accounts, Queued
  <2> QED
    BY <2>1, <2>2 DEF Queued
<1>11. Counted'
  <2>1. ASSUME NEW j \in DOMAIN asked'
        PROVE  /\ replies'[j] \in {0, 1}
               /\ IsWaiting(j)' => replies'[j] = 0
               /\ ~IsWaiting(j)' => replies'[j] = 1 \/ Superseded(j)'
    <3>1. CASE j \in DOMAIN asked
      <4>1. IsWaiting(j)' <=> IsWaiting(j)
        BY <1>5, <3>1 DEF IsWaiting
      <4>2. Superseded(j) => Superseded(j)'
        BY <1>1, <1>3, <3>1 DEF Superseded
      <4> QED
        BY <3>1, <4>1, <4>2 DEF DapInv, Accounts, Counted
    <3>2. CASE j = n
      <4>1. IsWaiting(j)'
        BY <1>5, <1>8, <3>2 DEF IsWaiting
      <4> QED
        BY <1>6, <3>2, <4>1
    <3> QED
      BY <1>5, <3>1, <3>2
  <2>2. \A j \in 1..MaxSeq : j > Len(asked') => replies'[j] = 0
    BY <1>1, <1>3 DEF DapInv, Accounts, Counted
  <2> QED
    BY <2>1, <2>2 DEF Counted
<1>12. Ordered'
  <2>1. ASSUME NEW j \in DOMAIN asked', replies'[j] > 0, asked'[j] # "pause"
        PROVE  /\ now' # Nobody => j < now'
               /\ \A k \in DOMAIN inbox' : j < inbox'[k].id
    <3>1. j \in DOMAIN asked
      BY <1>5, <1>6, <2>1
    <3>2. asked[j] # "pause" /\ replies[j] > 0
      BY <1>3, <2>1, <3>1
    <3> QED
      BY <3>1, <3>2 DEF DapInv, Accounts, Ordered
  <2> QED
    BY <2>1 DEF Ordered
<1> QED
  BY <1>3, <1>9, <1>10, <1>11, <1>12 DEF Accounts

\* The pause the reader holds is queued after all.
LEMMA HeldQueued ==
    ASSUME DapInv, Busy, ~Busy', NEW m \in Message, m.id = Len(asked), m.cmd = "pause",
           inbox' = Append(inbox, m), UNCHANGED <<asked, replies, now, pending, pauseSeq>>
    PROVE  Accounts' /\ inbox' \in Seq(Message)
<1>1. /\ inbox \in Seq(Message) /\ asked \in Seq(Requests)
      /\ Len(asked) \in Nat /\ DOMAIN asked = 1..Len(asked)
      /\ {now, pending, pauseSeq} \subseteq Nat
  BY TypeFacts
<1>2. /\ asked # << >> /\ asked[Len(asked)] = "pause" /\ pauseSeq < Len(asked) /\ pending < Len(asked)
  BY DEF DapInv, Accounts, Pauses
<1>3. Len(asked) \in DOMAIN asked
  BY <1>1, <1>2
<1>4. now < Len(asked)
  <2>1. now \in 0..Len(asked)
    BY DEF DapInv, Types
  <2>2. now # Nobody => asked[now] \in Resumes
    BY DEF DapInv, Control, Served
  <2> QED
    BY <1>1, <1>2, <1>3, <2>1, <2>2 DEF Nobody, Resumes
<1>5. /\ inbox' \in Seq(Message) /\ Len(inbox) \in Nat /\ DOMAIN inbox = 1..Len(inbox)
      /\ DOMAIN inbox' = 1..(Len(inbox) + 1)
      /\ \A k \in DOMAIN inbox : inbox'[k] = inbox[k]
      /\ inbox'[Len(inbox) + 1] = m
  BY <1>1, AppendFacts
<1>6. ASSUME NEW k \in DOMAIN inbox'
      PROVE  \/ k \in DOMAIN inbox /\ inbox'[k] = inbox[k]
             \/ k = Len(inbox) + 1 /\ inbox'[k] = m
  BY <1>5
<1>7. \A k \in DOMAIN inbox : /\ inbox[k].id \in 1..Len(asked) /\ inbox[k].cmd = asked[inbox[k].id]
                              /\ inbox[k].id < Len(asked) /\ inbox[k].id # pauseSeq
                              /\ now < inbox[k].id /\ pending < inbox[k].id
  BY DEF DapInv, Accounts, Queued, Pauses
<1>8. Pauses'
  <2>1. \A k \in DOMAIN inbox' : inbox'[k].id # pauseSeq
    BY <1>1, <1>2, <1>6, <1>7
  <2> QED
    BY <2>1 DEF DapInv, Accounts, Pauses
<1>9. Queued'
  <2>1. ASSUME NEW k \in DOMAIN inbox'
        PROVE  /\ inbox'[k].id \in 1..Len(asked) /\ inbox'[k].cmd = asked[inbox'[k].id]
               /\ now < inbox'[k].id /\ pending < inbox'[k].id
    <3>1. CASE k \in DOMAIN inbox /\ inbox'[k] = inbox[k]
      BY <1>7, <3>1
    <3>2. CASE k = Len(inbox) + 1 /\ inbox'[k] = m
      BY <1>1, <1>2, <1>3, <1>4, <3>2
    <3> QED
      BY <1>6, <3>1, <3>2
  <2>2. ASSUME NEW k \in DOMAIN inbox', NEW l \in DOMAIN inbox', k < l
        PROVE  inbox'[k].id < inbox'[l].id
    <3>1. k \in DOMAIN inbox /\ inbox'[k] = inbox[k]
      BY <1>5, <1>6, <2>2
    <3>2. CASE l \in DOMAIN inbox /\ inbox'[l] = inbox[l]
      BY <2>2, <3>1, <3>2 DEF DapInv, Accounts, Queued
    <3>3. CASE l = Len(inbox) + 1 /\ inbox'[l] = m
      BY <1>7, <3>1, <3>3
    <3> QED
      BY <1>6, <3>2, <3>3
  <2> QED
    BY <2>1, <2>2 DEF Queued
<1>10. Counted'
  <2>1. ASSUME NEW j \in DOMAIN asked PROVE IsWaiting(j)' <=> IsWaiting(j)
    <3>1. (\E k \in DOMAIN inbox' : inbox'[k].id = j)
              <=> j = Len(asked) \/ \E k \in DOMAIN inbox : inbox[k].id = j
      BY <1>5, <1>6
    <3> QED
      BY <3>1 DEF IsWaiting
  <2> QED
    BY <2>1 DEF DapInv, Accounts, Counted, Superseded
<1>11. Ordered'
  <2>1. ASSUME NEW j \in DOMAIN asked, replies[j] > 0, asked[j] # "pause"
        PROVE  /\ now # Nobody => j < now
               /\ \A k \in DOMAIN inbox' : j < inbox'[k].id
    <3>1. j < Len(asked)
      BY <1>1, <1>2, <2>1
    <3>2. /\ now # Nobody => j < now
          /\ \A k \in DOMAIN inbox : j < inbox[k].id
      BY <2>1 DEF DapInv, Accounts, Ordered
    <3> QED
      BY <1>6, <3>1, <3>2
  <2> QED
    BY <2>1 DEF Ordered
<1> QED
  BY <1>5, <1>8, <1>9, <1>10, <1>11 DEF Accounts

\* The pause is noted, in the place of an earlier one.
LEMMA HeldNoted ==
    ASSUME DapInv, Busy, ~Busy', pauseSeq' = Len(asked),
           UNCHANGED <<asked, inbox, replies, now, pending>>
    PROVE  Accounts'
<1>1. /\ asked \in Seq(Requests) /\ Len(asked) \in Nat /\ DOMAIN asked = 1..Len(asked)
      /\ {now, pending, pauseSeq} \subseteq Nat
  BY TypeFacts
<1>2. /\ asked # << >> /\ asked[Len(asked)] = "pause" /\ pauseSeq < Len(asked) /\ pending < Len(asked)
      /\ pauseSeq # Nobody => asked[pauseSeq] = "pause"
  BY DEF DapInv, Accounts, Pauses
<1>3. Len(asked) \in DOMAIN asked
  BY <1>1, <1>2
<1>4. Pauses'
  <2>1. \A k \in DOMAIN inbox : inbox[k].id < Len(asked) /\ inbox[k].id \in 1..Len(asked)
    BY DEF DapInv, Accounts, Queued
  <2>2. \A k \in DOMAIN inbox : inbox[k].id # Len(asked)
    BY <1>1, <2>1
  <2> QED
    BY <1>2, <2>2 DEF Pauses
<1>5. Queued'
  BY DEF DapInv, Accounts, Queued
<1>6. Counted'
  <2>1. ASSUME NEW j \in DOMAIN asked
        PROVE  /\ replies'[j] \in {0, 1}
               /\ IsWaiting(j)' => replies'[j] = 0
               /\ ~IsWaiting(j)' => replies'[j] = 1 \/ Superseded(j)'
    <3>1. CASE j = pauseSeq
      <4>1. Superseded(j)'
        BY <1>1, <1>2, <1>3, <3>1 DEF Superseded, Nobody
      <4>2. replies[j] = 0
        BY <3>1 DEF DapInv, Accounts, Counted, IsWaiting
      <4> QED
        BY <4>1, <4>2
    <3>2. CASE j # pauseSeq
      <4>1. IsWaiting(j)' <=> IsWaiting(j)
        BY <3>2 DEF IsWaiting
      <4> QED
        BY <4>1 DEF DapInv, Accounts, Counted, Superseded
    <3> QED
      BY <3>1, <3>2
  <2>2. \A j \in 1..MaxSeq : j > Len(asked') => replies'[j] = 0
    BY DEF DapInv, Accounts, Counted
  <2> QED
    BY <2>1, <2>2 DEF Counted
<1>7. Ordered'
  BY DEF DapInv, Accounts, Ordered
<1> QED
  BY <1>4, <1>5, <1>6, <1>7 DEF Accounts

-----------------------------------------------------------------------------
(* The reader thread. *)

\* Reading, raising the flag and noting a pause leave the main thread alone.
LEMMA ReaderControl ==
    ASSUME DapInv, UNCHANGED <<phase, running, flag, at, now, pending, view>>,
           \A i \in DOMAIN asked : i \in DOMAIN asked' /\ asked'[i] = asked[i],
           reader' = "flagged" => flag,
           pauseSeq' # pauseSeq => at \notin Before \cup {"terminated"},
           at \notin Ends => \A k \in DOMAIN inbox' : inbox'[k].late => inbox'[k].cmd # "pause"
    PROVE  Control'
<1>1. Together'
  BY DEF DapInv, Control, Together
<1>2. Served'
  <2>1. /\ now # Nobody => now \in DOMAIN asked
        /\ pending # Nobody => pending \in DOMAIN asked
    <3>1. {pauseSeq, now, pending} \subseteq 0..Len(asked) /\ asked \in Seq(Requests)
      BY DEF DapInv, Types
    <3> QED
      BY <3>1 DEF Nobody
  <2> QED
    BY <2>1 DEF DapInv, Control, Served
<1>3. Locked'
  BY DEF DapInv, Control, Locked
<1>4. Known'
  BY DEF DapInv, Control, Known
<1> QED
  BY <1>1, <1>2, <1>3, <1>4 DEF Control

LEMMA FrameStep ==
    ASSUME DapInv, Frame
    PROVE  DapInv'
<1>1. /\ asked \in Seq(Requests) /\ Len(asked) \in Nat /\ DOMAIN asked = 1..Len(asked)
      /\ inbox \in Seq(Message) /\ Len(asked) < MaxSeq
  BY TypeFacts DEF Frame
<1>2. ~Busy
  BY DEF Frame, Busy
<1>3. PICK c \in Requests :
          /\ asked' = Append(asked, c)
          /\ IF c = "pause" /\ running
             THEN reader' = "sawRunning" /\ UNCHANGED inbox
             ELSE inbox' = Append(inbox, Request(Len(asked'))) /\ UNCHANGED reader
  BY DEF Frame
<1>4. /\ Len(asked') = Len(asked) + 1 /\ DOMAIN asked' = 1..(Len(asked) + 1)
      /\ \A j \in DOMAIN asked : asked'[j] = asked[j]
      /\ asked'[Len(asked) + 1] = c
  BY <1>1, <1>3, AppendFacts
<1>5. UNCHANGED <<phase, live, reason, async, running, flag, pauseSeq, at, now, pending, detached,
                  noDebug, stopOnEntry, replies, view, told>>
  BY DEF Frame, debuggee, bridge, main, launch, client
<1>6. ASSUME asked' \in Seq(Requests), inbox' \in Seq(Message),
             reader' \in {"framing", "sawRunning", "flagged", "gone"}
      PROVE  Types'
  <2>1. {pauseSeq, now, pending} \subseteq 0..Len(asked)
    BY DEF DapInv, Types
  <2>2. {pauseSeq', now', pending'} \subseteq 0..Len(asked')
    BY <1>1, <1>4, <1>5, <2>1
  <2>3. Len(asked') <= MaxSeq
    BY <1>1, <1>4, TypeFacts
  <2> QED
    BY <1>5, <1>6, <2>2, <2>3 DEF DapInv, Types
<1>7. CASE c = "pause" /\ running
  <2>1. reader' = "sawRunning" /\ inbox' = inbox
    BY <1>3, <1>7
  <2>2. Accounts' /\ asked' \in Seq(Requests)
    BY <1>1, <1>2, <1>3, <1>5, <1>7, <2>1, FrameHeld
  <2>3. Types'
    BY <1>1, <1>6, <2>1, <2>2
  <2>4. Control'
    <3>1. at \notin Ends => \A k \in DOMAIN inbox : inbox[k].late => inbox[k].cmd # "pause"
      BY DEF DapInv, Control, Known
    <3>2. \A i \in DOMAIN asked : i \in DOMAIN asked' /\ asked'[i] = asked[i]
      BY <1>1, <1>4
    <3> QED
      BY <1>5, <2>1, <3>1, <3>2, ReaderControl
  <2> QED
    BY <2>2, <2>3, <2>4 DEF DapInv
<1>8. CASE ~(c = "pause" /\ running)
  <2>1. PICK m : m = Request(Len(asked'))
    OBVIOUS
  <2>2. inbox' = Append(inbox, m) /\ reader' = reader
    BY <1>3, <1>8, <2>1
  <2>3. m \in Message /\ m.id = Len(asked) + 1 /\ m.cmd = c /\ m.late = (view = "running")
    BY <1>1, <1>4, <2>1 DEF Request, Message
  <2>4. /\ Accounts' /\ asked' \in Seq(Requests) /\ inbox' \in Seq(Message)
    BY <1>1, <1>2, <1>3, <1>5, <2>2, <2>3, FrameQueued
  <2>5. Types'
    <3>1. reader' \in {"framing", "sawRunning", "flagged", "gone"}
      BY <2>2 DEF DapInv, Types
    <3> QED
      BY <1>6, <2>4, <3>1
  <2>6. Control'
    <3>1. \A i \in DOMAIN asked : i \in DOMAIN asked' /\ asked'[i] = asked[i]
      BY <1>1, <1>4
    <3>2. at \notin Ends => \A k \in DOMAIN inbox : inbox[k].late => inbox[k].cmd # "pause"
      BY DEF DapInv, Control, Known
    <3>3. at \notin Ends /\ m.late => m.cmd # "pause"
      BY <1>8, <2>3 DEF DapInv, Control, Known
    <3>4. /\ DOMAIN inbox' = 1..(Len(inbox) + 1) /\ DOMAIN inbox = 1..Len(inbox) /\ Len(inbox) \in Nat
          /\ \A k \in DOMAIN inbox : inbox'[k] = inbox[k]
          /\ inbox'[Len(inbox) + 1] = m
      BY <1>1, <2>2, <2>3, AppendFacts
    <3>5. at \notin Ends => \A k \in DOMAIN inbox' : inbox'[k].late => inbox'[k].cmd # "pause"
      BY <3>2, <3>3, <3>4
    <3>6. reader' # "flagged"
      BY <2>2 DEF Frame
    <3> QED
      BY <1>5, <3>1, <3>5, <3>6, ReaderControl
  <2> QED
    BY <2>4, <2>5, <2>6 DEF DapInv
<1> QED
  BY <1>7, <1>8

LEMMA ReaderStep ==
    ASSUME DapInv, Reader
    PROVE  DapInv'
<1>1. /\ asked \in Seq(Requests) /\ Len(asked) \in Nat /\ DOMAIN asked = 1..Len(asked)
      /\ inbox \in Seq(Message)
  BY TypeFacts
<1>2. at \notin Ends => \A k \in DOMAIN inbox : inbox[k].late => inbox[k].cmd # "pause"
  BY DEF DapInv, Control, Known
<1>3. CASE Frame
  BY <1>3, FrameStep
<1>4. CASE RaiseFlag
  <2>1. /\ reader = "sawRunning" /\ flag /\ async' = TRUE /\ reader' = "flagged"
        /\ UNCHANGED <<phase, live, reason, running, flag, pauseSeq, asked, inbox, at, now, pending,
                       detached, noDebug, stopOnEntry, replies, view, told>>
    BY <1>4 DEF RaiseFlag, bridge, main, launch, client
  <2>2. Busy' = Busy
    BY <2>1 DEF Busy
  <2>3. Accounts'
    BY <2>1, <2>2, SameAccounts
  <2>4. Types'
    BY <2>1 DEF DapInv, Types
  <2>5. Control'
    BY <1>2, <2>1, ReaderControl
  <2> QED
    BY <2>3, <2>4, <2>5 DEF DapInv
<1>5. CASE QueuePause
  <2>1. PICK m : m = [id |-> Len(asked), cmd |-> "pause", late |-> FALSE]
    OBVIOUS
  <2>2. /\ reader = "sawRunning" /\ reader' = "framing" /\ inbox' = Append(inbox, m)
        /\ UNCHANGED <<phase, live, reason, async, running, flag, pauseSeq, asked, at, now, pending,
                       detached, noDebug, stopOnEntry, replies, view, told>>
    BY <1>5, <2>1 DEF QueuePause, debuggee, bridge, main, launch, client
  <2>3. Busy /\ ~Busy'
    BY <2>2 DEF Busy
  <2>4. asked # << >> /\ asked[Len(asked)] = "pause"
    BY <2>3 DEF DapInv, Accounts, Pauses
  <2>5. Len(asked) \in DOMAIN asked
    BY <1>1, <2>4
  <2>6. "pause" \in Requests
    BY <1>1, <2>4, <2>5
  <2>7. m \in Message /\ m.id = Len(asked) /\ m.cmd = "pause" /\ m.late = FALSE
    BY <1>1, <2>1, <2>6 DEF Message
  <2>8. Accounts' /\ inbox' \in Seq(Message)
    BY <2>2, <2>3, <2>7, HeldQueued
  <2>9. Types'
    BY <2>2, <2>8 DEF DapInv, Types
  <2>10. Control'
    <3>1. /\ DOMAIN inbox' = 1..(Len(inbox) + 1) /\ DOMAIN inbox = 1..Len(inbox) /\ Len(inbox) \in Nat
          /\ \A k \in DOMAIN inbox : inbox'[k] = inbox[k]
          /\ inbox'[Len(inbox) + 1] = m
      BY <1>1, <2>2, <2>7, AppendFacts
    <3>2. at \notin Ends => \A k \in DOMAIN inbox' : inbox'[k].late => inbox'[k].cmd # "pause"
      BY <1>2, <2>7, <3>1
    <3> QED
      BY <2>2, <3>2, ReaderControl
  <2> QED
    BY <2>8, <2>9, <2>10 DEF DapInv
<1>6. CASE NotePause
  <2>1. /\ reader = "flagged" /\ reader' = "framing" /\ pauseSeq' = Len(asked)
        /\ UNCHANGED <<phase, live, reason, async, running, flag, asked, inbox, at, now, pending,
                       detached, noDebug, stopOnEntry, replies, view, told>>
    BY <1>6 DEF NotePause, debuggee, main, launch, client
  <2>2. Busy /\ ~Busy'
    BY <2>1 DEF Busy
  <2>3. Accounts'
    BY <2>1, <2>2, HeldNoted
  <2>4. Types'
    BY <1>1, <2>1 DEF DapInv, Types
  <2>5. Control'
    <3>1. at \notin Before \cup {"terminated"}
      BY <2>1 DEF DapInv, Control, Locked
    <3> QED
      BY <1>2, <2>1, <3>1, ReaderControl
  <2> QED
    BY <2>3, <2>4, <2>5 DEF DapInv
<1>7. CASE HangUp
  <2>1. /\ reader = "framing" /\ reader' = "gone"
        /\ UNCHANGED <<phase, live, reason, async, running, flag, pauseSeq, asked, inbox, at, now,
                       pending, detached, noDebug, stopOnEntry, replies, view, told>>
    BY <1>7 DEF HangUp, debuggee, bridge, main, launch, client
  <2>2. Busy' = Busy
    BY <2>1 DEF Busy
  <2>3. Accounts'
    BY <2>1, <2>2, SameAccounts
  <2>4. Types'
    BY <2>1 DEF DapInv, Types
  <2>5. Control'
    BY <1>2, <2>1, ReaderControl
  <2> QED
    BY <2>3, <2>4, <2>5 DEF DapInv
<1> QED
  BY <1>3, <1>4, <1>5, <1>6, <1>7 DEF Reader

-----------------------------------------------------------------------------
(* The main thread. *)

\* The requests left in the channel are as timely as before.
LEMMA TailOnTime ==
    ASSUME DapInv, inbox # << >>, at \notin Ends
    PROVE  \A k \in DOMAIN Tail(inbox) : Tail(inbox)[k].late => Tail(inbox)[k].cmd # "pause"
<1>1. \A k \in DOMAIN inbox : inbox[k].late => inbox[k].cmd # "pause"
  BY DEF DapInv, Control, Known
<1>2. \A k \in DOMAIN Tail(inbox) : \E l \in DOMAIN inbox : Tail(inbox)[k] = inbox[l]
  BY TailQueued
<1> QED
  BY <1>1, <1>2

\* A conversation leads on, or to its end.
LEMMA AfterPlaces ==
    ASSUME Conversing, NEW c, at' \in After(c)
    PROVE  \/ at \in Before /\ at' \in Before \cup {"over"}
           \/ at = "terminated" /\ at' \in {"terminated", "over"}
<1>1. at \in {"initialize", "launch", "configuring", "draining", "terminated"}
  BY DEF Conversing
<1>2. CASE at = "initialize"
  BY <1>2 DEF After, Before
<1>3. CASE at # "initialize" /\ c \in Disconnects
  BY <1>1, <1>3 DEF After, Before
<1>4. CASE at = "launch" /\ c \notin Disconnects
  BY <1>4 DEF After, Before
<1>5. CASE at \in {"configuring", "draining", "terminated"} /\ c \notin Disconnects
  <2>1. at' \in {"starting", at} /\ (at' = "starting" => at = "configuring")
    BY <1>5 DEF After
  <2> QED
    BY <1>5, <2>1 DEF Before
<1> QED
  BY <1>1, <1>2, <1>3, <1>4, <1>5

LEMMA ConverseStep ==
    ASSUME DapInv, Converse
    PROVE  DapInv'
<1>1. /\ Conversing /\ inbox # << >> /\ inbox' = Tail(inbox) /\ Reply(Head(inbox).id)
      /\ at' \in After(Head(inbox).cmd)
      /\ UNCHANGED <<phase, live, reason, async, running, flag, pauseSeq, reader, asked, now, pending,
                     detached, view, told>>
  BY DEF Converse, Take, debuggee, bridge, reading
<1>2. {noDebug', stopOnEntry'} \subseteq BOOLEAN
  <2>1. CASE at = "launch" /\ at' = "configuring"
    BY <2>1 DEF Converse
  <2>2. CASE ~(at = "launch" /\ at' = "configuring")
    <3>1. noDebug' = noDebug /\ stopOnEntry' = stopOnEntry
      BY <2>2 DEF Converse, launch
    <3> QED
      BY <3>1 DEF DapInv, Types
  <2> QED
    BY <2>1, <2>2
<1>3. \/ at \in Before /\ at' \in Before \cup {"over"}
      \/ at = "terminated" /\ at' \in {"terminated", "over"}
  <2>1. PICK c : c = Head(inbox).cmd
    OBVIOUS
  <2> QED
    BY <1>1, <2>1, AfterPlaces
<1>4. now = Nobody
  BY <1>1 DEF Conversing, DapInv, Control, Served
<1>5. Accounts' /\ replies' \in [1..MaxSeq -> Nat]
  BY <1>1, <1>4, HeadAnswered
<1>6. inbox' \in Seq(Message)
  BY <1>1, HeadAlone
<1>7. Types'
  BY <1>1, <1>2, <1>5, <1>6 DEF DapInv, Types
<1>8. Control'
  <2>1. Together'
    BY <1>1, <1>3 DEF DapInv, Control, Together, Before, Ends, Stops
  <2>2. Served'
    BY <1>1, <1>3, <1>4 DEF DapInv, Control, Served, Before
  <2>3. Locked'
    BY <1>1, <1>3 DEF DapInv, Control, Locked, Before
  <2>4. Known'
    <3>1. at' \notin Ends => at \notin Ends
      BY <1>3 DEF Before, Ends
    <3>2. at' \in Before => at \in Before
      BY <1>3 DEF Before
    <3>3. at' # "marked"
      BY <1>3 DEF Before
    <3> QED
      BY <1>1, <3>1, <3>2, <3>3, TailOnTime DEF DapInv, Control, Known
  <2> QED
    BY <2>1, <2>2, <2>3, <2>4 DEF Control
<1> QED
  BY <1>5, <1>7, <1>8 DEF DapInv

\* The steps of the main thread that neither take nor answer a request.
LEMMA QuietStep ==
    ASSUME DapInv, ClientGone \/ Start \/ StartFails \/ EndRun \/ ClearFlag \/ SkipEntry \/ Abandon
    PROVE  DapInv'
<1>1. CASE ClientGone
  <2>1. /\ Conversing /\ at' = "over"
        /\ UNCHANGED <<phase, live, reason, async, running, flag, pauseSeq, reader, asked, inbox, now,
                       pending, detached, noDebug, stopOnEntry, replies, view, told>>
    BY <1>1 DEF ClientGone, debuggee, bridge, reading, launch, client
  <2>2. Types'
    BY <2>1 DEF DapInv, Types
  <2>3. Busy' = Busy
    BY <2>1 DEF Busy
  <2>4. Accounts'
    BY <2>1, <2>3, SameAccounts
  <2>5. Control'
    BY <2>1 DEF DapInv, Control, Conversing, Together, Served, Locked, Known, Before, Ends, Stops
  <2> QED
    BY <2>2, <2>4, <2>5 DEF DapInv
<1>2. CASE Start
  <2>1. /\ at = "starting" /\ at' = "running" /\ flag' = ~noDebug /\ live' = ~noDebug
        /\ UNCHANGED <<phase, reason, async, running, pauseSeq, reader, asked, inbox, now, pending,
                       detached, noDebug, stopOnEntry, replies, view, told>>
    BY <1>2 DEF Start, reading, launch, client
  <2>2. Types'
    BY <2>1 DEF DapInv, Types
  <2>3. Busy' = Busy
    BY <2>1 DEF Busy
  <2>4. Accounts'
    BY <2>1, <2>3, SameAccounts
  <2>5. Control'
    BY <2>1 DEF DapInv, Control, Together, Served, Locked, Known, Before, Ends, Stops
  <2> QED
    BY <2>2, <2>4, <2>5 DEF DapInv
<1>3. CASE StartFails
  <2>1. /\ at = "starting" /\ at' = "over" /\ view' = "terminated"
        /\ UNCHANGED <<phase, live, reason, async, running, flag, pauseSeq, reader, asked, inbox, now,
                       pending, detached, noDebug, stopOnEntry, replies, told>>
    BY <1>3 DEF StartFails, debuggee, bridge, reading, launch
  <2>2. Types'
    BY <2>1 DEF DapInv, Types
  <2>3. Busy' = Busy
    BY <2>1 DEF Busy
  <2>4. Accounts'
    BY <2>1, <2>3, SameAccounts
  <2>5. Control'
    BY <2>1 DEF DapInv, Control, Together, Served, Locked, Known, Before, Ends, Stops
  <2> QED
    BY <2>2, <2>4, <2>5 DEF DapInv
<1>4. CASE EndRun
  <2>1. /\ at = "epilogue" /\ at' = "clearing" /\ running' = FALSE
        /\ UNCHANGED <<phase, live, reason, async, flag, pauseSeq, reader, asked, inbox, now,
                       pending, detached, noDebug, stopOnEntry, replies, view, told>>
    BY <1>4 DEF EndRun, debuggee, reading, launch, client
  <2>2. Types'
    BY <2>1 DEF DapInv, Types
  <2>3. Busy' = Busy
    BY <2>1 DEF Busy
  <2>4. Accounts'
    BY <2>1, <2>3, SameAccounts
  <2>5. Control'
    BY <2>1 DEF DapInv, Control, Together, Served, Locked, Known, Before, Ends, Stops
  <2> QED
    BY <2>2, <2>4, <2>5 DEF DapInv
<1>5. CASE ClearFlag
  <2>1. /\ at = "clearing" /\ at' \in {"over", "settling"} /\ reader # "flagged" /\ flag' = FALSE
        /\ UNCHANGED <<phase, live, reason, async, running, pauseSeq, reader, asked, inbox, now,
                       pending, detached, noDebug, stopOnEntry, replies, view, told>>
    BY <1>5 DEF ClearFlag, debuggee, reading, launch, client
  <2>2. Types'
    BY <2>1 DEF DapInv, Types
  <2>3. Busy' = Busy
    BY <2>1 DEF Busy
  <2>4. Accounts'
    BY <2>1, <2>3, SameAccounts
  <2>5. Control'
    BY <2>1 DEF DapInv, Control, Together, Served, Locked, Known, Before, Ends, Stops
  <2> QED
    BY <2>2, <2>4, <2>5 DEF DapInv
<1>6. CASE SkipEntry
  <2>1. /\ at = "serving" /\ pending = Nobody /\ at' = "running" /\ running' = TRUE /\ phase' = "free"
        /\ UNCHANGED <<live, reason, async, flag, pauseSeq, reader, asked, inbox, now,
                       pending, detached, noDebug, stopOnEntry, replies, view, told>>
    BY <1>6 DEF SkipEntry, Continued, reading, launch, client
  <2>2. Types'
    BY <2>1 DEF DapInv, Types
  <2>3. Busy' = Busy
    BY <2>1 DEF Busy
  <2>4. Accounts'
    BY <2>1, <2>3, SameAccounts
  <2>5. Control'
    BY <2>1 DEF DapInv, Control, Together, Served, Locked, Known, Before, Ends, Stops
  <2> QED
    BY <2>2, <2>4, <2>5 DEF DapInv
<1>7. CASE Abandon
  <2>1. /\ at = "loop" /\ at' = "running" /\ running' = TRUE /\ phase' = "free" /\ live' = FALSE
        /\ UNCHANGED <<reason, async, flag, pauseSeq, reader, asked, inbox, now,
                       pending, detached, noDebug, stopOnEntry, replies, view, told>>
    BY <1>7 DEF Abandon, Ended, reading, launch, client
  <2>2. Types'
    BY <2>1 DEF DapInv, Types
  <2>3. Busy' = Busy
    BY <2>1 DEF Busy
  <2>4. Accounts'
    BY <2>1, <2>3, SameAccounts
  <2>5. Control'
    BY <2>1 DEF DapInv, Control, Together, Served, Locked, Known, Before, Ends, Stops
  <2> QED
    BY <2>2, <2>4, <2>5 DEF DapInv
<1> QED
  BY <1>1, <1>2, <1>3, <1>4, <1>5, <1>6, <1>7

\* The debuggee runs, or evaluates at a stop.
LEMMA DebuggeeStep ==
    ASSUME DapInv, RunsOn \/ Evaluated
    PROVE  DapInv'
<1>1. /\ UNCHANGED <<running, flag, pauseSeq, reader, asked, inbox, now, pending, detached,
                     noDebug, stopOnEntry, replies, view>>
      /\ \/ at = "running" /\ at' = "serving" /\ phase' = "parked"
         \/ at = "running" /\ at' = at /\ phase' = phase
         \/ at = "running" /\ at' = "epilogue" /\ phase' = "over"
         \/ at = "evaluating" /\ at' = "serving" /\ phase' = phase
         \/ at = "evaluating" /\ at' = "running" /\ phase' = "free"
  BY DEF RunsOn, Evaluated, ServeEntry, Park, Absorb, ExitNoted, Over, Ended, Continued,
         debuggee, bridge, reading, launch, client
<1>2. {async', live', told'} \subseteq BOOLEAN
  <2>1. {async, live, told} \subseteq BOOLEAN
    BY DEF DapInv, Types
  <2>2. async' \in {async, FALSE}
    BY DEF RunsOn, Evaluated, ServeEntry, Park, Absorb, ExitNoted, Over, Ended, Continued, debuggee
  <2>3. live' \in {live, FALSE}
    BY DEF RunsOn, Evaluated, ServeEntry, Park, Absorb, ExitNoted, Over, Ended, Continued, debuggee
  <2>4. told' \in {told, FALSE}
    BY DEF RunsOn, Evaluated, client
  <2> QED
    BY <2>1, <2>2, <2>3, <2>4
<1>3. Types'
  BY <1>1, <1>2 DEF DapInv, Types
<1>4. Busy' = Busy
  BY <1>1 DEF Busy
<1>5. Accounts'
  BY <1>1, <1>4, SameAccounts
<1>6. Together'
  BY <1>1 DEF DapInv, Control, Together, Before, Ends, Stops
<1>7. Served' /\ Locked'
  BY <1>1 DEF DapInv, Control, Served, Locked, Before
<1>8. Known'
  BY <1>1 DEF DapInv, Control, Known, Before, Ends
<1> QED
  BY <1>3, <1>5, <1>6, <1>7, <1>8 DEF DapInv, Control

\* The steps that answer a request they were owing a reply to.
LEMMA OwedStep ==
    ASSUME DapInv, ServeAgain \/ RespondAndResume \/ Announce \/ Settle
    PROVE  DapInv'
<1>0. {pauseSeq, now, pending} \subseteq 0..Len(asked) /\ 0 \in 0..Len(asked)
  BY TypeFacts DEF DapInv, Types
<1>1. CASE ServeAgain
  <2>1. /\ at = "serving" /\ pending # Nobody /\ Reply(pending) /\ pending' = Nobody /\ at' = "loop"
        /\ UNCHANGED <<phase, live, reason, async, running, flag, pauseSeq, reader, asked, inbox, now,
                       detached, noDebug, stopOnEntry, view, told>>
    BY <1>1 DEF ServeAgain, debuggee, bridge, reading, launch
  <2>2. now = Nobody
    BY <2>1 DEF DapInv, Control, Served
  <2>3. PICK i : i = pending
    OBVIOUS
  <2>4. Accounts' /\ replies' \in [1..MaxSeq -> Nat]
    BY <2>1, <2>2, <2>3, OwedAnswered
  <2>5. Types'
    BY <1>0, <2>1, <2>4 DEF DapInv, Types, Nobody
  <2>6. Control'
    BY <2>1 DEF DapInv, Control, Together, Served, Locked, Known, Before, Ends, Stops
  <2> QED
    BY <2>4, <2>5, <2>6 DEF DapInv
<1>2. CASE RespondAndResume
  <2>1. /\ at = "marked" /\ Reply(now) /\ now' = Nobody /\ view' = "running" /\ phase' = "free"
        /\ at' = "running"
        /\ UNCHANGED <<live, reason, async, running, flag, pauseSeq, reader, asked, inbox, pending,
                       detached, noDebug, stopOnEntry, told>>
    BY <1>2 DEF RespondAndResume, Continued, bridge, reading, launch
  <2>2. now # Nobody
    BY <2>1 DEF DapInv, Control, Served
  <2>3. PICK i : i = now
    OBVIOUS
  <2>4. Accounts' /\ replies' \in [1..MaxSeq -> Nat]
    BY <2>1, <2>2, <2>3, OwedAnswered
  <2>5. Types'
    BY <1>0, <2>1, <2>4 DEF DapInv, Types, Nobody
  <2>6. Control'
    BY <2>1 DEF DapInv, Control, Together, Served, Locked, Known, Before, Ends, Stops
  <2> QED
    BY <2>4, <2>5, <2>6 DEF DapInv
<1>3. CASE Announce
  <2>1. /\ at = "serving" /\ pending = Nobody /\ view' = "stopped" /\ told' = TRUE /\ at' = "loop"
        /\ UNCHANGED <<phase, live, reason, async, running, flag, reader, asked, inbox, now, pending,
                       detached, noDebug, stopOnEntry>>
        /\ \/ pauseSeq # Nobody /\ Reply(pauseSeq) /\ pauseSeq' = Nobody
           \/ UNCHANGED <<pauseSeq, replies>>
    BY <1>3 DEF Announce, debuggee, reading, launch
  <2>2. Accounts' /\ replies' \in [1..MaxSeq -> Nat]
    <3>1. CASE pauseSeq # Nobody /\ Reply(pauseSeq) /\ pauseSeq' = Nobody
      <4>1. PICK i : i = pauseSeq
        OBVIOUS
      <4> QED
        BY <2>1, <3>1, <4>1, OwedAnswered
    <3>2. CASE UNCHANGED <<pauseSeq, replies>>
      <4>1. Busy' = Busy
        BY <2>1 DEF Busy
      <4> QED
        BY <2>1, <3>2, <4>1, SameAccounts DEF DapInv, Types
    <3> QED
      BY <2>1, <3>1, <3>2
  <2>3. Types'
    BY <1>0, <2>1, <2>2 DEF DapInv, Types, Nobody
  <2>4. Control'
    BY <2>1 DEF DapInv, Control, Together, Served, Locked, Known, Before, Ends, Stops
  <2> QED
    BY <2>2, <2>3, <2>4 DEF DapInv
<1>4. CASE Settle
  <2>1. /\ at = "settling" /\ pauseSeq' = Nobody /\ view' = "terminated" /\ at' = "terminated"
        /\ UNCHANGED <<phase, live, reason, async, running, flag, reader, asked, inbox, now, pending,
                       detached, noDebug, stopOnEntry, told>>
        /\ \/ pauseSeq # Nobody /\ Reply(pauseSeq)
           \/ pauseSeq = Nobody /\ UNCHANGED replies
    BY <1>4 DEF Settle, debuggee, reading, launch
  <2>2. Accounts' /\ replies' \in [1..MaxSeq -> Nat]
    <3>1. CASE pauseSeq # Nobody /\ Reply(pauseSeq)
      <4>1. PICK i : i = pauseSeq
        OBVIOUS
      <4> QED
        BY <2>1, <3>1, <4>1, OwedAnswered
    <3>2. CASE pauseSeq = Nobody /\ UNCHANGED replies
      <4>1. Busy' = Busy
        BY <2>1 DEF Busy
      <4> QED
        BY <2>1, <3>2, <4>1, SameAccounts DEF DapInv, Types
    <3> QED
      BY <2>1, <3>1, <3>2
  <2>3. Types'
    BY <1>0, <2>1, <2>2 DEF DapInv, Types, Nobody
  <2>4. Control'
    BY <2>1 DEF DapInv, Control, Together, Served, Locked, Known, Before, Ends, Stops
  <2> QED
    BY <2>2, <2>3, <2>4 DEF DapInv
<1> QED
  BY <1>1, <1>2, <1>3, <1>4

\* The requests of a parked stop.
LEMMA LoopStep ==
    ASSUME DapInv, Answer \/ Evaluate \/ MarkRunning \/ Leave
    PROVE  DapInv'
<1>1. at = "loop" /\ inbox # << >> /\ inbox' = Tail(inbox)
  BY DEF Answer, Evaluate, MarkRunning, Leave, Parked, Take
<1>2. /\ inbox' \in Seq(Message)
      /\ \A k \in DOMAIN inbox' : inbox'[k].late => inbox'[k].cmd # "pause"
  BY <1>1, HeadAlone, TailOnTime DEF Ends
<1>3. now = Nobody /\ pending = Nobody /\ phase = "parked"
  BY <1>1 DEF DapInv, Control, Served, Together, Before, Stops, Ends
<1>4. PICK i : i = Head(inbox).id
  OBVIOUS
<1>5. i \in 1..Len(asked) /\ Head(inbox).cmd = asked[i] /\ i # Nobody
  BY <1>1, <1>4, HeadAlone DEF Nobody
<1>6. CASE Answer
  <2>1. /\ Reply(Head(inbox).id)
        /\ UNCHANGED <<phase, live, reason, async, running, flag, pauseSeq, reader, asked, at, now,
                       pending, detached, noDebug, stopOnEntry, view, told>>
    BY <1>6 DEF Answer, debuggee, bridge, reading, main, launch
  <2>2. Accounts' /\ replies' \in [1..MaxSeq -> Nat]
    BY <1>1, <1>3, <2>1, HeadAnswered
  <2>3. Types'
    BY <1>2, <2>1, <2>2 DEF DapInv, Types
  <2>4. Control'
    BY <1>2, <2>1 DEF DapInv, Control, Together, Served, Locked, Known
  <2> QED
    BY <2>2, <2>3, <2>4 DEF DapInv
<1>7. CASE Evaluate
  <2>1. /\ pending' = Head(inbox).id /\ at' = "evaluating" /\ Head(inbox).cmd = "evaluate"
        /\ UNCHANGED <<phase, live, reason, async, running, flag, pauseSeq, reader, asked, now,
                       detached, noDebug, stopOnEntry, replies, view, told>>
    BY <1>7 DEF Evaluate, Parked, debuggee, bridge, reading, launch, client
  <2>2. Accounts' /\ {now', pending'} \subseteq 0..Len(asked)
    BY <1>1, <1>3, <2>1, HeadKept
  <2>3. Types'
    BY <1>2, <2>1, <2>2 DEF DapInv, Types
  <2>4. Control'
    <3>1. Served'
      BY <1>1, <1>3, <1>4, <1>5, <2>1 DEF Served, Before
    <3>2. Together' /\ Locked' /\ Known'
      BY <1>1, <1>2, <1>3, <2>1 DEF DapInv, Control, Together, Locked, Known, Before, Ends, Stops
    <3> QED
      BY <3>1, <3>2 DEF Control
  <2> QED
    BY <2>2, <2>3, <2>4 DEF DapInv
<1>8. CASE MarkRunning
  <2>1. /\ now' = Head(inbox).id /\ at' = "marked" /\ Head(inbox).cmd \in Resumes /\ running' = TRUE
        /\ UNCHANGED <<phase, live, reason, async, flag, pauseSeq, reader, asked, pending,
                       detached, noDebug, stopOnEntry, replies, view, told>>
    BY <1>8 DEF MarkRunning, Parked, debuggee, reading, launch, client
  <2>2. Accounts' /\ {now', pending'} \subseteq 0..Len(asked)
    BY <1>1, <1>3, <2>1, HeadKept
  <2>3. Types'
    BY <1>2, <2>1, <2>2 DEF DapInv, Types
  <2>4. Control'
    <3>1. Served'
      BY <1>1, <1>3, <1>4, <1>5, <2>1 DEF Served, Before
    <3>2. Together' /\ Locked' /\ Known'
      BY <1>1, <1>2, <1>3, <2>1 DEF DapInv, Control, Together, Locked, Known, Before, Ends, Stops
    <3> QED
      BY <3>1, <3>2 DEF Control
  <2> QED
    BY <2>2, <2>3, <2>4 DEF DapInv
<1>9. CASE Leave
  <2>1. /\ Reply(Head(inbox).id) /\ phase' = "free" /\ live' = FALSE /\ running' = TRUE
        /\ detached' = (Head(inbox).cmd = "detach") /\ view' = "ending" /\ at' = "running"
        /\ UNCHANGED <<reason, async, flag, pauseSeq, reader, asked, now, pending, noDebug,
                       stopOnEntry, told>>
    BY <1>9 DEF Leave, Ended, reading, launch
  <2>2. Accounts' /\ replies' \in [1..MaxSeq -> Nat]
    BY <1>1, <1>3, <2>1, HeadAnswered
  <2>3. Types'
    BY <1>2, <2>1, <2>2 DEF DapInv, Types
  <2>4. Control'
    BY <1>1, <1>2, <1>3, <2>1
       DEF DapInv, Control, Together, Served, Locked, Known, Before, Ends, Stops
  <2> QED
    BY <2>2, <2>3, <2>4 DEF DapInv
<1> QED
  BY <1>6, <1>7, <1>8, <1>9

-----------------------------------------------------------------------------
(* The invariant, and what it says. *)

LEMMA DapBegins ==
    ASSUME DapInit
    PROVE  DapInv
<1>1. asked \in Seq(Requests) /\ Len(asked) = 0 /\ DOMAIN asked = {}
  BY DEF DapInit
<1>2. inbox \in Seq(Message) /\ DOMAIN inbox = {}
  BY DEF DapInit
<1>3. Types
  <2>1. {running, flag, detached, noDebug, stopOnEntry, async, live, told} \subseteq BOOLEAN
    BY DEF DapInit, Begin
  <2>2. replies \in [1..MaxSeq -> Nat]
    BY DEF DapInit
  <2>3. {pauseSeq, now, pending} \subseteq 0..Len(asked)
    BY <1>1 DEF DapInit, Nobody
  <2>4. Len(asked) <= MaxSeq
    BY <1>1, DapAssumption
  <2>5. reader \in {"framing", "sawRunning", "flagged", "gone"}
    BY DEF DapInit
  <2> QED
    BY <1>1, <1>2, <2>1, <2>2, <2>3, <2>4, <2>5 DEF Types
<1>4. Control
  BY <1>2 DEF DapInit, Begin, Control, Together, Served, Locked, Known, Before, Ends, Nobody
<1>5. ~Busy
  BY DEF DapInit, Busy
<1>6. Pauses /\ Queued
  BY <1>2, <1>5 DEF DapInit, Pauses, Queued
<1>7. Counted /\ Ordered
  BY <1>1 DEF DapInit, Counted, Ordered
<1> QED
  BY <1>3, <1>4, <1>6, <1>7 DEF DapInv, Accounts

LEMMA DapStep ==
    ASSUME DapInv, [DapNext]_dapVars
    PROVE  DapInv'
<1>1. CASE Reader
  BY <1>1, ReaderStep
<1>2. CASE Adapter
  BY <1>2, ConverseStep, QuietStep, OwedStep, LoopStep DEF Adapter
<1>3. CASE RunsOn \/ Evaluated
  BY <1>3, DebuggeeStep
<1>4. CASE UNCHANGED dapVars
  <2>1. UNCHANGED <<phase, live, reason, async, running, flag, pauseSeq, reader, asked, inbox, at, now,
                    pending, detached, noDebug, stopOnEntry, replies, view, told>>
    BY <1>4 DEF dapVars, debuggee, bridge, reading, main, launch, client
  <2>2. Busy' = Busy
    BY <2>1 DEF Busy
  <2>3. Accounts'
    BY <2>1, <2>2, SameAccounts
  <2>4. Types' /\ Control'
    BY <2>1 DEF DapInv, Types, Control, Together, Served, Locked, Known
  <2> QED
    BY <2>3, <2>4 DEF DapInv
<1> QED
  BY <1>1, <1>2, <1>3, <1>4 DEF DapNext

\* The invariant of the adapter: the two threads are where the debuggee and the
\* lock of session_flag allow, and every request is accounted for.
THEOREM DapInvariant == DapSpec => []DapInv
<1>1. DapInit => DapInv
  BY DapBegins
<1>2. DapInv /\ [DapNext]_dapVars => DapInv'
  BY DapStep
<1> QED
  BY <1>1, <1>2, PTL DEF DapSpec

\* A request that waits does so in one place.
LEMMA OnePlace ==
    ASSUME DapInv, NEW i \in DOMAIN asked
    PROVE  IF IsWaiting(i) THEN \E p \in Waiting(i) : Waiting(i) = {p} ELSE Waiting(i) = {}
<1>1. /\ Len(asked) \in Nat /\ DOMAIN asked = 1..Len(asked) /\ {now, pending, pauseSeq} \subseteq Nat
      /\ inbox \in Seq(Message) /\ i # Nobody
  BY TypeFacts DEF Nobody
<1>2. DOMAIN inbox \subseteq Nat
  BY <1>1
<1>3. \A p : p \in Waiting(i) <=>
          \/ p = "now" /\ now = i
          \/ p = "pending" /\ pending = i
          \/ p = "pause" /\ pauseSeq = i
          \/ p = "reader" /\ i = Len(asked) /\ Busy
          \/ p \in DOMAIN inbox /\ inbox[p].id = i
  BY DEF Waiting, Busy
<1>4. /\ now # Nobody => asked[now] \in Resumes
      /\ pending # Nobody => asked[pending] = "evaluate"
      /\ pauseSeq # Nobody => asked[pauseSeq] = "pause"
      /\ Busy => asked[Len(asked)] = "pause" /\ pauseSeq < Len(asked)
  BY DEF DapInv, Control, Served, Accounts, Pauses
<1>5. \A k \in DOMAIN inbox : /\ now < inbox[k].id /\ pending < inbox[k].id /\ inbox[k].id # pauseSeq
                              /\ Busy => inbox[k].id < Len(asked)
                              /\ inbox[k].id \in 1..Len(asked)
  BY DEF DapInv, Accounts, Pauses, Queued
<1>6. \A k, l \in DOMAIN inbox : inbox[k].id = inbox[l].id => k = l
  <2>1. \A k, l \in DOMAIN inbox : k < l => inbox[k].id < inbox[l].id
    BY DEF DapInv, Accounts, Queued
  <2>2. \A k \in DOMAIN inbox : inbox[k].id \in Nat
    BY <1>1, <1>5
  <2> QED
    BY <1>2, <2>1, <2>2
<1>7. CASE \E k \in DOMAIN inbox : inbox[k].id = i
  <2>1. PICK k \in DOMAIN inbox : inbox[k].id = i
    BY <1>7
  <2>2. now # i /\ pending # i /\ pauseSeq # i /\ ~(i = Len(asked) /\ Busy)
    BY <1>1, <1>5, <2>1
  <2>3. Waiting(i) = {k}
    BY <1>3, <1>6, <2>1, <2>2
  <2> QED
    BY <2>1, <2>3 DEF IsWaiting
<1>8. CASE ~\E k \in DOMAIN inbox : inbox[k].id = i
  <2>1. CASE now = i
    <3>1. pending # i /\ pauseSeq # i /\ ~(i = Len(asked) /\ Busy)
      BY <1>1, <1>4, <2>1 DEF Resumes
    <3>2. Waiting(i) = {"now"}
      BY <1>3, <1>8, <2>1, <3>1
    <3> QED
      BY <2>1, <3>2 DEF IsWaiting
  <2>2. CASE pending = i
    <3>1. now # i /\ pauseSeq # i /\ ~(i = Len(asked) /\ Busy)
      BY <1>1, <1>4, <2>2 DEF Resumes
    <3>2. Waiting(i) = {"pending"}
      BY <1>3, <1>8, <2>2, <3>1
    <3> QED
      BY <2>2, <3>2 DEF IsWaiting
  <2>3. CASE pauseSeq = i
    <3>1. now # i /\ pending # i /\ ~(i = Len(asked) /\ Busy)
      BY <1>1, <1>4, <2>3 DEF Resumes
    <3>2. Waiting(i) = {"pause"}
      BY <1>3, <1>8, <2>3, <3>1
    <3> QED
      BY <2>3, <3>2 DEF IsWaiting
  <2>4. CASE i = Len(asked) /\ Busy
    <3>1. now # i /\ pending # i /\ pauseSeq # i
      BY <1>1, <1>4, <2>4 DEF Resumes
    <3>2. Waiting(i) = {"reader"}
      BY <1>3, <1>8, <2>4, <3>1
    <3> QED
      BY <2>4, <3>2 DEF IsWaiting
  <2>5. CASE now # i /\ pending # i /\ pauseSeq # i /\ ~(i = Len(asked) /\ Busy)
    <3>1. Waiting(i) = {}
      BY <1>3, <1>8, <2>5
    <3> QED
      BY <1>8, <2>5, <3>1 DEF IsWaiting
  <2> QED
    BY <2>1, <2>2, <2>3, <2>4, <2>5
<1> QED
  BY <1>7, <1>8

\* An answered request has left behind none that was sent before it.
LEMMA InOrder ==
    ASSUME DapInv, NEW j \in DOMAIN asked, NEW i \in 1..j, replies[j] > 0,
           asked[i] # "pause", asked[j] # "pause"
    PROVE  replies[i] > 0 \/ i = pending
<1>1. /\ Len(asked) \in Nat /\ DOMAIN asked = 1..Len(asked) /\ {now, pending, pauseSeq} \subseteq Nat
      /\ inbox \in Seq(Message)
  BY TypeFacts
<1>2. i \in DOMAIN asked /\ i <= j /\ i # Nobody
  BY <1>1 DEF Nobody
<1>3. SUFFICES ASSUME i # pending, IsWaiting(i) PROVE FALSE
  <2>1. replies[i] \in {0, 1} /\ (~IsWaiting(i) => replies[i] = 1 \/ Superseded(i))
    BY <1>2 DEF DapInv, Accounts, Counted
  <2> QED
    BY <2>1 DEF Superseded
<1>4. /\ now # Nobody => j < now
      /\ \A k \in DOMAIN inbox : j < inbox[k].id
  BY DEF DapInv, Accounts, Ordered
<1>5. /\ pauseSeq # Nobody => asked[pauseSeq] = "pause"
      /\ Busy => asked[Len(asked)] = "pause"
  BY DEF DapInv, Accounts, Pauses
<1>6. now # i
  BY <1>1, <1>2, <1>4
<1>7. \A k \in DOMAIN inbox : inbox[k].id # i
  BY <1>1, <1>2, <1>4
<1> QED
  BY <1>2, <1>3, <1>5, <1>6, <1>7 DEF IsWaiting

\* The variables of the adapter keep their types, and the debuggee is parked
\* exactly while the main thread serves a stop of it.
THEOREM DapTyped == DapSpec => []DapTypeOK
<1>1. DapInv => DapTypeOK
  <2> SUFFICES ASSUME DapInv PROVE DapTypeOK
    OBVIOUS
  <2>2. /\ {running, flag, detached, noDebug, stopOnEntry, async, live} \subseteq BOOLEAN
        /\ {pauseSeq, now, pending} \subseteq 0..Len(asked)
    BY DEF DapInv, Types
  <2>3. /\ \A i \in DOMAIN asked : asked[i] \in Requests
        /\ \A k \in DOMAIN inbox : inbox[k].id \in 1..Len(asked)
    BY TypeFacts DEF DapInv, Accounts, Queued
  <2>4. /\ phase \in {"starting", "free", "parked", "over"}
        /\ phase = "parked" <=> at \in {"serving", "loop", "evaluating", "marked"}
    BY DEF DapInv, Control, Together, Before, Stops, Ends
  <2> QED
    BY <2>2, <2>3, <2>4 DEF DapTypeOK
<1> QED
  BY <1>1, DapInvariant, PTL

\* Every request of a conversation is answered at most once and until then
\* waits in one place; only a pause may be forgotten, for a later one; and
\* requests other than pause are answered in the order they were sent.
THEOREM RequestsAreAccounted == DapSpec => []RequestsAccounted
<1>1. DapInv => RequestsAccounted
  <2> SUFFICES ASSUME DapInv PROVE RequestsAccounted
    OBVIOUS
  <2>2. ASSUME NEW i \in DOMAIN asked
        PROVE  \/ replies[i] = 1 /\ Waiting(i) = {}
               \/ replies[i] = 0 /\ \E p \in Waiting(i) : Waiting(i) = {p}
               \/ replies[i] = 0 /\ Superseded(i)
    <3>1. /\ replies[i] \in {0, 1}
          /\ IsWaiting(i) => replies[i] = 0
          /\ ~IsWaiting(i) => replies[i] = 1 \/ Superseded(i)
      BY DEF DapInv, Accounts, Counted
    <3> QED
      BY <3>1, OnePlace
  <2>3. ASSUME NEW j \in DOMAIN asked, NEW i \in 1..j, replies[j] > 0,
               "pause" \notin {asked[i], asked[j]}
        PROVE  replies[i] > 0 \/ i = pending
    BY <2>3, InOrder
  <2> QED
    BY <2>2, <2>3 DEF RequestsAccounted
<1> QED
  BY <1>1, DapInvariant, PTL

\* Once terminated has been sent no pause is owed a reply and none is noted any
\* more: the lock of session_flag keeps the reader from slipping one in.
THEOREM PausesAreSettled == DapSpec => []PauseIsSettled
<1>1. DapInv => PauseIsSettled
  BY DEF DapInv, Control, Locked, PauseIsSettled
<1> QED
  BY <1>1, DapInvariant, PTL

\* A pause sent after the answer to a resume is never queued behind the run.
THEOREM PausesNeverQueue == DapSpec => []PauseNeverQueues
<1>1. DapInv => PauseNeverQueues
  BY DEF DapInv, Control, Known, PauseNeverQueues, Ends
<1> QED
  BY <1>1, DapInvariant, PTL

-----------------------------------------------------------------------------
(* Stops are announced. *)

\* The evaluations that leave a stop also end the session: no function returns
\* out of the stop it is evaluated at.
NoReturn == "return" \notin Outcomes

LEMMA AnnouncedStep ==
    ASSUME NoReturn, DapInv, Announced, [DapNext]_dapVars
    PROVE  Announced'
<1>1. at \in Before \cup {"loop", "marked"} => pending = Nobody
  BY DEF DapInv, Control, Served
<1>2. CASE Reader
  <2>1. UNCHANGED <<at, pending, told, live>>
    BY <1>2 DEF Reader, Frame, RaiseFlag, QueuePause, NotePause, HangUp, debuggee, main, client
  <2> QED
    BY <2>1 DEF Announced
<1>3. CASE Converse
  <2>1. Conversing /\ at' \in After(Head(inbox).cmd)
    BY <1>3 DEF Converse, Take
  <2>2. at' \in Before \cup {"terminated", "over"}
    <3>1. PICK c : c = Head(inbox).cmd
      OBVIOUS
    <3> QED
      BY <2>1, <3>1, AfterPlaces
  <2> QED
    BY <2>2 DEF Announced, Before
<1>4. CASE ClientGone \/ StartFails \/ EndRun \/ ClearFlag \/ Settle
  <2>1. at' \in {"over", "clearing", "settling", "terminated"}
    BY <1>4 DEF ClientGone, StartFails, EndRun, ClearFlag, Settle
  <2> QED
    BY <2>1 DEF Announced
<1>5. CASE Start \/ SkipEntry \/ RespondAndResume
  <2>1. pending = Nobody /\ pending' = pending /\ at' = "running"
    BY <1>1, <1>5 DEF Start, SkipEntry, RespondAndResume, Before
  <2> QED
    BY <2>1 DEF Announced
<1>6. CASE ServeAgain \/ Announce
  <2>1. at' = "loop" /\ told'
    BY <1>6 DEF ServeAgain, Announce, Announced
  <2> QED
    BY <2>1 DEF Announced
<1>7. CASE Answer \/ Evaluate \/ MarkRunning
  <2>1. at = "loop" /\ at' \in {"loop", "evaluating", "marked"} /\ told' = told
    BY <1>7 DEF Answer, Evaluate, MarkRunning, Parked, main, client
  <2> QED
    BY <2>1 DEF Announced
<1>8. CASE Leave \/ Abandon
  <2>1. at' = "running" /\ ~live'
    BY <1>8 DEF Leave, Abandon, Ended
  <2> QED
    BY <2>1 DEF Announced
<1>9. CASE RunsOn
  <2>1. pending' = pending /\ at = "running"
    BY <1>9 DEF RunsOn
  <2>2. CASE (ServeEntry \/ Park) /\ at' = "serving"
    <3>1. live
      BY <2>2 DEF ServeEntry, Park
    <3> QED
      BY <2>1, <2>2, <3>1 DEF Announced
  <2>3. CASE (Absorb \/ ExitNoted) /\ at' = at
    <3>1. live' = live \/ ~live'
      BY <2>3 DEF Absorb, ExitNoted
    <3> QED
      BY <2>1, <2>3, <3>1 DEF Announced
  <2>4. CASE at' = "epilogue"
    BY <2>4 DEF Announced
  <2> QED
    BY <1>9, <2>2, <2>3, <2>4 DEF RunsOn
<1>10. CASE Evaluated
  <2>1. at = "evaluating" /\ told' = told /\ pending' = pending
    BY <1>10 DEF Evaluated, client
  <2>2. at' = "serving" \/ (at' = "running" /\ ~live')
    BY <1>10 DEF Evaluated, Ended, NoReturn
  <2> QED
    BY <2>1, <2>2 DEF Announced
<1>11. CASE UNCHANGED dapVars
  BY <1>11 DEF Announced, dapVars, debuggee, main, client
<1> QED
  BY <1>2, <1>3, <1>4, <1>5, <1>6, <1>7, <1>8, <1>9, <1>10, <1>11 DEF DapNext, Adapter

\* Where evaluations do not return out of their stop, a client is told of every
\* stop before its requests are served.
THEOREM StopsAreTold == ASSUME NoReturn PROVE DapSpec => []StopsAreAnnounced
<1>1. DapInit => Announced
  BY DEF DapInit, Announced, Nobody
<1>2. DapInv /\ Announced /\ [DapNext]_dapVars => Announced'
  BY AnnouncedStep
<1>3. Announced => StopsAreAnnounced
  BY DEF Announced, StopsAreAnnounced
<1> QED
  BY <1>1, <1>2, <1>3, DapInvariant, PTL DEF DapSpec
=============================================================================
