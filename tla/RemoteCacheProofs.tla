----------------------- MODULE RemoteCacheProofs -----------------------
(***************************************************************************)
(* What reading through the cache guarantees for any number of locations   *)
(* and base paths, any contents, and any retry time.                       *)
(***************************************************************************)
EXTENDS RemoteCacheFetch, SequenceTheorems, TLAPS

\* The step of every action keeps the types.  The file of the call is a
\* sequence whenever there is one.
LEMMA FileType ==
  ASSUME TypeOK
  PROVE  /\ File \in Seq(Blocks) \cup {Absent}
         /\ Good[req.location] \in Seq(Blocks)
         /\ req.location \in Locations
         /\ req.base \in Nat
BY GoodAssumption, NumbersAssumption DEF TypeOK, File

LEMMA PrefixType ==
  ASSUME NEW s \in Seq(Blocks), NEW n \in 0..Len(s)
  PROVE  SubSeq(s, 1, n) \in Seq(Blocks)
<1>1. \A i \in 1..n : s[i] \in Blocks
  BY LenProperties, ElementOfSeq
<1> QED
  BY <1>1, LenProperties, SubSeqProperties, 1 \in Int, n \in Int

LEMMA PauseType ==
  ASSUME TypeOK, ~Expired
  PROVE  Pause \in Nat /\ Pause <= RetrySeconds - transfer.duration
BY NumbersAssumption DEF TypeOK, Expired, Pause

\* The next base path, if there is one left.
LEMMA TryNextType ==
  ASSUME TypeOK, req.base <= Bases, TryNext
  PROVE  /\ req' \in [location : Locations, checked : BOOLEAN,
                      base : 1..Bases + 1]
         /\ req'.location = req.location /\ req'.checked = req.checked
BY NumbersAssumption DEF TypeOK, TryNext

LEMMA PerformType ==
  ASSUME TypeOK, pc = "perform",
         NEW arrived \in Seq(Blocks), NEW outcome \in Outcomes,
         Perform(arrived, outcome), faulted' \in BOOLEAN
  PROVE  TypeOK'
<1>2. Appended(arrived) \in Seq(Blocks) \cup {Absent}
  <2>1. CASE File = Absent
    BY <2>1 DEF Appended
  <2>2. CASE File \in Seq(Blocks)
    BY <2>2, ConcatProperties DEF Appended
  <2> QED
    BY <2>1, <2>2, FileType
<1>3. /\ cache' = [cache EXCEPT ![req.location] = Appended(arrived)]
      /\ UNCHANGED <<served, req, answer>> /\ pc' = "decide"
  BY DEF Perform
<1>4. cache' \in [Locations -> Seq(Blocks) \cup {Absent}]
  BY <1>2, <1>3 DEF TypeOK
<1>6. transfer' \in [elapsed : Nat, duration : Nat, sleep : Nat, slept : Nat,
                     outcome : Outcomes]
  <2>1. PICK seconds \in 0..MaxSeconds :
          transfer' = [transfer EXCEPT !.duration = transfer.elapsed,
                                       !.elapsed = @ + seconds,
                                       !.outcome = outcome]
    BY DEF Perform
  <2>2. /\ transfer.elapsed \in Nat
        /\ transfer \in [elapsed : Nat, duration : Nat, sleep : Nat,
                         slept : Nat, outcome : Outcomes]
    BY DEF TypeOK
  <2>3. transfer.elapsed + seconds \in Nat
    BY <2>2, NumbersAssumption
  <2> QED
    BY <2>1, <2>2, <2>3
<1> QED
  BY <1>3, <1>4, <1>6 DEF TypeOK, Points

LEMMA InitTypes == Init => TypeOK
<1> SUFFICES ASSUME Init PROVE TypeOK
  OBVIOUS
<1>1. FreshTransfer \in [elapsed : Nat, duration : Nat, sleep : Nat,
                         slept : Nat, outcome : Outcomes]
  BY DEF FreshTransfer, Outcomes
<1>2. req \in [location : Locations, checked : BOOLEAN, base : 1..Bases + 1]
  <2>1. 1 \in 1..Bases + 1
    BY NumbersAssumption
  <2> QED
    BY <2>1 DEF Init
<1> QED
  BY <1>1, <1>2 DEF Init, TypeOK, Points, NoAnswer

LEMMA NextTypes == TypeOK /\ [Next]_vars => TypeOK'
<1> SUFFICES ASSUME TypeOK, [Next]_vars PROVE TypeOK'
  OBVIOUS
<1>0. CASE UNCHANGED vars
  BY <1>0 DEF vars, TypeOK, File
<1>1. ASSUME NEW l \in Locations, NEW checked \in BOOLEAN, Ask(l, checked)
      PROVE TypeOK'
  <2>1. 1 \in 1..Bases + 1
    BY NumbersAssumption
  <2> QED
    BY <1>1, <2>1 DEF Ask, TypeOK, Points
<1>2. CASE GiveUp
  BY <1>2 DEF GiveUp, TypeOK, Answer, Points
<1>3. CASE UseCached
  BY <1>3 DEF UseCached, TypeOK, Points, File
<1>4. CASE DropCached
  BY <1>4 DEF DropCached, TypeOK, Points
<1>5. CASE Refuse
  <2>1. req.base <= Bases
    BY <1>5 DEF Refuse, TypeOK
  <2> QED
    BY <1>5, <2>1, TryNextType DEF Refuse, TryNext, TypeOK, Points
<1>6. CASE Open \/ OpenUnnoticed
  <2>1. FreshTransfer \in [elapsed : Nat, duration : Nat, sleep : Nat,
                           slept : Nat, outcome : Outcomes]
    BY DEF FreshTransfer, Outcomes
  <2>2. <<>> \in Seq(Blocks)
    BY EmptySeq
  <2>3. cache' \in [Locations -> Seq(Blocks) \cup {Absent}]
    BY <1>6, <2>2 DEF Open, OpenUnnoticed, TypeOK
  <2> QED
    BY <1>6, <2>1, <2>3 DEF Open, OpenUnnoticed, TypeOK, Points
<1>7. CASE Complete
  <2>1. Offered \in Seq(Blocks)
    BY <1>7, ContentsAssumption, NumbersAssumption
    DEF Complete, Offered, TypeOK
  <2> QED
    BY <1>7, <2>1, PerformType DEF Complete, Outcomes, TypeOK
<1>8. CASE NotFound
  BY <1>8, PerformType, EmptySeq DEF NotFound, Outcomes, TypeOK
<1>8a. CASE WriteLost
  <2>1. Offered \in Seq(Blocks)
    BY <1>8a, ContentsAssumption, NumbersAssumption
    DEF WriteLost, Offered, TypeOK
  <2>2. PICK n \in 0..Len(Offered) : Perform(SubSeq(Offered, 1, n), "OK")
    BY <1>8a DEF WriteLost
  <2>3. SubSeq(Offered, 1, n) \in Seq(Blocks)
    BY <2>1, PrefixType
  <2>4. pc = "perform" /\ faulted' \in BOOLEAN /\ "OK" \in Outcomes
    BY <1>8a DEF WriteLost, Outcomes
  <2> QED
    BY <2>2, <2>3, <2>4, PerformType
<1>9. CASE BreakOff
  <2>1. PICK outcome \in {"RECV_ERROR", "OTHER_ERROR"} :
          \/ Offered = Absent /\ Perform(<<>>, outcome)
          \/ /\ Offered # Absent
             /\ \E n \in 0..Len(Offered) :
                  Perform(SubSeq(Offered, 1, n), outcome)
    BY <1>9 DEF BreakOff
  <2>2. outcome \in Outcomes
    BY DEF Outcomes
  <2>3. pc = "perform" /\ faulted' \in BOOLEAN
    BY <1>9 DEF BreakOff
  <2>4. CASE Perform(<<>>, outcome)
    BY <2>2, <2>3, <2>4, PerformType, EmptySeq
  <2>5. CASE /\ Offered # Absent
             /\ \E n \in 0..Len(Offered) :
                  Perform(SubSeq(Offered, 1, n), outcome)
    <3>1. Offered \in Seq(Blocks)
      BY <2>3, <2>5, ContentsAssumption, NumbersAssumption DEF Offered, TypeOK
    <3>2. PICK n \in 0..Len(Offered) : Perform(SubSeq(Offered, 1, n), outcome)
      BY <2>5
    <3>3. SubSeq(Offered, 1, n) \in Seq(Blocks)
      BY <3>1, PrefixType
    <3> QED
      BY <2>2, <2>3, <3>2, <3>3, PerformType
  <2> QED
    BY <2>1, <2>4, <2>5
<1>10. CASE Downloaded
  BY <1>10 DEF Downloaded, TypeOK, Points, File
<1>11. CASE DownloadFails
  <2>1. req.base <= Bases
    BY <1>11 DEF DownloadFails, TypeOK
  <2> QED
    BY <1>11, <2>1, TryNextType DEF DownloadFails, TryNext, TypeOK, Points
<1>12. CASE Retry
  <2>1. Pause \in Nat
    BY <1>12, PauseType DEF Retry
  <2>2. /\ transfer.elapsed + Pause \in Nat
        /\ transfer.slept + Pause \in Nat
        /\ transfer.sleep * 2 \in Nat
    BY <2>1 DEF TypeOK
  <2>3. transfer' \in [elapsed : Nat, duration : Nat, sleep : Nat,
                       slept : Nat, outcome : Outcomes]
    BY <1>12, <2>2 DEF Retry, TypeOK
  <2> QED
    BY <1>12, <2>3 DEF Retry, TypeOK, Points, File
<1>13. CASE Accept
  BY <1>13 DEF Accept, TypeOK, Points, File
<1>14. CASE Reject
  <2>1. req.base <= Bases
    BY <1>14 DEF Reject, TypeOK
  <2> QED
    BY <1>14, <2>1, TryNextType DEF Reject, TryNext, TypeOK, Points
<1>15. CASE Read
  BY <1>15 DEF Read, TypeOK, Points, Answer, File
<1>16. CASE ReadFails
  <2>1. req.base <= Bases
    BY <1>16 DEF ReadFails, TypeOK
  <2> QED
    BY <1>16, <2>1, TryNextType DEF ReadFails, TryNext, TypeOK, Points
<1>17. CASE Crash
  <2>1. cache' \in [Locations -> Seq(Blocks) \cup {Absent}]
    <3>1. CASE UNCHANGED cache
      BY <3>1 DEF TypeOK
    <3>2. CASE /\ File # Absent
               /\ \E n \in 0..Len(File) :
                    cache' = [cache EXCEPT ![req.location] = SubSeq(@, 1, n)]
      <4>1. File \in Seq(Blocks)
        BY <3>2, FileType DEF TypeOK
      <4>2. PICK n \in 0..Len(File) :
              cache' = [cache EXCEPT ![req.location] = SubSeq(File, 1, n)]
        BY <3>2 DEF File
      <4>3. SubSeq(File, 1, n) \in Seq(Blocks)
        BY <4>1, PrefixType
      <4> QED
        BY <4>2, <4>3 DEF TypeOK
    <3> QED
      BY <1>17, <3>1, <3>2 DEF Crash
  <2> QED
    BY <1>17, <2>1 DEF Crash, TypeOK, Points
<1> QED
  BY <1>0, <1>1, <1>2, <1>3, <1>4, <1>5, <1>6, <1>7, <1>8, <1>9, <1>10, <1>11,
     <1>12, <1>13, <1>14, <1>15, <1>16, <1>17, <1>8a DEF Next, Proceed

\* Every reachable state is well typed.
THEOREM TypeCorrect == SafeSpec => []TypeOK
BY InitTypes, NextTypes, PTL DEF SafeSpec
--------------------------------------------------------------------------
\* A checked call reads only a file that was compared, and nothing happens
\* to the file between the comparison and the read.
LEMMA NextVerified == VerifiedInv /\ [Next]_vars => VerifiedInv'
<1> SUFFICES ASSUME VerifiedInv, [Next]_vars
             PROVE  ReadIsVerified' /\ VerifiedDataIsExpected'
  BY NextTypes DEF VerifiedInv
<1> USE DEF VerifiedInv, ReadIsVerified, VerifiedDataIsExpected
<1>0. CASE UNCHANGED vars
  BY <1>0 DEF vars, File
<1>1. ASSUME NEW l \in Locations, NEW checked \in BOOLEAN, Ask(l, checked)
      PROVE ReadIsVerified' /\ VerifiedDataIsExpected'
  BY <1>1 DEF Ask
<1>2. CASE GiveUp
  BY <1>2 DEF GiveUp, Answer
<1>3. CASE UseCached
  BY <1>3 DEF UseCached, Matches, File
<1>4. CASE DropCached \/ Open \/ OpenUnnoticed
  BY <1>4 DEF DropCached, Open, OpenUnnoticed
<1>5. CASE Refuse \/ DownloadFails \/ Reject \/ ReadFails
  BY <1>5 DEF Refuse, DownloadFails, Reject, ReadFails, TryNext
<1>6. CASE Complete \/ WriteLost \/ NotFound \/ BreakOff
  <2>1. PICK arrived, outcome : Perform(arrived, outcome)
    BY <1>6 DEF Complete, WriteLost, NotFound, BreakOff
  <2> QED
    BY <2>1 DEF Perform
<1>7. CASE Downloaded \/ Retry
  BY <1>7 DEF Downloaded, Retry
<1>8. CASE Accept
  BY <1>8 DEF Accept, Matches, File
<1>9. CASE Read
  BY <1>9 DEF Read, Answer
<1>10. CASE Crash
  BY <1>10 DEF Crash
<1> QED
  BY <1>0, <1>1, <1>2, <1>3, <1>4, <1>5, <1>6, <1>7, <1>8, <1>9, <1>10
  DEF Next, Proceed

LEMMA InitVerified == Init => VerifiedInv
<1> SUFFICES ASSUME Init PROVE VerifiedInv
  OBVIOUS
<1>1. ReadIsVerified /\ VerifiedDataIsExpected
  BY DEF Init, NoAnswer, ReadIsVerified, VerifiedDataIsExpected
<1> QED
  BY <1>1, InitTypes DEF VerifiedInv

\* Data that was asked for with a checksum is the genuine data, whatever
\* the cache held and whatever the servers and the network did.
THEOREM VerifiedCorrect == SafeSpec => []VerifiedDataIsExpected
<1>1. VerifiedInv => VerifiedDataIsExpected
  BY DEF VerifiedInv
<1> QED
  BY <1>1, InitVerified, NextVerified, PTL DEF SafeSpec
--------------------------------------------------------------------------
\* A call without a fault that is told to go on with the next base path was
\* at one that cannot satisfy it.
LEMMA TryNextInVain ==
  ASSUME TypeOK, TriedInVain, pc # "idle", ~faulted, req.base <= Bases,
         Useless(req.base, req.location, req.checked),
         TryNext, UNCHANGED <<served, faulted>>
  PROVE  TriedInVain'
<1>1. /\ req'.location = req.location /\ req'.checked = req.checked
      /\ req'.base = req.base + 1
      /\ req.base \in Nat
  BY NumbersAssumption DEF TryNext, TypeOK
<1>2. \A b \in 1..req.base : Useless(b, req.location, req.checked)
  BY <1>1 DEF TriedInVain
<1> QED
  BY <1>1, <1>2 DEF TriedInVain, Useless

LEMMA NextClean == CleanInv /\ [Next]_vars => CleanInv'
<1> SUFFICES ASSUME CleanInv, [Next]_vars
             PROVE  TriedInVain' /\ FileFollowsServer' /\ CleanRequestSucceeds'
  BY NextTypes DEF CleanInv
<1> DEFINE Goal == TriedInVain' /\ FileFollowsServer' /\ CleanRequestSucceeds'
<1>a. TypeOK /\ TriedInVain /\ FileFollowsServer /\ CleanRequestSucceeds
  BY DEF CleanInv
<1>b. /\ req.base \in Nat /\ req.location \in Locations /\ Bases \in Nat
      /\ req \in [location : Locations, checked : BOOLEAN, base : 1..Bases + 1]
      /\ cache \in [Locations -> Seq(Blocks) \cup {Absent}]
  BY <1>a, NumbersAssumption DEF TypeOK
<1>c. ASSUME UNCHANGED <<served, answer>>, faulted' PROVE CleanRequestSucceeds'
  BY <1>c DEF CleanRequestSucceeds
<1>d. ASSUME UNCHANGED <<served, answer, faulted>> PROVE CleanRequestSucceeds'
  BY <1>d, <1>a DEF CleanRequestSucceeds, Useless
<1>e. ASSUME faulted' PROVE TriedInVain' /\ FileFollowsServer'
  BY <1>e DEF TriedInVain, FileFollowsServer
<1>f. ASSUME UNCHANGED <<served, req, faulted>>, pc # "idle" PROVE TriedInVain'
  BY <1>f, <1>a DEF TriedInVain, Useless
<1>0. CASE UNCHANGED vars
  BY <1>0, <1>a DEF vars, TriedInVain, FileFollowsServer, CleanRequestSucceeds,
     Useless, File, Offered
<1>1. ASSUME NEW l \in Locations, NEW checked \in BOOLEAN, Ask(l, checked)
      PROVE Goal
  BY <1>1 DEF Ask, TriedInVain, FileFollowsServer, CleanRequestSucceeds
<1>2. CASE GiveUp
  <2>1. /\ pc = "check" /\ pc' = "idle" /\ req.base > Bases
        /\ answer' = Answer("FAILED_TO_OPEN_FILE", Absent)
        /\ UNCHANGED <<served, req, faulted>>
    BY <1>2 DEF GiveUp
  <2>2. ~faulted =>
          \A b \in 1..Bases : Useless(b, req.location, req.checked)
    BY <2>1, <1>a, <1>b DEF TriedInVain
  <2> QED
    BY <2>1, <2>2
    DEF Answer, TriedInVain, FileFollowsServer, CleanRequestSucceeds, Useless
<1>3. CASE UseCached
  BY <1>3, <1>d, <1>f DEF UseCached, FileFollowsServer
<1>4. CASE DropCached
  BY <1>4, <1>b, <1>d, <1>f DEF DropCached, FileFollowsServer, File
<1>5. CASE Refuse
  <2>1. faulted'
    BY <1>5, <1>a DEF Refuse, FileFollowsServer
  <2> QED
    BY <1>5, <2>1, <1>c, <1>e DEF Refuse
<1>6. CASE Open
  BY <1>6, <1>b, <1>d, <1>f DEF Open, FileFollowsServer, File
<1>6a. CASE OpenUnnoticed
  BY <1>6a, <1>c, <1>e DEF OpenUnnoticed
<1>7. CASE Complete
  <2>1. /\ pc = "perform" /\ pc' = "decide" /\ UNCHANGED <<served, req, answer, faulted>>
        /\ cache' = [cache EXCEPT ![req.location] = Appended(Offered)]
        /\ transfer'.outcome = "OK"
        /\ Offered # Absent
    BY <1>7, <1>a DEF Complete, Perform, TypeOK
  <2>2. ~faulted => File' = Offered'
    <3>1. ASSUME ~faulted PROVE Appended(Offered) = Offered
      <4>1. Offered \in Seq(Blocks)
        BY <2>1, <1>a, <1>b, ContentsAssumption DEF TypeOK, Offered
      <4>2. File = <<>> /\ File # Absent
        BY <2>1, <3>1, <1>a, EmptySeq, ContentsAssumption
        DEF FileFollowsServer
      <4> QED
        BY <4>1, <4>2, ConcatEmptySeq DEF Appended
    <3> QED
      BY <2>1, <3>1, <1>b DEF File, Offered
  <2> QED
    BY <2>1, <2>2, <1>d, <1>f DEF FileFollowsServer
<1>8. CASE WriteLost \/ BreakOff
  BY <1>8, <1>c, <1>e DEF WriteLost, BreakOff, Perform
<1>9. CASE NotFound
  BY <1>9, <1>a, <1>d, <1>f
  DEF NotFound, Perform, FileFollowsServer, TypeOK, Offered
<1>10. CASE Downloaded
  BY <1>10, <1>a, <1>d, <1>f DEF Downloaded, FileFollowsServer, File, Offered
<1>11. CASE DownloadFails
  <2>1. CASE faulted
    BY <2>1, <1>11, <1>c, <1>e DEF DownloadFails
  <2>2. CASE ~faulted
    <3>1. Offered = Absent
      BY <2>2, <1>11, <1>a DEF DownloadFails, FileFollowsServer
    <3>2. Useless(req.base, req.location, req.checked)
      BY <3>1, <1>b, GoodAssumption, ContentsAssumption DEF Useless, Offered
    <3>3. TriedInVain'
      BY <2>2, <3>2, <1>11, <1>a, TryNextInVain DEF DownloadFails, TypeOK
    <3> QED
      BY <3>3, <1>11, <1>d DEF DownloadFails, TryNext, FileFollowsServer
  <2> QED
    BY <2>1, <2>2
<1>12. CASE Retry
  <2>1. faulted
    BY <1>12, <1>a DEF Retry, Retryable, FileFollowsServer
  <2> QED
    BY <2>1, <1>12, <1>c, <1>e DEF Retry
<1>13. CASE Accept
  BY <1>13, <1>d, <1>f DEF Accept, FileFollowsServer
<1>14. CASE Reject
  <2>1. CASE faulted
    BY <2>1, <1>14, <1>c, <1>e DEF Reject
  <2>2. CASE ~faulted
    <3>1. Useless(req.base, req.location, req.checked)
      BY <2>2, <1>14, <1>a DEF Reject, Matches, FileFollowsServer, Useless, Offered
    <3>2. TriedInVain'
      BY <2>2, <3>1, <1>14, <1>a, TryNextInVain DEF Reject, TypeOK
    <3> QED
      BY <3>2, <1>14, <1>d DEF Reject, TryNext, FileFollowsServer
  <2> QED
    BY <2>1, <2>2
<1>15. CASE Read
  BY <1>15 DEF Read, Answer, TriedInVain, FileFollowsServer, CleanRequestSucceeds
<1>16. CASE ReadFails
  BY <1>16, <1>c, <1>e DEF ReadFails
<1>17. CASE Crash
  BY <1>17, <1>d DEF Crash, TriedInVain, FileFollowsServer
<1> QED
  BY <1>0, <1>1, <1>2, <1>3, <1>4, <1>5, <1>6, <1>6a, <1>7, <1>8, <1>9, <1>10,
     <1>11, <1>12, <1>13, <1>14, <1>15, <1>16, <1>17 DEF Next, Proceed

LEMMA InitClean == Init => CleanInv
<1> SUFFICES ASSUME Init PROVE CleanInv
  OBVIOUS
<1>1. TriedInVain /\ FileFollowsServer /\ CleanRequestSucceeds
  BY DEF Init, NoAnswer, TriedInVain, FileFollowsServer, CleanRequestSucceeds
<1> QED
  BY <1>1, InitTypes DEF CleanInv

\* A call that meets no fault of its own fails only when no base path can
\* satisfy it, whatever earlier calls and crashes have left in the cache.
THEOREM CleanCorrect == SafeSpec => []CleanRequestSucceeds
<1>1. CleanInv => CleanRequestSucceeds
  BY DEF CleanInv
<1> QED
  BY <1>1, InitClean, NextClean, PTL DEF SafeSpec
--------------------------------------------------------------------------
\* The pauses of one download: each is at most what remains of the retry
\* time, counted from a reading of the clock that has seen all before it.
LEMMA NextSleep == SleepInv /\ [Next]_vars => SleepInv'
<1> SUFFICES ASSUME SleepInv, [Next]_vars
             PROVE  SleptBefore' /\ SleepWithinPeriod'
  BY NextTypes DEF SleepInv
<1>a. /\ transfer.slept \in Nat /\ transfer.elapsed \in Nat
      /\ transfer.duration \in Nat /\ transfer.slept <= transfer.elapsed
      /\ transfer.slept <= RetrySeconds /\ RetrySeconds \in Nat
      /\ pc = "decide" => transfer.slept <= transfer.duration
      /\ transfer \in [elapsed : Nat, duration : Nat, sleep : Nat,
                       slept : Nat, outcome : Outcomes]
  BY NumbersAssumption DEF SleepInv, TypeOK, SleptBefore, SleepWithinPeriod
<1>1. CASE UNCHANGED transfer /\ (pc' = "decide" => pc = "decide")
  BY <1>1, <1>a DEF SleptBefore, SleepWithinPeriod
<1>2. CASE Open \/ OpenUnnoticed
  BY <1>2, NumbersAssumption
  DEF Open, OpenUnnoticed, FreshTransfer, SleptBefore, SleepWithinPeriod
<1>3. CASE Complete \/ WriteLost \/ NotFound \/ BreakOff
  <2>1. PICK arrived, outcome : Perform(arrived, outcome)
    BY <1>3 DEF Complete, WriteLost, NotFound, BreakOff
  <2>2. PICK seconds \in 0..MaxSeconds :
          transfer' = [transfer EXCEPT !.duration = transfer.elapsed,
                                       !.elapsed = @ + seconds,
                                       !.outcome = outcome]
    BY <2>1 DEF Perform
  <2>3. /\ transfer'.slept = transfer.slept
        /\ transfer'.duration = transfer.elapsed
        /\ transfer'.elapsed = transfer.elapsed + seconds
    BY <1>a, <2>2
  <2> QED
    BY <1>a, <2>3, NumbersAssumption DEF SleptBefore, SleepWithinPeriod
<1>4. CASE Retry
  <2>1. /\ transfer'.elapsed = transfer.elapsed + Pause
        /\ transfer'.slept = transfer.slept + Pause
        /\ pc = "decide" /\ pc' = "perform"
    BY <1>4, <1>a DEF Retry
  <2>2. Pause \in Nat /\ Pause <= RetrySeconds - transfer.duration
    BY <1>4, PauseType DEF Retry, SleepInv
  <2> QED
    BY <1>a, <2>1, <2>2 DEF SleptBefore, SleepWithinPeriod
<1>5. CASE Crash \/ UNCHANGED vars \/ GiveUp \/ UseCached \/ DropCached
           \/ Refuse \/ Downloaded \/ DownloadFails \/ Accept \/ Reject
           \/ Read \/ ReadFails
           \/ \E l \in Locations, checked \in BOOLEAN : Ask(l, checked)
  <2>1. UNCHANGED transfer /\ (pc' = "decide" => pc = "decide")
    BY <1>5 DEF Crash, vars, GiveUp, UseCached, DropCached, Refuse, TryNext,
                Downloaded, DownloadFails, Accept, Reject, Read, ReadFails, Ask
  <2> QED
    BY <1>1, <2>1
<1> QED
  BY <1>2, <1>3, <1>4, <1>5 DEF Next, Proceed

\* The pauses between attempts add up to at most the caller's retry time.
THEOREM SleepCorrect == SafeSpec => []SleepWithinPeriod
<1>1. Init => SleepInv
  <2> SUFFICES ASSUME Init PROVE SleepInv
    OBVIOUS
  <2>1. SleptBefore /\ SleepWithinPeriod
    BY NumbersAssumption
    DEF Init, FreshTransfer, SleptBefore, SleepWithinPeriod
  <2> QED
    BY <2>1, InitTypes DEF SleepInv
<1>2. SleepInv => SleepWithinPeriod
  BY DEF SleepInv
<1> QED
  BY <1>1, <1>2, NextSleep, PTL DEF SafeSpec
--------------------------------------------------------------------------
\* A cached file that matches is not touched outside a transfer.
THEOREM GoodFileCorrect == SafeSpec => GoodFileKept
<1>1. ASSUME TypeOK, [Next]_vars, req.checked, File = Good[req.location],
             pc \notin {"idle", "perform", "decide"}
      PROVE  UNCHANGED cache
  <2>1. File # Absent
    BY <1>1, FileType, ContentsAssumption
  <2>2. CASE pc = "check"
    BY <1>1, <2>1, <2>2
    DEF Next, Proceed, vars, Ask, GiveUp, UseCached, DropCached, Matches,
        Refuse, Open, OpenUnnoticed, Complete, WriteLost, NotFound, BreakOff,
        Downloaded, DownloadFails,
        Retry, Accept, Reject, Read, ReadFails, Crash
  <2>3. CASE pc # "check"
    BY <1>1, <2>1, <2>3
    DEF Next, Proceed, vars, Ask, GiveUp, UseCached, DropCached,
        Refuse, Open, OpenUnnoticed, Complete, WriteLost, NotFound, BreakOff,
        Downloaded, DownloadFails,
        Retry, Accept, Reject, Read, ReadFails, Crash
  <2> QED
    BY <2>2, <2>3
<1>2. TypeOK /\ [Next]_vars =>
        [ req.checked /\ File = Good[req.location]
            /\ pc \notin {"idle", "perform", "decide"}
          => UNCHANGED cache ]_vars
  BY <1>1
<1> QED
  BY <1>2, TypeCorrect, PTL DEF SafeSpec, GoodFileKept
--------------------------------------------------------------------------
\* The steps of a call that do not answer it change neither what is asked
\* nor the verdict.
LEMMA InitFetch == Init => Abstract!Init
BY DEF Init, Abstract!Init, Asked, Verdict, NoAnswer

LEMMA StutterFetch ==
  ASSUME pc # "idle", pc' # "idle", UNCHANGED answer,
         req'.location = req.location, req'.checked = req.checked
  PROVE  UNCHANGED Abstract!vars
BY DEF Abstract!vars, Asked, Verdict

LEMMA NextFetch ==
  VerifiedInv /\ VerifiedInv' /\ [Next]_vars => [Abstract!Next]_(Abstract!vars)
<1> SUFFICES ASSUME VerifiedInv, VerifiedInv', [Next]_vars
             PROVE  [Abstract!Next]_(Abstract!vars)
  OBVIOUS
<1>a. /\ TypeOK /\ TypeOK'
      /\ req \in [location : Locations, checked : BOOLEAN, base : 1..Bases + 1]
  BY DEF VerifiedInv, TypeOK
<1>b. pc # "idle" => Asked # Nobody
  BY <1>a, NobodyAssumption DEF Asked
<1>0. CASE UNCHANGED vars
  BY <1>0 DEF vars, Abstract!vars, Asked, Verdict
<1>1. ASSUME NEW l \in Locations, NEW checked \in BOOLEAN, Ask(l, checked)
      PROVE [Abstract!Next]_(Abstract!vars)
  <2>1. [location |-> l, checked |-> checked] \in Abstract!Request
    BY DEF Abstract!Request
  <2>2. Abstract!Ask([location |-> l, checked |-> checked])
    BY <1>1 DEF Ask, Abstract!Ask, Asked, Verdict
  <2> QED
    BY <2>1, <2>2 DEF Abstract!Next
<1>2. CASE GiveUp
  <2>1. Asked # Nobody /\ Asked' = Nobody /\ Verdict' = "failed"
    BY <1>2, <1>b DEF GiveUp, Answer, Asked, Verdict
  <2> QED
    BY <2>1 DEF Abstract!Next, Abstract!Answer, Abstract!Verdicts
<1>3. CASE Read
  <2>1. Asked # Nobody /\ Asked' = Nobody /\ Asked.checked = req.checked
    BY <1>3, <1>b DEF Read, Asked
  <2>2. Verdict' \in {"genuine", "other"}
    BY <1>3 DEF Read, Answer, Verdict
  <2>3. req.checked => Verdict' = "genuine"
    BY <1>3 DEF Read, Answer, Verdict, VerifiedInv, ReadIsVerified
  <2> QED
    BY <2>1, <2>2, <2>3 DEF Abstract!Next, Abstract!Answer, Abstract!Verdicts
<1>4. CASE Crash
  <2>1. Asked # Nobody /\ Asked' = Nobody /\ Verdict' = Verdict
    BY <1>4, <1>b DEF Crash, Asked, Verdict
  <2> QED
    BY <2>1 DEF Abstract!Next, Abstract!Die
<1>5. CASE Refuse \/ DownloadFails \/ Reject \/ ReadFails
  <2>1. TryNext /\ pc # "idle" /\ UNCHANGED answer
    BY <1>5 DEF Refuse, DownloadFails, Reject, ReadFails
  <2>2. pc' # "idle"
    BY <2>1 DEF TryNext
  <2>3. req'.location = req.location /\ req'.checked = req.checked
    BY <1>a, <2>1 DEF TryNext
  <2> QED
    BY <2>1, <2>2, <2>3, StutterFetch
<1>6. CASE UseCached \/ DropCached \/ Open \/ OpenUnnoticed \/ Downloaded
           \/ Retry \/ Accept
  <2>1. pc # "idle" /\ pc' # "idle" /\ UNCHANGED <<answer, req>>
    BY <1>6 DEF UseCached, DropCached, Open, OpenUnnoticed, Downloaded, Retry,
       Accept
  <2> QED
    BY <2>1, StutterFetch
<1>7. CASE Complete \/ WriteLost \/ NotFound \/ BreakOff
  <2>1. /\ pc = "perform"
        /\ \E arrived, outcome : Perform(arrived, outcome)
    BY <1>7 DEF Complete, WriteLost, NotFound, BreakOff
  <2>2. pc # "idle" /\ pc' # "idle" /\ UNCHANGED <<answer, req>>
    BY <2>1 DEF Perform
  <2> QED
    BY <2>2, StutterFetch
<1> QED
  BY <1>0, <1>1, <1>2, <1>3, <1>4, <1>5, <1>6, <1>7 DEF Next, Proceed

\* Reading through the cache implements Fetch, as far as safety goes: every
\* step answers the call as Fetch allows, or changes nothing the caller
\* sees.  That every call ends is checked by the model checker only.
THEOREM SafelyImplementsFetch == SafeSpec => Abstract!SafeSpec
BY InitVerified, InitFetch, NextVerified, NextFetch, PTL
  DEF SafeSpec, Abstract!SafeSpec
==========================================================================
