-------------------------- MODULE StatusSettings --------------------------
(***************************************************************************)
(* The progress of one call.  Every job has a StatusSettings; one that is  *)
(* handed a part of another job is its child, and both are gone when the   *)
(* functions they belong to return, so that the objects form a stack.  The *)
(* caller's callback hears of the jobs above its verbosity level.          *)
(***************************************************************************)
EXTENDS StatusJobs

CONSTANTS
  Calls,          \* records: operation, counts, verbosity, listening
  Nothing         \* the callback has not been called

MaxDepth == 4

\* 1% of the whole call, so that the parts of MaxDepth jobs are integers.
Unit == 100 ^ (MaxDepth - 1)

ASSUME CallsAssumption ==
  \A c \in Calls : /\ c.operation \in Operations
                   /\ c.counts \in CountsOfCalls
                   /\ c.counts.changed + c.counts.added <= c.counts.latest
                   /\ c.verbosity \in Int
                   /\ c.listening \in BOOLEAN

VARIABLES
  call,
  stack,          \* the StatusSettings; the last one is the innermost
  returning,      \* a step has failed: every function returns
  heard,          \* the last call of the callback
  reached,        \* history: the last overall progress that was no warning's
  open            \* the levels of which the caller has heard START only

vars == <<call, stack, returning, heard, reached, open>>

\* m_lastUpdate and the step of the job that comes next; 0 is the START.
\* linked: it has a callback, from SetCallbackSettings or from its parent.
Settings(job, linked) ==
  [job |-> job, next |-> 0, linked |-> linked,
   last |-> [type |-> "UNBOUNDED", progress |-> 0, size |-> 0]]

Depth == Len(stack)

Top == stack[Depth]

JobSteps(settings) == Steps(settings.job, call.counts)

NextStep == JobSteps(Top)[Top.next]

\* The verbosity level counts the levels that are heard.
Sends(d) ==
  /\ stack[d].linked
  /\ call.verbosity = -1 \/ d - 1 < call.verbosity

\* A plausible slip: one level less than Update sends.
RequiresLess(d) ==
  /\ stack[d].linked
  /\ call.verbosity = -1 \/ d < call.verbosity

\* One level more than Update sends.
RequiresStatusUpdates(d) ==
  /\ stack[d].linked
  /\ call.verbosity = -1 \/ d - 1 <= call.verbosity
---------------------------------------------------------------------------
\* A plausible slip: a part of a part counts as a part of the whole.
ScaleOfPart(objects, d) ==
  IF d = 0 THEN Unit ELSE (Unit * objects[d].last.size) \div 100

\* What 1% of the part the d-th object has handed on is worth, in units.
Scale(objects, d) ==
  LET scale[k \in 0..d] ==
        IF k = 0 THEN Unit ELSE (scale[k - 1] * objects[k].last.size) \div 100
  IN  scale[d]

\* A plausible slip: the object does not know its parent.
ProgressOfJob(objects, d) == objects[d].last.progress * Unit

\* CalculateOverallProgress.  Only an innermost job sends what is not finite.
OverallProgress(objects, d) ==
  LET progress[k \in 0..d] ==
        IF k = 0 THEN 0
        ELSE progress[k - 1] + objects[k].last.progress * Scale(objects, k - 1)
  IN  IF objects[d].last.progress = NotFinite THEN NotFinite ELSE progress[d]

Updated(d, step) ==
  [stack EXCEPT ![d].last = [type |-> step.type, progress |-> step.progress,
                             size |-> step.size]]

\* Update: the objects it leaves.
AfterUpdate(d, step) == IF Sends(d) THEN Updated(d, step) ELSE stack

\* Update: what the caller hears.
Tell(d, step) ==
  LET overall == OverallProgress(Updated(d, step), d)
  IN  /\ heard' = IF Sends(d)
                  THEN [type |-> step.type, level |-> d - 1,
                        progress |-> step.progress, overall |-> overall]
                  ELSE heard
      /\ reached' = IF Sends(d) /\ step.type # "WARNING" THEN overall
                    ELSE reached

Advanced(objects) == [objects EXCEPT ![Len(objects)].next = @ + 1]
---------------------------------------------------------------------------
\* The functions of ResourceGroup make the first object.
Init ==
  /\ call \in Calls
  /\ stack = <<Settings(call.operation, call.listening)>>
  /\ returning = FALSE
  /\ heard = Nothing
  /\ reached = 0
  /\ open = <<>>

Start ==
  /\ Depth > 0 /\ Top.next = 0
  /\ LET step == Update("START", 0, 0)
     IN  /\ Tell(Depth, step)
         /\ stack' = Advanced(AfterUpdate(Depth, step))
  /\ open' = IF Sends(Depth) THEN Append(open, Depth - 1) ELSE open
  /\ UNCHANGED <<call, returning>>

Running ==
  Depth > 0 /\ ~returning /\ Top.next \in DOMAIN JobSteps(Top)

\* An update that no other job is nested in.  If a job asks whether updates
\* are required and they are not, it sends none.
Progress ==
  /\ Running
  /\ NextStep.type # "WARNING" /\ NextStep.nested = NoJob
  /\ IF NextStep.guarded => RequiresStatusUpdates(Depth)
     THEN /\ Tell(Depth, NextStep)
          /\ stack' = Advanced(AfterUpdate(Depth, NextStep))
     ELSE UNCHANGED <<heard, reached>> /\ stack' = Advanced(stack)
  /\ UNCHANGED <<call, returning, open>>

\* A part is handed to a nested job.  If the update is not sent, nothing is
\* passed on: the nested object has no callback.
OpenJob ==
  /\ Running
  /\ NextStep.nested # NoJob
  /\ Tell(Depth, NextStep)
  /\ stack' = Append(Advanced(AfterUpdate(Depth, NextStep)),
                     Settings(NextStep.nested, Sends(Depth)))
  /\ UNCHANGED <<call, returning, open>>

\* What the warning is about may not have happened.
Warn ==
  /\ Running
  /\ NextStep.type = "WARNING"
  /\ \/ /\ stack' = Advanced(stack)
        /\ UNCHANGED <<heard, reached>>
     \/ LET d == Depth - NextStep.up
        IN  /\ Tell(d, NextStep)
            /\ stack' = Advanced(AfterUpdate(d, NextStep))
  /\ UNCHANGED <<call, returning, open>>

\* An early return, of all the functions that are nested.
Fail ==
  /\ Depth > 0 /\ ~returning /\ Top.next > 0
  /\ returning' = TRUE
  /\ UNCHANGED <<call, stack, heard, reached, open>>

\* The destructor says END, in any case.
End ==
  /\ Depth > 0 /\ Top.next > 0
  /\ returning \/ Top.next \notin DOMAIN JobSteps(Top)
  /\ Tell(Depth, Update("END", 100, 0))
  /\ stack' = Front(stack)
  /\ open' = IF Sends(Depth) THEN Front(open) ELSE open
  /\ UNCHANGED <<call, returning>>

Next == Start \/ Progress \/ OpenJob \/ Warn \/ Fail \/ End

Spec == Init /\ [][Next]_vars
---------------------------------------------------------------------------
\* Diff counts the removed resources in parts of the latest group, which may
\* be the smaller one.
MoreRemovedThanLatest ==
  /\ call.operation \in {"CreatePatch", "DiffChangesAsLists"}
  /\ call.counts.removed > call.counts.latest

\* The overall progress is between 0 and 100% and the jobs are no deeper
\* than the units allow, unless Diff has removed more than there is left.
StatusTypeOK ==
  /\ Depth \in 0..MaxDepth
  /\ returning \in BOOLEAN
  /\ heard # Nothing =>
       /\ heard.type \in {"UNBOUNDED", "PERCENTAGE", "WARNING", "START", "END"}
       /\ heard.level \in 0..(MaxDepth - 1)
       /\ MoreRemovedThanLatest \/ heard.overall \in 0..(100 * Unit)

\* The levels a caller has asked for.
HeardLevels ==
  {d \in 1..Depth : call.listening /\ (call.verbosity = -1 \/ d <= call.verbosity)}

\* A caller that registered for n levels hears of all jobs of these levels
\* and of no others: every job it has heard the start of is running, every
\* running job has been announced, and every step of it was reported, in
\* spite of the two comparisons with the verbosity level, of updates that
\* are not sent and of jobs that end early.
CallerInformed ==
  /\ open = [i \in 1..Cardinality({d \in HeardLevels : stack[d].next > 0}) |-> i - 1]
  /\ \A d \in HeardLevels :
       LET taken == stack[d].next - 1
           step  == JobSteps(stack[d])[taken]
       IN  taken > 0 /\ step.type # "WARNING" =>
             \/ stack[d].last = [type |-> step.type, progress |-> step.progress,
                                 size |-> step.size]
             \/ stack[d].last.type = "WARNING"

\* Where the parent's part ends.
PartEnd(settings) == settings.last.progress + settings.last.size

\* A nested job ends where the next part of its parent begins, so that no
\* part of a call is left out or counted twice when it is handed on: from
\* the outermost job to the innermost, whatever the level the caller hears.
Seamless ==
  [][\A d \in 1..Depth :
       LET steps == JobSteps(stack[d])
           taken == stack[d].next - 1
       IN  d \in HeardLevels /\ ~returning /\ taken \in DOMAIN steps
           /\ steps[taken].nested # NoJob /\ stack[d].last.type # "WARNING"
           => /\ Len(stack') >= d /\ stack'[d].next # stack[d].next =>
                   stack'[d].last.progress = PartEnd(stack[d])
              /\ Len(stack') < d => PartEnd(stack[d]) = 100]_stack

\* A file that is streamed reports its own progress as that of the job.
StreamsFiles ==
  /\ call.operation = "CreateFromDirectory"
  /\ \E i \in DOMAIN call.counts.files : call.counts.files[i]

\* Apply warns of a file it cannot remove with an update of progress 0, on
\* the object its innermost job reports to.
WarnedAbove == \E d \in 1..(Depth - 1) : stack[d].last.type = "WARNING"

\* The overall progress a caller hears never goes back (ResourcesTestFixture
\* demands it of every call), even if the call fails, but for the three
\* cases that the code has.
NeverBack ==
  [][\/ reached # NotFinite /\ reached' # NotFinite /\ reached <= reached'
     \/ MoreRemovedThanLatest
     \/ StreamsFiles
     \/ WarnedAbove]_reached
===========================================================================
