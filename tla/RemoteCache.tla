-------------------------- MODULE RemoteCache --------------------------
(***************************************************************************)
(* Reading a resource from a remote CDN through the local cache:           *)
(* GetData and GetDataStream with sourceType REMOTE_CDN, and the           *)
(* Downloader they use.  The base paths are tried in turn.  For each, a    *)
(* file that is cached already is compared with the expected checksum and  *)
(* used or removed; otherwise the resource is downloaded into the cache,   *)
(* compared with the checksum if one is expected, and read back.           *)
(*                                                                         *)
(* A transfer may break off after any part of the content has arrived.     *)
(* Some errors are retried for a time with a growing pause, into the same  *)
(* file, which is open for appending.  Nothing looks whether the file      *)
(* could be opened, so a transfer can end well that has left no file.  The *)
(* process may die at any point and leave what it had written.  A content  *)
(* is a sequence of blocks; two contents with one checksum are equal.  A   *)
(* location ends in the checksum of the content, so it determines the      *)
(* genuine content.                                                        *)
(***************************************************************************)
EXTENDS Integers, Sequences

CONSTANTS
  Locations,      \* m_location: the path below a base path and the cache
  Blocks,
  Good,           \* Good[l]: the content whose checksum resources record
  Contents,       \* what a server may hold at a location
  Bases,          \* number of base paths
  RetrySeconds,   \* downloadRetrySeconds
  MaxSeconds,     \* bound: longest duration of one transfer
  DiskMayFail,    \* whether opening or writing the cached file may fail
  Absent          \* no file

ASSUME GoodAssumption == Good \in [Locations -> Seq(Blocks)]

ASSUME ContentsAssumption ==
  /\ Absent \notin Seq(Blocks)
  /\ Contents \subseteq Seq(Blocks) \cup {Absent}

ASSUME NumbersAssumption ==
  /\ Bases \in Nat
  /\ RetrySeconds \in Nat
  /\ MaxSeconds \in Nat

ASSUME DiskAssumption == DiskMayFail \in BOOLEAN

VARIABLES
  served,         \* served[b][l]: what base path b serves; it never changes
  cache,          \* cache[l]: the file below cacheBasePath
  pc,             \* the point the call has reached
  req,            \* the call: location, checked (a checksum is expected),
                  \* base (the base path being tried)
  faulted,        \* history: something but a server's content went wrong
  transfer,       \* the locals of DownloadFile, and the time slept so far
  answer          \* what the last call returned

vars == <<served, cache, pc, req, faulted, transfer, answer>>

File == cache[req.location]

Offered == served[req.base][req.location]

NoAnswer ==
  [result |-> "NONE", checked |-> FALSE, location |-> req.location,
   data |-> Absent]

Answer(result, data) ==
  [result |-> result, checked |-> req.checked, location |-> req.location,
   data |-> data]

FreshTransfer ==
  [elapsed |-> 0, duration |-> 0, sleep |-> 1, slept |-> 0, outcome |-> "OK"]

Init ==
  /\ served \in [1..Bases -> [Locations -> Contents]]
  /\ cache = [l \in Locations |-> Absent]
  /\ pc = "idle"
  /\ req \in [location : Locations, checked : {FALSE}, base : {1}]
  /\ faulted = FALSE
  /\ transfer = FreshTransfer
  /\ answer = NoAnswer

\* GetData is called for a location, with or without an expected checksum.
Ask(l, checked) ==
  /\ pc = "idle"
  /\ req' = [location |-> l, checked |-> checked, base |-> 1]
  /\ pc' = "check"
  /\ faulted' = FALSE
  /\ answer' = [result |-> "NONE", checked |-> FALSE, location |-> l,
                data |-> Absent]
  /\ UNCHANGED <<served, cache, transfer>>
--------------------------------------------------------------------------
(* GetDataRemoteCdn: the cached file.                                      *)

\* A plausible slip: the cache is not trusted at all.
MatchesNever == FALSE

\* Md5ChecksumMatches on a file: never true for an empty checksum.
Matches == req.checked /\ File = Good[req.location]

\* A plausible slip: the loop retries the base path that failed.
TryAgain ==
  /\ pc' = "check"
  /\ UNCHANGED req

\* The failure of one base path: the loop of GetData goes on to the next.
TryNext ==
  /\ pc' = "check"
  /\ req' = [req EXCEPT !.base = @ + 1]

GiveUp ==
  /\ pc = "check" /\ req.base > Bases
  /\ pc' = "idle"
  /\ answer' = Answer("FAILED_TO_OPEN_FILE", Absent)
  /\ UNCHANGED <<served, cache, req, faulted, transfer>>

UseCached ==
  /\ pc = "check" /\ req.base <= Bases
  /\ File # Absent /\ Matches
  /\ pc' = "read"
  /\ UNCHANGED <<served, cache, req, faulted, transfer, answer>>

\* A plausible slip: a file that does not match is left where it is.
SkipCached ==
  /\ pc = "check" /\ req.base <= Bases
  /\ ~(File # Absent /\ Matches)
  /\ pc' = "download"
  /\ UNCHANGED <<served, cache, req, faulted, transfer, answer>>

\* A file that does not match is removed; there may be none.
DropCached ==
  /\ pc = "check" /\ req.base <= Bases
  /\ ~(File # Absent /\ Matches)
  /\ cache' = [cache EXCEPT ![req.location] = Absent]
  /\ pc' = "download"
  /\ UNCHANGED <<served, req, faulted, transfer, answer>>
--------------------------------------------------------------------------
(* DownloadFile.                                                           *)

\* A file in the way is not overwritten, and the directory may not be made.
Refuse ==
  /\ pc = "download"
  /\ TryNext
  /\ faulted' = (faulted \/ File = Absent)
  /\ UNCHANGED <<served, cache, transfer, answer>>

Open ==
  /\ pc = "download" /\ File = Absent
  /\ cache' = [cache EXCEPT ![req.location] = <<>>]
  /\ transfer' = FreshTransfer
  /\ pc' = "perform"
  /\ UNCHANGED <<served, req, faulted, answer>>

\* The file could not be opened, and the code goes on: what arrives is lost.
OpenUnnoticed ==
  /\ pc = "download" /\ File = Absent /\ DiskMayFail
  /\ faulted' = TRUE
  /\ transfer' = FreshTransfer
  /\ pc' = "perform"
  /\ UNCHANGED <<served, cache, req, answer>>

\* What the file holds, if there is one, when the stream was given more.
Appended(arrived) == IF File = Absent THEN Absent ELSE File \o arrived

\* One curl_easy_perform: what arrives is appended to the file.  The clock
\* is read before, and only before, the transfer.
Perform(arrived, outcome) ==
  /\ cache' = [cache EXCEPT ![req.location] = Appended(arrived)]
  /\ \E seconds \in 0..MaxSeconds :
       transfer' = [transfer EXCEPT !.duration = transfer.elapsed,
                                    !.elapsed = @ + seconds,
                                    !.outcome = outcome]
  /\ pc' = "decide"
  /\ UNCHANGED <<served, req, answer>>

Complete ==
  /\ pc = "perform" /\ Offered # Absent
  /\ Perform(Offered, "OK")
  /\ UNCHANGED faulted

\* The write callback takes what the file stream rejects for written.
WriteLost ==
  /\ pc = "perform" /\ Offered # Absent /\ DiskMayFail
  /\ \E n \in 0..Len(Offered) : Perform(SubSeq(Offered, 1, n), "OK")
  /\ faulted' = TRUE

NotFound ==
  /\ pc = "perform" /\ Offered = Absent
  /\ Perform(<<>>, "HTTP_RETURNED_ERROR")
  /\ UNCHANGED faulted

\* The connection breaks off, with an error that is in s_curl_retry_errors
\* or with another one.
BreakOff ==
  /\ pc = "perform"
  /\ \E outcome \in {"RECV_ERROR", "OTHER_ERROR"} :
       \/ Offered = Absent /\ Perform(<<>>, outcome)
       \/ /\ Offered # Absent
          /\ \E n \in 0..Len(Offered) : Perform(SubSeq(Offered, 1, n), outcome)
  /\ faulted' = TRUE

Retryable == transfer.outcome = "RECV_ERROR"

\* A plausible slip: no time limit on the retries.
NeverExpired == FALSE

Expired == transfer.duration >= RetrySeconds

Downloaded ==
  /\ pc = "decide" /\ transfer.outcome = "OK"
  /\ pc' = "verify"
  /\ UNCHANGED <<served, cache, req, faulted, transfer, answer>>

DownloadFails ==
  /\ pc = "decide" /\ transfer.outcome # "OK"
  /\ Expired \/ ~Retryable
  /\ TryNext
  /\ UNCHANGED <<served, cache, faulted, transfer, answer>>

\* A plausible slip: the pause is not cut to the time that remains.
PauseInFull == transfer.sleep

Pause ==
  IF RetrySeconds - transfer.duration < transfer.sleep
  THEN RetrySeconds - transfer.duration
  ELSE transfer.sleep

Retry ==
  /\ pc = "decide" /\ Retryable /\ ~Expired
  /\ transfer' = [transfer EXCEPT !.elapsed = @ + Pause,
                                  !.slept = @ + Pause,
                                  !.sleep = @ * 2]
  /\ pc' = "perform"
  /\ UNCHANGED <<served, cache, req, faulted, answer>>
--------------------------------------------------------------------------
(* GetDataRemoteCdn: the downloaded file.                                  *)

\* A plausible slip: a file just downloaded is taken as it is.
AcceptAny ==
  /\ pc = "verify"
  /\ pc' = "read"
  /\ UNCHANGED <<served, cache, req, faulted, transfer, answer>>

Accept ==
  /\ pc = "verify" /\ (req.checked => Matches)
  /\ pc' = "read"
  /\ UNCHANGED <<served, cache, req, faulted, transfer, answer>>

\* The file that was rejected stays in the cache.
Reject ==
  /\ pc = "verify" /\ req.checked /\ ~Matches
  /\ TryNext
  /\ UNCHANGED <<served, cache, faulted, transfer, answer>>

Read ==
  /\ pc = "read" /\ File # Absent
  /\ pc' = "idle"
  /\ answer' = Answer("SUCCESS", File)
  /\ UNCHANGED <<served, cache, req, faulted, transfer>>

ReadFails ==
  /\ pc = "read"
  /\ TryNext
  /\ faulted' = TRUE
  /\ UNCHANGED <<served, cache, transfer, answer>>
--------------------------------------------------------------------------
\* The process dies and a new one starts.  Of a file that was open, what
\* had been flushed is on disk.
Crash ==
  /\ pc # "idle"
  /\ \/ /\ pc \in {"perform", "decide"} /\ File # Absent
        /\ \E n \in 0..Len(File) :
             cache' = [cache EXCEPT ![req.location] = SubSeq(@, 1, n)]
     \/ /\ pc \notin {"perform", "decide"} \/ File = Absent
        /\ UNCHANGED cache
  /\ pc' = "idle"
  /\ UNCHANGED <<served, req, faulted, transfer, answer>>

Proceed ==
  \/ GiveUp \/ UseCached \/ DropCached
  \/ Refuse \/ Open \/ OpenUnnoticed
  \/ Complete \/ WriteLost \/ NotFound \/ BreakOff
  \/ Downloaded \/ DownloadFails \/ Retry
  \/ Accept \/ Reject \/ Read \/ ReadFails

Next ==
  \/ \E l \in Locations, checked \in BOOLEAN : Ask(l, checked)
  \/ Proceed
  \/ Crash

\* The calling thread runs, and every transfer ends: the code sets no
\* timeout on curl, so the second half rests on the network.
Fairness == WF_vars(Proceed)

SafeSpec == Init /\ [][Next]_vars

Spec == SafeSpec /\ Fairness
--------------------------------------------------------------------------
Points == {"idle", "check", "download", "perform", "decide", "verify", "read"}

Outcomes == {"OK", "HTTP_RETURNED_ERROR", "RECV_ERROR", "OTHER_ERROR"}

TypeOK ==
  /\ served \in [1..Bases -> [Locations -> Contents]]
  /\ cache \in [Locations -> Seq(Blocks) \cup {Absent}]
  /\ pc \in Points
  /\ req \in [location : Locations, checked : BOOLEAN, base : 1..Bases + 1]
  /\ faulted \in BOOLEAN
  /\ transfer \in [elapsed : Nat, duration : Nat, sleep : Nat, slept : Nat,
                   outcome : Outcomes]
  /\ answer \in [result : {"NONE", "SUCCESS", "FAILED_TO_OPEN_FILE"},
                 checked : BOOLEAN, location : Locations,
                 data : Seq(Blocks) \cup {Absent}]
  /\ pc \in {"download", "perform", "decide", "verify", "read"} =>
       req.base <= Bases

\* Whatever the servers serve, and whatever broken transfers, crashes and
\* unchecked calls have left in the cache, a call that expects a checksum
\* never succeeds with other data.
VerifiedDataIsExpected ==
  answer.result = "SUCCESS" /\ answer.checked =>
    answer.data = Good[answer.location]

\* What VerifiedDataIsExpected needs to be inductive: the file a checked
\* call is about to read has been compared.
ReadIsVerified == pc = "read" /\ req.checked => File = Good[req.location]

VerifiedInv == TypeOK /\ ReadIsVerified /\ VerifiedDataIsExpected

\* A base path that cannot satisfy a call.
Useless(b, location, checked) ==
  IF checked THEN served[b][location] # Good[location]
             ELSE served[b][location] = Absent

\* Nothing an earlier call or crash has left in the cache, and nothing an
\* earlier base path serves, makes a call fail that one of its base paths
\* could have satisfied and that met no fault of its own.
CleanRequestSucceeds ==
  answer.result = "FAILED_TO_OPEN_FILE" /\ ~faulted =>
    \A b \in 1..Bases : Useless(b, answer.location, answer.checked)

\* What CleanRequestSucceeds needs to be inductive: a call without a fault
\* has passed useless base paths only, begins every download with an empty
\* file, and has what the base path serves, if anything, when it is over.
TriedInVain ==
  pc # "idle" /\ ~faulted =>
    \A b \in 1..(req.base - 1) : Useless(b, req.location, req.checked)

FileFollowsServer ==
  ~faulted =>
    /\ pc = "download" => File = Absent
    /\ pc = "perform" => File = <<>>
    /\ pc = "decide" => \/ transfer.outcome = "OK" /\ File = Offered
                        \/ transfer.outcome = "HTTP_RETURNED_ERROR" /\ Offered = Absent
    /\ pc = "verify" => File = Offered

CleanInv == TypeOK /\ TriedInVain /\ FileFollowsServer /\ CleanRequestSucceeds

\* The pauses between the attempts of one download never add up to more
\* than the retry time the caller set, however long the attempts take.
SleepWithinPeriod == transfer.slept <= RetrySeconds

\* What SleepWithinPeriod needs to be inductive: the clock has seen every
\* pause, and an attempt's reading of it every pause before the attempt.
SleptBefore ==
  /\ transfer.slept <= transfer.elapsed
  /\ pc = "decide" => transfer.slept <= transfer.duration

SleepInv == TypeOK /\ SleptBefore /\ SleepWithinPeriod

\* Outside a transfer, a call that expects a checksum never removes or
\* changes a cached file that matches it: such a file costs no download.
GoodFileKept ==
  [][ req.checked /\ File = Good[req.location]
        /\ pc \notin {"idle", "perform", "decide"}
      => UNCHANGED cache ]_vars

\* ResourceToolsLibraryTest.cpp verifies that a file DownloadFile reports as
\* downloaded has the contents of the file at the url.
DownloadFaithful == pc = "verify" => File = Offered
==========================================================================
