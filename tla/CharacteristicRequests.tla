------------------------- MODULE CharacteristicRequests -------------------------
(***************************************************************************)
(* The /characteristics and /prepare requests of one connection, one after *)
(* the other: HAPServer.handleCharacteristics and handlePrepareWrite,      *)
(* Accessory.handleGetCharacteristics and handleSetCharacteristics with    *)
(* the read and write of each characteristic.                              *)
(*                                                                         *)
(* The promises of the characteristics settle in any order, or never; a    *)
(* request is answered when all have, or by its second timer.  The         *)
(* promises of an answered request stay around and may settle later.       *)
(* Writes carry a value; those that only switch events on and off are      *)
(* those of EventSubscriptions.                                            *)
(* Time is counted in seconds; a timer fires when it is due or later.      *)
(***************************************************************************)
EXTENDS Naturals, FiniteSets

CONSTANTS
  Characteristics,
  TimedWriteOnly,       \* those with the permission TIMED_WRITE
  Pids, NoPid,          \* ids of prepared writes; a write without one
  MaxRequests,          \* bound: requests of the connection
  MaxPrepares,          \* bound: /prepare requests
  MaxLate,              \* bound: seconds a timer fires late
  TimeoutWarning,       \* TIMEOUT_WARNING, 3s
  TimeoutAfterWarning   \* TIMEOUT_AFTER_WARNING, 6s

ASSUME RequestsAssumption ==
  /\ TimedWriteOnly \subseteq Characteristics
  /\ NoPid \notin Pids
  /\ MaxRequests \in Nat /\ MaxPrepares \in Nat /\ MaxLate \in Nat
  /\ TimeoutWarning \in Nat /\ TimeoutAfterWarning \in Nat

VARIABLES
  present,        \* characteristics findCharacteristic finds
  timedWritePid,  \* the prepared write of the connection
  armed,          \* the writes prepared so far whose timer is set
  started,        \* number of requests so far
  asked,          \* characteristics the last request names
  handled,        \* those whose get or set handler it called
  timedWrites,    \* history: writes that called the handler of a timed write only characteristic
  timeout,        \* request -> timer armed: "none", "warning", "timeout"
  elapsed,        \* seconds since the last request started, until it is answered
  warnedAt,       \* when its first timer fired
  missing,        \* request -> missingCharacteristics
  running,        \* request -> characteristics whose handler has not settled
  answer,         \* what was pushed for a characteristic by the last request
  sent,           \* request -> number of calls of the request's callback
  prepares        \* number of writes prepared so far

connection == <<present, timedWritePid, armed, prepares>>
progress   == <<timeout, elapsed, warnedAt, missing, running, answer, sent>>
request    == <<started, asked, handled, timedWrites>>
requests   == <<request, progress>>
vars       == <<connection, requests>>

Requests == 1..MaxRequests
Entries == {"none", "value", "error", "timed out"}

Horizon == TimeoutWarning + TimeoutAfterWarning + 2 * MaxLate

TypeOK ==
  /\ present \subseteq Characteristics
  /\ timedWritePid \in Pids \cup {NoPid}
  /\ armed \in {{}} \cup {{n} : n \in 1..MaxPrepares}
  /\ armed = {} <=> timedWritePid = NoPid
  /\ prepares \in 0..MaxPrepares
  /\ started \in 0..MaxRequests
  /\ asked \subseteq Characteristics
  /\ handled \subseteq asked
  /\ timedWrites \in 0..started
  /\ timeout \in [Requests -> {"none", "warning", "timeout"}]
  /\ elapsed \in 0..Horizon
  /\ warnedAt \in 0..Horizon
  /\ missing \in [Requests -> SUBSET Characteristics]
  /\ running \in [Requests -> SUBSET Characteristics]
  /\ answer \in [Characteristics -> Entries]
  /\ sent \in [Requests -> Nat]

NoAnswer == [c \in Characteristics |-> "none"]

Init ==
  /\ present = Characteristics
  /\ timedWritePid = NoPid
  /\ armed = {}
  /\ prepares = 0
  /\ started = 0
  /\ asked = {}
  /\ handled = {}
  /\ timedWrites = 0
  /\ timeout = [r \in Requests |-> "none"]
  /\ elapsed = 0
  /\ warnedAt = 0
  /\ missing = [r \in Requests |-> {}]
  /\ running = [r \in Requests |-> {}]
  /\ answer = NoAnswer
  /\ sent = [r \in Requests |-> 0]

-----------------------------------------------------------------------------
(* Prepared writes.                                                        *)

\* The controller sends its next request when the last one was answered.
Free == \A r \in Requests : r = started => sent[r] = 1

\* A write that is prepared replaces the one before it, and its timer.
ArmedByPrepare(n) == {n}

PrepareWrite(pid) ==
  /\ Free
  /\ prepares < MaxPrepares
  /\ prepares' = prepares + 1
  /\ timedWritePid' = pid
  /\ armed' = ArmedByPrepare(prepares + 1)
  /\ UNCHANGED <<present, requests>>

\* The ttl of the n-th prepared write is over.
PreparedWriteExpires(n) ==
  /\ n \in armed
  /\ armed' = armed \ {n}
  /\ timedWritePid' = NoPid
  /\ UNCHANGED <<present, prepares, requests>>

StateOfWrite(pid) ==
  CASE pid = NoPid                        -> "REGULAR_REQUEST"
    [] pid # NoPid /\ pid = timedWritePid -> "TIMED_WRITE_AUTHENTICATED"
    [] pid # NoPid /\ pid # timedWritePid -> "TIMED_WRITE_REJECTED"

\* A prepared write is used up by the write that names it, before anything else of the request is
\* looked at.
UsePrepared(pid) ==
  IF StateOfWrite(pid) = "TIMED_WRITE_AUTHENTICATED"
  THEN timedWritePid' = NoPid /\ armed' = {}
  ELSE UNCHANGED <<timedWritePid, armed>>

-----------------------------------------------------------------------------
(* Requests.                                                               *)

\* A request reaches the handler of a characteristic that is found and permits it; a write with a
\* pid only if that was prepared.
HandlerCalled(c, how) ==
  /\ c \in present
  /\ how # "TIMED_WRITE_REJECTED"
  /\ c \in TimedWriteOnly => how # "REGULAR_REQUEST"

\* The request is taken up: its timer is set and each characteristic's promise is created.
Begin(S, how) ==
  LET r == started + 1
  IN /\ Free
     /\ r \in Requests
     /\ started' = r
     /\ asked' = S
     /\ handled' = {c \in S : HandlerCalled(c, how)}
     /\ timeout' = [timeout EXCEPT ![r] = "warning"]
     /\ missing' = [missing EXCEPT ![r] = S]
     /\ running' = [running EXCEPT ![r] = S]
     /\ elapsed' = 0
     /\ warnedAt' = 0
     /\ answer' = NoAnswer
     /\ UNCHANGED <<present, prepares, sent>>

GetCharacteristics(S) ==
  /\ S # {}
  /\ Begin(S, "READ")
  /\ UNCHANGED <<timedWritePid, armed, timedWrites>>

SetCharacteristics(S, pid) ==
  /\ Begin(S, StateOfWrite(pid))
  /\ UsePrepared(pid)
  /\ timedWrites' = timedWrites + (IF handled' \cap TimedWriteOnly # {} THEN 1 ELSE 0)

\* HAPServer answers a request itself: the connection is not authenticated and names no pincode, or
\* the request is empty.  The accessory, and with it a prepared write, never sees it.
ServerRefuses ==
  LET r == started + 1
  IN /\ Free
     /\ r \in Requests
     /\ started' = r
     /\ sent' = [sent EXCEPT ![r] = 1]
     /\ asked' = {}
     /\ handled' = {}
     /\ answer' = NoAnswer
     /\ UNCHANGED <<connection, timedWrites, timeout, elapsed, warnedAt, missing, running>>

\* A request that names a characteristic twice is refused at once, after its pid was used up.
DuplicatesRefused(pid) ==
  LET r == started + 1
  IN /\ Free
     /\ r \in Requests
     /\ started' = r
     /\ sent' = [sent EXCEPT ![r] = 1]
     /\ UsePrepared(pid)
     /\ asked' = {}
     /\ handled' = {}
     /\ answer' = NoAnswer
     /\ UNCHANGED <<present, prepares, timedWrites, timeout, elapsed, warnedAt, missing, running>>

\* What the promise of a characteristic settles with: an error when a check before its handler
\* refuses, what the handler says otherwise; that of an earlier request does not matter any more.
Outcomes(r, c) == IF r = started /\ c \in handled THEN {"value", "error"} ELSE {"error"}

\* Mutant of Settled: an answer that comes after the timeout is still pushed.
SettledLate(r) == TRUE

\* The promise of a request that was not answered by its timer.
Settled(r) == timeout[r] # "none"

\* The promise of a characteristic settles; the last one answers the request.
Settle(r, c, entry) ==
  /\ c \in running[r]
  /\ entry \in Outcomes(r, c)
  /\ running' = [running EXCEPT ![r] = @ \ {c}]
  /\ IF Settled(r)
     THEN /\ missing' = [missing EXCEPT ![r] = @ \ {c}]
          /\ answer' = [answer EXCEPT ![c] = entry]
          /\ IF missing'[r] = {}
             THEN /\ timeout' = [timeout EXCEPT ![r] = "none"]
                  /\ sent' = [sent EXCEPT ![r] = @ + 1]
             ELSE UNCHANGED <<timeout, sent>>
     ELSE UNCHANGED <<missing, answer, timeout, sent>>
  /\ UNCHANGED <<connection, request, elapsed, warnedAt>>

\* Mutant of Warn: the second timer is not set.
WarnOnly(r) ==
  /\ timeout[r] = "warning"
  /\ elapsed >= TimeoutWarning
  /\ timeout' = [timeout EXCEPT ![r] = "none"]
  /\ UNCHANGED <<connection, request, elapsed, warnedAt, missing, running, answer, sent>>

\* The first timer warns about slow handlers and sets the second.
Warn(r) ==
  /\ timeout[r] = "warning"
  /\ elapsed >= TimeoutWarning
  /\ timeout' = [timeout EXCEPT ![r] = "timeout"]
  /\ warnedAt' = elapsed
  /\ UNCHANGED <<connection, request, elapsed, missing, running, answer, sent>>

\* Mutant of TimedOutEntry: entries of characteristics that are still missing are not pushed.
TimedOutEntryDropped(r, c) == answer[c]

\* A characteristic that was removed meanwhile gets no entry.
TimedOutEntry(r, c) == IF c \in missing[r] \cap present THEN "timed out" ELSE answer[c]

\* The second timer answers for those that are still missing.
TimeOut(r) ==
  /\ timeout[r] = "timeout"
  /\ elapsed >= warnedAt + TimeoutAfterWarning
  /\ timeout' = [timeout EXCEPT ![r] = "none"]
  /\ answer' = [c \in Characteristics |-> TimedOutEntry(r, c)]
  /\ missing' = [missing EXCEPT ![r] = {}]
  /\ sent' = [sent EXCEPT ![r] = @ + 1]
  /\ UNCHANGED <<connection, request, elapsed, warnedAt, running>>

-----------------------------------------------------------------------------
(* The surroundings: a service or a bridged accessory is removed or added, *)
(* and time passes.                                                        *)

RemoveCharacteristic(c) == c \in present /\ present' = present \ {c} /\ UNCHANGED <<timedWritePid, armed, prepares, requests>>
AddCharacteristic(c)    == c \notin present /\ present' = present \cup {c} /\ UNCHANGED <<timedWritePid, armed, prepares, requests>>

\* When the armed timer of a request is due.
Due(r) == IF timeout[r] = "warning" THEN TimeoutWarning ELSE warnedAt + TimeoutAfterWarning

Tick ==
  /\ \E r \in Requests : timeout[r] # "none" /\ elapsed < Due(r) + MaxLate
  /\ elapsed' = elapsed + 1
  /\ UNCHANGED <<connection, request, timeout, warnedAt, missing, running, answer, sent>>

Next ==
  \/ \E pid \in Pids : PrepareWrite(pid)
  \/ \E n \in 1..MaxPrepares : PreparedWriteExpires(n)
  \/ \E S \in SUBSET Characteristics : GetCharacteristics(S)
  \/ \E S \in SUBSET Characteristics, pid \in Pids \cup {NoPid} : SetCharacteristics(S, pid)
  \/ ServerRefuses
  \/ \E pid \in Pids \cup {NoPid} : DuplicatesRefused(pid)
  \/ \E r \in Requests, c \in Characteristics, entry \in {"value", "error"} : Settle(r, c, entry)
  \/ \E r \in Requests : Warn(r) \/ TimeOut(r)
  \/ \E c \in Characteristics : RemoveCharacteristic(c) \/ AddCharacteristic(c)
  \/ Tick

Spec == Init /\ [][Next]_vars

\* Time passes and timers fire; handlers promise nothing.
FairSpec == Spec /\ WF_vars(Tick) /\ \A r \in Requests : WF_vars(Warn(r)) /\ WF_vars(TimeOut(r))

-----------------------------------------------------------------------------
(* Properties.                                                             *)

\* The callback of a request is called once: the handlers' promises and the two timers race for
\* it, and once() throws at the second call.
AnsweredOnce == \A r \in Requests : sent[r] <= 1

\* An answer that was sent names every characteristic of the request, but for those that had been
\* removed when the timer answered for them.
AnswerComplete ==
  [][\A r \in Requests :
       sent[r] = 0 /\ sent'[r] = 1
         => \A c \in asked' : answer'[c] # "none" \/ c \notin present]_vars

\* Characteristics that take timed writes only are written no more often than writes were prepared:
\* a pid that was used does not count again.
TimedWritesPrepared == timedWrites <= prepares

\* A prepared write is given up for one of three reasons: a write used it, another took its place,
\* or its own ttl, not that of an earlier one, is over.
PreparedWriteHonoured ==
  [][timedWritePid # NoPid /\ timedWritePid' = NoPid
       => started' # started \/ prepares \in armed \ armed']_vars

\* Whatever its handlers do, every request is answered.
EveryRequestAnswered == \A r \in Requests : started >= r ~> sent[r] = 1

\* "after a total of 10s we do no longer wait for a request to appear".
WaitsTenSeconds ==
  \A c \in Characteristics :
    answer[c] = "timed out" => elapsed >= 10

\* A request is answered once, whatever settles late, and nothing timed is written beyond the prepares.
RequestsInOrder == TypeOK /\ AnsweredOnce /\ TimedWritesPrepared

\* No characteristic is missing from an answer and no prepared write is given up without a reason.
NothingLeftOut == AnswerComplete /\ PreparedWriteHonoured
=============================================================================
