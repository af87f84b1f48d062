---------------------------- MODULE Requests_proofs ----------------------------
(***************************************************************************)
(* Proofs about the requests of controllers and the connections they come  *)
(* on.  CharacteristicRequests, for any characteristics, prepared writes   *)
(* and timers: a request is answered once and completely, and a prepared   *)
(* write serves one write and is given up for a reason.  IdleConnections,  *)
(* for any connections and limits: idle connections are closed in less     *)
(* than twice the time.  AccessoriesRead, for any requests that overlap:   *)
(* an answer lists every characteristic once.  DataStream, for any         *)
(* controllers, connections and requests: the server is up for every       *)
(* session that was offered, a request is concluded once, and the sessions *)
(* are those StreamSessions promises.  HDSCodec, for any values and any    *)
(* widths of tags: what is written to a data stream is read again.         *)
(***************************************************************************)
EXTENDS CharacteristicRequests, IdleConnections, AccessoriesRead, DataStream, HDSCodec, Induction_proofs, FiniteSetTheorems, SequenceTheorems, TLAPS

(***************************************************************************)
(* The inductive invariant.  The promises of the characteristics, late     *)
(* ones too, and two timers share the callback of a request; what keeps    *)
(* them apart is that the timer of a request is armed exactly while its    *)
(* answer is due, and that this is the last request only.                  *)
(***************************************************************************)

\* A request was answered if it was started and its timer is not set; only the last one's can be.
OneOutstanding ==
  \A r \in Requests :
    /\ sent[r] = IF r <= started /\ timeout[r] = "none" THEN 1 ELSE 0
    /\ timeout[r] # "none" => r = started

\* While an answer is due, what was asked for is still missing or has its entry.
MissingOrAnswered ==
  \A r \in Requests :
    timeout[r] # "none" => \A c \in asked : c \in missing[r] \/ answer[c] # "none"

\* A timer fires at most MaxLate late, and the second one is set when the first fires.
TimersOnTime ==
  /\ warnedAt <= TimeoutWarning + MaxLate
  /\ \A r \in Requests : timeout[r] = "warning" => elapsed <= TimeoutWarning + MaxLate

\* The timer of a prepared write is that of the last one.
ArmedIsLast == armed # {} => armed = {prepares} /\ prepares >= 1

\* A prepared write that is still armed is one a timed write may use up, once.
OneWriteEach == timedWrites + (IF armed = {} THEN 0 ELSE 1) <= prepares

RequestsIInv ==
  /\ TypeOK
  /\ OneOutstanding
  /\ MissingOrAnswered
  /\ TimersOnTime
  /\ ArmedIsLast
  /\ OneWriteEach

-----------------------------------------------------------------------------
(* Prepared writes.                                                        *)

\* The parts about prepared writes.
PreparedInv ==
  /\ timedWritePid \in Pids \cup {NoPid}
  /\ prepares \in 0..MaxPrepares
  /\ armed \in {{}} \cup {{n} : n \in 1..MaxPrepares}
  /\ armed = {} <=> timedWritePid = NoPid
  /\ ArmedIsLast

\* Every action keeps the prepared write, its timer and their number together.
LEMMA PreparedPreserved == PreparedInv /\ [Next]_vars => PreparedInv'
<1> SUFFICES ASSUME PreparedInv, [Next]_vars PROVE PreparedInv'
  OBVIOUS
<1> USE DEF connection, PreparedInv, ArmedIsLast
<1>1. ASSUME UNCHANGED <<timedWritePid, armed, prepares>> PROVE PreparedInv'
  BY <1>1
<1>2. ASSUME NEW pid \in Pids, PrepareWrite(pid) PROVE PreparedInv'
  <2>1. prepares' = prepares + 1 /\ timedWritePid' = pid /\ armed' = {prepares + 1}
        /\ prepares < MaxPrepares
    BY <1>2 DEF PrepareWrite, ArmedByPrepare
  <2>2. prepares + 1 \in 1..MaxPrepares /\ pid # NoPid
    BY <2>1, RequestsAssumption
  <2> QED
    BY <2>1, <2>2
<1>3. ASSUME NEW n \in 1..MaxPrepares, PreparedWriteExpires(n) PROVE PreparedInv'
  <2>1. armed = {n}
    BY <1>3 DEF PreparedWriteExpires
  <2>2. armed' = {} /\ timedWritePid' = NoPid /\ prepares' = prepares
    BY <1>3, <2>1 DEF PreparedWriteExpires
  <2> QED
    BY <2>2
<1>4. ASSUME NEW pid \in Pids \cup {NoPid}, UsePrepared(pid), UNCHANGED prepares
      PROVE  PreparedInv'
  BY <1>4 DEF UsePrepared
<1>5. ASSUME NEW S \in SUBSET Characteristics, NEW pid \in Pids \cup {NoPid},
             SetCharacteristics(S, pid)
      PROVE  PreparedInv'
  <2>1. UsePrepared(pid) /\ UNCHANGED prepares
    BY <1>5 DEF SetCharacteristics, Begin
  <2> QED
    BY <1>4, <2>1
<1>6. ASSUME NEW pid \in Pids \cup {NoPid}, DuplicatesRefused(pid) PROVE PreparedInv'
  BY <1>4, <1>6 DEF DuplicatesRefused
<1>7. ASSUME \/ \E S \in SUBSET Characteristics : GetCharacteristics(S)
             \/ ServerRefuses
             \/ \E r \in Requests, c \in Characteristics, entry \in {"value", "error"} :
                  Settle(r, c, entry)
             \/ \E r \in Requests : Warn(r) \/ TimeOut(r)
             \/ \E c \in Characteristics : RemoveCharacteristic(c) \/ AddCharacteristic(c)
             \/ Tick
             \/ UNCHANGED vars
      PROVE  UNCHANGED <<timedWritePid, armed, prepares>>
  BY <1>7 DEF GetCharacteristics, Begin, ServerRefuses, Settle, Warn, TimeOut,
              RemoveCharacteristic, AddCharacteristic, Tick, vars
<1> QED
  BY <1>1, <1>2, <1>3, <1>5, <1>6, <1>7 DEF Next

-----------------------------------------------------------------------------
(* Requests.                                                               *)

\* The parts about requests and their timers.
AnswersInv ==
  /\ started \in 0..MaxRequests
  /\ asked \subseteq Characteristics
  /\ timeout \in [Requests -> {"none", "warning", "timeout"}]
  /\ missing \in [Requests -> SUBSET Characteristics]
  /\ answer \in [Characteristics -> Entries]
  /\ sent \in [Requests -> Nat]
  /\ OneOutstanding
  /\ MissingOrAnswered

\* When the connection is free, no timer is set.
LEMMA FreeIsQuiet ==
  ASSUME AnswersInv, Free, NEW r \in Requests
  PROVE  timeout[r] = "none" /\ sent[r] = IF r <= started THEN 1 ELSE 0
<1>1. timeout[r] # "none" => r = started /\ sent[r] = 0
  BY DEF AnswersInv, OneOutstanding
<1>2. timeout[r] = "none"
  BY <1>1 DEF Free
<1> QED
  BY <1>2 DEF AnswersInv, OneOutstanding

\* A request that is refused at once is answered.
LEMMA RefusedAtOnce ==
  ASSUME AnswersInv, Free, started + 1 \in Requests, started' = started + 1,
         sent' = [sent EXCEPT ![started + 1] = 1], asked' = {}, answer' = NoAnswer,
         UNCHANGED <<timeout, missing>>
  PROVE  AnswersInv'
<1>1. started \in Nat /\ MaxRequests \in Nat
  BY RequestsAssumption DEF AnswersInv
<1>2. started' \in 0..MaxRequests
  BY <1>1 DEF Requests
<1>3. /\ timeout' \in [Requests -> {"none", "warning", "timeout"}]
      /\ missing' \in [Requests -> SUBSET Characteristics]
      /\ sent' \in [Requests -> Nat]
  BY DEF AnswersInv
<1>4. answer' \in [Characteristics -> Entries] /\ asked' \subseteq Characteristics
  BY DEF NoAnswer, Entries
<1>5. \A r \in Requests : timeout'[r] = "none" /\ sent[r] = IF r <= started THEN 1 ELSE 0
  BY FreeIsQuiet
<1>6. \A r \in Requests : sent'[r] = IF r = started + 1 THEN 1 ELSE sent[r]
  BY DEF AnswersInv
<1>7. \A r \in Requests : r \in Nat
  BY DEF Requests
<1>8. \A r \in Requests : sent'[r] = IF r <= started' THEN 1 ELSE 0
  BY <1>1, <1>5, <1>6, <1>7
<1>9. OneOutstanding'
  BY <1>5, <1>8 DEF OneOutstanding
<1>10. MissingOrAnswered'
  BY DEF MissingOrAnswered
<1> QED
  BY <1>2, <1>3, <1>4, <1>9, <1>10 DEF AnswersInv

\* A request that is taken up is the only one whose answer is due, and nothing of it is answered.
LEMMA TakenUp ==
  ASSUME AnswersInv, NEW S \in SUBSET Characteristics, NEW how, Begin(S, how)
  PROVE  AnswersInv'
<1>1. started \in Nat /\ MaxRequests \in Nat /\ Free /\ started + 1 \in Requests
  BY RequestsAssumption DEF AnswersInv, Begin
<1>2. /\ started' = started + 1 /\ asked' = S /\ answer' = NoAnswer /\ sent' = sent
      /\ timeout' = [timeout EXCEPT ![started + 1] = "warning"]
      /\ missing' = [missing EXCEPT ![started + 1] = S]
  BY DEF Begin
<1>3. started' \in 0..MaxRequests
  BY <1>1, <1>2 DEF Requests
<1>4. /\ timeout' \in [Requests -> {"none", "warning", "timeout"}]
      /\ missing' \in [Requests -> SUBSET Characteristics]
      /\ sent' \in [Requests -> Nat]
  BY <1>2 DEF AnswersInv
<1>5. answer' \in [Characteristics -> Entries] /\ asked' \subseteq Characteristics
  BY <1>2 DEF NoAnswer, Entries
<1>6. \A r \in Requests : timeout[r] = "none" /\ sent[r] = IF r <= started THEN 1 ELSE 0
  BY <1>1, FreeIsQuiet
<1>7. \A r \in Requests : /\ r \in Nat
                          /\ timeout'[r] = IF r = started + 1 THEN "warning" ELSE timeout[r]
                          /\ missing'[r] = IF r = started + 1 THEN S ELSE missing[r]
  BY <1>2 DEF AnswersInv, Requests
<1>8. OneOutstanding'
  BY <1>1, <1>2, <1>6, <1>7 DEF OneOutstanding
<1>9. MissingOrAnswered'
  BY <1>2, <1>6, <1>7 DEF MissingOrAnswered
<1> QED
  BY <1>3, <1>4, <1>5, <1>8, <1>9 DEF AnswersInv

\* The promise that settles gets its entry, and the last one answers; the promise of a request
\* that was answered before changes nothing.
LEMMA SettlePreserves ==
  ASSUME AnswersInv, NEW r \in Requests, NEW c \in Characteristics,
         NEW entry \in {"value", "error"}, Settle(r, c, entry)
  PROVE  AnswersInv'
<1>1. UNCHANGED <<started, asked>>
  BY DEF Settle, request
<1>2. CASE timeout[r] # "none"
  <2>1. /\ missing' = [missing EXCEPT ![r] = @ \ {c}]
        /\ answer' = [answer EXCEPT ![c] = entry]
    BY <1>2 DEF Settle, Settled
  <2>2. r = started /\ sent[r] = 0
    BY <1>2 DEF AnswersInv, OneOutstanding
  <2>3. missing' \in [Requests -> SUBSET Characteristics] /\ answer' \in [Characteristics -> Entries]
    BY <2>1 DEF AnswersInv, Entries
  <2>4. \A d \in Characteristics : d \in missing[r] \/ answer[d] # "none"
                                     => d \in missing'[r] \/ answer'[d] # "none"
    BY <2>1 DEF AnswersInv
  <2>5. MissingOrAnswered' \/ timeout' = [timeout EXCEPT ![r] = "none"]
    <3> SUFFICES ASSUME UNCHANGED timeout PROVE MissingOrAnswered'
      BY <1>2 DEF Settle, Settled
    <3> QED
      BY <1>1, <2>2, <2>4 DEF AnswersInv, OneOutstanding, MissingOrAnswered
  <2>6. CASE missing'[r] = {}
    <3>1. timeout' = [timeout EXCEPT ![r] = "none"] /\ sent' = [sent EXCEPT ![r] = @ + 1]
      BY <1>2, <2>6 DEF Settle, Settled
    <3>2. /\ timeout' \in [Requests -> {"none", "warning", "timeout"}]
          /\ sent' \in [Requests -> Nat]
      BY <3>1 DEF AnswersInv
    <3>3. \A q \in Requests : /\ timeout'[q] = "none"
                              /\ sent'[q] = IF q = r THEN 1 ELSE sent[q]
      BY <2>2, <3>1 DEF AnswersInv, OneOutstanding
    <3>4. OneOutstanding'
      BY <1>1, <2>2, <3>3 DEF AnswersInv, OneOutstanding, Requests
    <3>5. MissingOrAnswered'
      BY <3>3 DEF MissingOrAnswered
    <3> QED
      BY <1>1, <2>3, <3>2, <3>4, <3>5 DEF AnswersInv
  <2>7. CASE missing'[r] # {}
    <3>1. UNCHANGED <<timeout, sent>>
      BY <1>2, <2>7 DEF Settle, Settled
    <3>2. MissingOrAnswered'
      BY <1>1, <2>2, <2>4, <3>1 DEF AnswersInv, OneOutstanding, MissingOrAnswered
    <3> QED
      BY <1>1, <2>3, <3>1, <3>2 DEF AnswersInv, OneOutstanding
  <2> QED
    BY <2>6, <2>7
<1>3. CASE timeout[r] = "none"
  BY <1>1, <1>3 DEF Settle, Settled, AnswersInv, OneOutstanding, MissingOrAnswered
<1> QED
  BY <1>2, <1>3

\* The second timer answers for the last request, once.
LEMMA TimeOutPreserves ==
  ASSUME AnswersInv, NEW r \in Requests, TimeOut(r)
  PROVE  AnswersInv'
<1>1. /\ timeout[r] = "timeout" /\ timeout' = [timeout EXCEPT ![r] = "none"]
      /\ missing' = [missing EXCEPT ![r] = {}] /\ sent' = [sent EXCEPT ![r] = @ + 1]
      /\ answer' = [c \in Characteristics |-> TimedOutEntry(r, c)]
      /\ UNCHANGED <<started, asked>>
  BY DEF TimeOut, request
<1>2. r = started /\ sent[r] = 0
  BY <1>1 DEF AnswersInv, OneOutstanding
<1>3. /\ timeout' \in [Requests -> {"none", "warning", "timeout"}]
      /\ missing' \in [Requests -> SUBSET Characteristics]
      /\ sent' \in [Requests -> Nat]
  BY <1>1 DEF AnswersInv
<1>4. answer' \in [Characteristics -> Entries]
  BY <1>1 DEF AnswersInv, TimedOutEntry, Entries
<1>5. \A q \in Requests : timeout'[q] = "none" /\ sent'[q] = IF q = r THEN 1 ELSE sent[q]
  BY <1>1, <1>2 DEF AnswersInv, OneOutstanding
<1>6. OneOutstanding'
  BY <1>1, <1>2, <1>5 DEF AnswersInv, OneOutstanding, Requests
<1>7. MissingOrAnswered'
  BY <1>5 DEF MissingOrAnswered
<1> QED
  BY <1>1, <1>3, <1>4, <1>6, <1>7 DEF AnswersInv

\* Every action keeps one answer due at most.
LEMMA AnswersPreserved == AnswersInv /\ [Next]_vars => AnswersInv'
<1> SUFFICES ASSUME AnswersInv, [Next]_vars PROVE AnswersInv'
  OBVIOUS
<1>1. ASSUME UNCHANGED <<started, asked, timeout, missing, answer, sent>> PROVE AnswersInv'
  BY <1>1 DEF AnswersInv, OneOutstanding, MissingOrAnswered
<1>2. ASSUME NEW S \in SUBSET Characteristics,
             \/ GetCharacteristics(S)
             \/ \E pid \in Pids \cup {NoPid} : SetCharacteristics(S, pid)
      PROVE  AnswersInv'
  <2>1. PICK how : Begin(S, how)
    BY <1>2 DEF GetCharacteristics, SetCharacteristics
  <2> QED
    BY <2>1, TakenUp
<1>3. ASSUME ServerRefuses \/ \E pid \in Pids \cup {NoPid} : DuplicatesRefused(pid)
      PROVE  AnswersInv'
  BY <1>3, RefusedAtOnce DEF ServerRefuses, DuplicatesRefused
<1>4. ASSUME NEW r \in Requests, NEW c \in Characteristics, NEW entry \in {"value", "error"},
             Settle(r, c, entry)
      PROVE  AnswersInv'
  BY <1>4, SettlePreserves
<1>5. ASSUME NEW r \in Requests, Warn(r) PROVE AnswersInv'
  <2>1. /\ timeout[r] = "warning" /\ timeout' = [timeout EXCEPT ![r] = "timeout"]
        /\ UNCHANGED <<started, asked, missing, answer, sent>>
    BY <1>5 DEF Warn, request
  <2>2. \A q \in Requests : timeout'[q] = IF q = r THEN "timeout" ELSE timeout[q]
    BY <2>1 DEF AnswersInv
  <2>3. timeout' \in [Requests -> {"none", "warning", "timeout"}]
    BY <2>1 DEF AnswersInv
  <2>4. OneOutstanding' /\ MissingOrAnswered'
    BY <2>1, <2>2 DEF AnswersInv, OneOutstanding, MissingOrAnswered
  <2> QED
    BY <2>1, <2>3, <2>4 DEF AnswersInv
<1>6. ASSUME NEW r \in Requests, TimeOut(r) PROVE AnswersInv'
  BY <1>6, TimeOutPreserves
<1>7. ASSUME \/ \E pid \in Pids : PrepareWrite(pid)
             \/ \E n \in 1..MaxPrepares : PreparedWriteExpires(n)
             \/ \E c \in Characteristics : RemoveCharacteristic(c) \/ AddCharacteristic(c)
             \/ Tick
             \/ UNCHANGED vars
      PROVE  UNCHANGED <<started, asked, timeout, missing, answer, sent>>
  BY <1>7 DEF PrepareWrite, PreparedWriteExpires, RemoveCharacteristic, AddCharacteristic, Tick,
              vars, requests, request, progress
<1> QED
  BY <1>1, <1>2, <1>3, <1>4, <1>5, <1>6, <1>7 DEF Next

-----------------------------------------------------------------------------
(* Timers.                                                                 *)

\* The parts about time.
TimersInv ==
  /\ elapsed \in Nat /\ elapsed <= Horizon
  /\ warnedAt \in Nat
  /\ TimersOnTime

\* Time passes only while a timer is set, and never further than its lateness.
LEMMA TickPreserves ==
  ASSUME AnswersInv, TimersInv, Tick
  PROVE  TimersInv'
<1>1. PICK r \in Requests : timeout[r] # "none" /\ elapsed < Due(r) + MaxLate
  BY DEF Tick
<1>2. elapsed' = elapsed + 1 /\ UNCHANGED <<timeout, warnedAt>>
  BY DEF Tick
<1>3. /\ elapsed \in Nat /\ warnedAt \in Nat /\ warnedAt <= TimeoutWarning + MaxLate
      /\ TimeoutWarning \in Nat /\ TimeoutAfterWarning \in Nat /\ MaxLate \in Nat
  BY RequestsAssumption DEF TimersInv, TimersOnTime
<1>4. CASE timeout[r] = "warning"
  <2>1. elapsed + 1 <= TimeoutWarning + MaxLate
    BY <1>1, <1>3, <1>4 DEF Due
  <2> QED
    BY <1>2, <1>3, <2>1 DEF TimersInv, TimersOnTime, Horizon
<1>5. CASE timeout[r] # "warning"
  <2>1. elapsed + 1 <= Horizon
    BY <1>1, <1>3, <1>5 DEF Due, Horizon
  <2>2. \A q \in Requests : timeout[q] # "warning"
    BY <1>1, <1>5 DEF AnswersInv, OneOutstanding
  <2> QED
    BY <1>2, <1>3, <2>1, <2>2 DEF TimersInv, TimersOnTime
<1> QED
  BY <1>4, <1>5

\* Every action keeps the timers on time.
LEMMA TimersPreserved == AnswersInv /\ TimersInv /\ [Next]_vars => TimersInv'
<1> SUFFICES ASSUME AnswersInv, TimersInv, [Next]_vars PROVE TimersInv'
  OBVIOUS
<1>1. ASSUME UNCHANGED <<elapsed, warnedAt>>,
             \A q \in Requests : timeout'[q] = "warning" => timeout[q] = "warning"
      PROVE  TimersInv'
  BY <1>1 DEF TimersInv, TimersOnTime
<1>2. ASSUME elapsed' = 0, warnedAt' = 0 PROVE TimersInv'
  BY <1>2, RequestsAssumption DEF TimersInv, TimersOnTime, Horizon
<1>3. ASSUME NEW r \in Requests, Warn(r) PROVE TimersInv'
  <2>1. timeout[r] = "warning" /\ warnedAt' = elapsed /\ UNCHANGED elapsed
    BY <1>3 DEF Warn
  <2>2. \A q \in Requests : timeout'[q] # "warning"
    BY <1>3, <2>1 DEF Warn, AnswersInv, OneOutstanding
  <2> QED
    BY <2>1, <2>2 DEF TimersInv, TimersOnTime
<1>4. ASSUME NEW r \in Requests,
             \/ TimeOut(r)
             \/ \E c \in Characteristics, entry \in {"value", "error"} : Settle(r, c, entry)
      PROVE  TimersInv'
  <2>1. UNCHANGED <<elapsed, warnedAt>>
    BY <1>4 DEF TimeOut, Settle
  <2>2. timeout' = [timeout EXCEPT ![r] = "none"] \/ timeout' = timeout
    BY <1>4 DEF TimeOut, Settle
  <2>3. \A q \in Requests : timeout'[q] = "warning" => timeout[q] = "warning"
    BY <2>2 DEF AnswersInv
  <2> QED
    BY <1>1, <2>1, <2>3
<1>5. ASSUME NEW S \in SUBSET Characteristics,
             \/ GetCharacteristics(S)
             \/ \E pid \in Pids \cup {NoPid} : SetCharacteristics(S, pid)
      PROVE  TimersInv'
  BY <1>2, <1>5 DEF GetCharacteristics, SetCharacteristics, Begin
<1>6. ASSUME \/ \E pid \in Pids : PrepareWrite(pid)
             \/ \E n \in 1..MaxPrepares : PreparedWriteExpires(n)
             \/ ServerRefuses
             \/ \E pid \in Pids \cup {NoPid} : DuplicatesRefused(pid)
             \/ \E c \in Characteristics : RemoveCharacteristic(c) \/ AddCharacteristic(c)
             \/ UNCHANGED vars
      PROVE  UNCHANGED <<elapsed, warnedAt, timeout>>
  BY <1>6 DEF PrepareWrite, PreparedWriteExpires, ServerRefuses, DuplicatesRefused,
              RemoveCharacteristic, AddCharacteristic, vars, requests, progress
<1> QED
  BY <1>1, <1>3, <1>4, <1>5, <1>6, TickPreserves DEF Next

-----------------------------------------------------------------------------
(* Timed writes.                                                           *)

\* The parts about handlers that were called.
WritesInv ==
  /\ handled \subseteq asked
  /\ timedWrites \in 0..started
  /\ OneWriteEach

\* A write that calls the handler of a timed write only characteristic uses up a prepared write.
LEMMA TimedWriteUsesPrepared ==
  ASSUME PreparedInv, WritesInv, NEW S \in SUBSET Characteristics,
         NEW pid \in Pids \cup {NoPid}, SetCharacteristics(S, pid),
         handled' \cap TimedWriteOnly # {}
  PROVE  armed # {} /\ armed' = {}
<1>1. PICK c \in S : HandlerCalled(c, StateOfWrite(pid)) /\ c \in TimedWriteOnly
  BY DEF SetCharacteristics, Begin
<1>2. StateOfWrite(pid) # "TIMED_WRITE_REJECTED" /\ StateOfWrite(pid) # "REGULAR_REQUEST"
  BY <1>1 DEF HandlerCalled
<1>3. pid # NoPid /\ pid = timedWritePid
  <2>1. pid = NoPid => StateOfWrite(pid) = "REGULAR_REQUEST"
    BY DEF StateOfWrite
  <2>2. pid # NoPid /\ pid # timedWritePid => StateOfWrite(pid) = "TIMED_WRITE_REJECTED"
    BY DEF StateOfWrite
  <2> QED
    BY <1>2, <2>1, <2>2
<1>4. StateOfWrite(pid) = "TIMED_WRITE_AUTHENTICATED"
  BY <1>3 DEF StateOfWrite
<1> QED
  BY <1>3, <1>4 DEF SetCharacteristics, UsePrepared, PreparedInv

\* Every action counts right.
LEMMA WritesPreserved ==
  AnswersInv /\ PreparedInv /\ WritesInv /\ [Next]_vars => WritesInv'
<1> SUFFICES ASSUME AnswersInv, PreparedInv, WritesInv, [Next]_vars PROVE WritesInv'
  OBVIOUS
<1>1. /\ started \in Nat /\ timedWrites \in Nat /\ prepares \in Nat /\ timedWrites <= started
      /\ timedWrites + (IF armed = {} THEN 0 ELSE 1) <= prepares
  BY DEF AnswersInv, PreparedInv, WritesInv, OneWriteEach
<1>2. ASSUME UNCHANGED <<started, asked, handled, timedWrites, prepares>>,
             armed' = armed \/ armed' = {}
      PROVE  WritesInv'
  BY <1>1, <1>2 DEF WritesInv, OneWriteEach
<1>3. ASSUME NEW pid \in Pids, PrepareWrite(pid) PROVE WritesInv'
  <2>1. prepares' = prepares + 1 /\ UNCHANGED <<started, asked, handled, timedWrites>>
    BY <1>3 DEF PrepareWrite, requests, request
  <2>2. timedWrites <= prepares
    BY <1>1
  <2> QED
    BY <1>1, <2>1, <2>2 DEF WritesInv, OneWriteEach
<1>4. ASSUME NEW n \in 1..MaxPrepares, PreparedWriteExpires(n) PROVE WritesInv'
  <2>1. armed' = {}
    BY <1>4 DEF PreparedWriteExpires, PreparedInv
  <2> QED
    BY <1>2, <1>4, <2>1 DEF PreparedWriteExpires, requests, request
<1>5. ASSUME NEW S \in SUBSET Characteristics, GetCharacteristics(S) PROVE WritesInv'
  <2>1. started' = started + 1 /\ handled' \subseteq asked'
        /\ UNCHANGED <<armed, timedWrites, prepares>>
    BY <1>5 DEF GetCharacteristics, Begin
  <2> QED
    BY <1>1, <2>1 DEF WritesInv, OneWriteEach
<1>6. ASSUME NEW S \in SUBSET Characteristics, NEW pid \in Pids \cup {NoPid},
             SetCharacteristics(S, pid)
      PROVE  WritesInv'
  <2>1. started' = started + 1 /\ handled' \subseteq asked' /\ UNCHANGED prepares
    BY <1>6 DEF SetCharacteristics, Begin
  <2>2. armed' = armed \/ armed' = {}
    BY <1>6 DEF SetCharacteristics, UsePrepared
  <2>3. CASE handled' \cap TimedWriteOnly # {}
    <3>1. timedWrites' = timedWrites + 1
      BY <1>6, <2>3 DEF SetCharacteristics
    <3>2. armed # {} /\ armed' = {}
      BY <1>6, <2>3, TimedWriteUsesPrepared
    <3> QED
      BY <1>1, <2>1, <3>1, <3>2 DEF WritesInv, OneWriteEach
  <2>4. CASE handled' \cap TimedWriteOnly = {}
    <3>1. timedWrites' = timedWrites
      BY <1>1, <1>6, <2>4 DEF SetCharacteristics
    <3> QED
      BY <1>1, <2>1, <2>2, <3>1 DEF WritesInv, OneWriteEach
  <2> QED
    BY <2>3, <2>4
<1>7. ASSUME ServerRefuses \/ \E pid \in Pids \cup {NoPid} : DuplicatesRefused(pid)
      PROVE  WritesInv'
  <2>1. started' = started + 1 /\ handled' = {} /\ UNCHANGED <<timedWrites, prepares>>
    BY <1>7 DEF ServerRefuses, DuplicatesRefused, connection
  <2>2. armed' = armed \/ armed' = {}
    BY <1>7 DEF ServerRefuses, DuplicatesRefused, UsePrepared, connection
  <2> QED
    BY <1>1, <2>1, <2>2 DEF WritesInv, OneWriteEach
<1>8. ASSUME \/ \E r \in Requests, c \in Characteristics, entry \in {"value", "error"} :
                  Settle(r, c, entry)
             \/ \E r \in Requests : Warn(r) \/ TimeOut(r)
             \/ \E c \in Characteristics : RemoveCharacteristic(c) \/ AddCharacteristic(c)
             \/ Tick
             \/ UNCHANGED vars
      PROVE  UNCHANGED <<started, asked, handled, timedWrites, prepares, armed>>
  BY <1>8 DEF Settle, Warn, TimeOut, RemoveCharacteristic, AddCharacteristic, Tick, vars,
              connection, requests, request
<1> QED
  BY <1>2, <1>3, <1>4, <1>5, <1>6, <1>7, <1>8 DEF Next

-----------------------------------------------------------------------------
(* The theorems.                                                           *)

\* The rest of the types.
RestTyped ==
  /\ present \subseteq Characteristics
  /\ running \in [Requests -> SUBSET Characteristics]
  /\ warnedAt <= Horizon

\* The parts are the whole.
LEMMA Parts ==
  RequestsIInv <=> PreparedInv /\ AnswersInv /\ TimersInv /\ WritesInv /\ RestTyped
<1>1. Horizon \in Nat
  BY RequestsAssumption DEF Horizon
<1> QED
  BY <1>1 DEF RequestsIInv, TypeOK, PreparedInv, AnswersInv, TimersInv, WritesInv, RestTyped

\* Every action keeps the rest.
LEMMA RestPreserved == AnswersInv /\ TimersInv /\ RestTyped /\ [Next]_vars => RestTyped'
<1> SUFFICES ASSUME AnswersInv, TimersInv, RestTyped, [Next]_vars PROVE RestTyped'
  OBVIOUS
<1>1. TimersInv'
  BY TimersPreserved
<1>2. warnedAt' <= Horizon
  BY <1>1, RequestsAssumption DEF TimersInv, TimersOnTime, Horizon
<1>3. present' \subseteq Characteristics
  <2>1. \/ present' = present
        \/ \E c \in Characteristics : present' \subseteq present \cup {c}
    BY DEF Next, PrepareWrite, PreparedWriteExpires, GetCharacteristics, SetCharacteristics, Begin,
           ServerRefuses, DuplicatesRefused, Settle, Warn, TimeOut, RemoveCharacteristic,
           AddCharacteristic, Tick, vars, connection
  <2> QED
    BY <2>1 DEF RestTyped
<1>4. running' \in [Requests -> SUBSET Characteristics]
  <2>1. \/ running' = running
        \/ \E S \in SUBSET Characteristics : running' = [running EXCEPT ![started + 1] = S]
        \/ \E r \in Requests, c \in Characteristics : running' = [running EXCEPT ![r] = @ \ {c}]
    BY DEF Next, PrepareWrite, PreparedWriteExpires, GetCharacteristics, SetCharacteristics, Begin,
           ServerRefuses, DuplicatesRefused, Settle, Warn, TimeOut, RemoveCharacteristic,
           AddCharacteristic, Tick, vars, requests, progress
  <2> QED
    BY <2>1 DEF RestTyped
<1> QED
  BY <1>2, <1>3, <1>4 DEF RestTyped

\* The connection starts in the invariant.
LEMMA RequestsInitIInv == Init => RequestsIInv
<1> SUFFICES ASSUME Init PROVE RequestsIInv
  OBVIOUS
<1>1. TypeOK
  BY RequestsAssumption DEF Init, TypeOK, NoAnswer, Entries, Horizon
<1>2. OneOutstanding /\ MissingOrAnswered /\ ArmedIsLast
  BY DEF Init, OneOutstanding, MissingOrAnswered, ArmedIsLast, Requests
<1>3. TimersOnTime /\ OneWriteEach
  BY RequestsAssumption DEF Init, TimersOnTime, OneWriteEach
<1> QED
  BY <1>1, <1>2, <1>3 DEF RequestsIInv

\* No step leaves it.
LEMMA RequestsNextIInv == RequestsIInv /\ [Next]_vars => RequestsIInv'
<1> SUFFICES ASSUME RequestsIInv, [Next]_vars PROVE RequestsIInv'
  OBVIOUS
<1>1. PreparedInv /\ AnswersInv /\ TimersInv /\ WritesInv /\ RestTyped
  BY Parts
<1>2. PreparedInv' /\ AnswersInv' /\ TimersInv' /\ WritesInv' /\ RestTyped'
  BY <1>1, PreparedPreserved, AnswersPreserved, TimersPreserved, WritesPreserved, RestPreserved
<1>3. RequestsIInv' <=> (PreparedInv /\ AnswersInv /\ TimersInv /\ WritesInv /\ RestTyped)'
  BY Parts, PTL
<1> QED
  BY <1>2, <1>3

\* Every behaviour stays in the invariant.
THEOREM RequestsAlwaysIInv == Spec => []RequestsIInv
  BY RequestsInitIInv, RequestsNextIInv, PTL DEF Spec

\* The callback of a request is called once however late its handlers settle, and a timed write
\* only characteristic is written once for each /prepare at most, for any number of requests and
\* any timeouts (handleCharacteristics, checkAnswer of HAPServer and Accessory).
THEOREM RequestsAlwaysInOrder == Spec => []RequestsInOrder
<1>1. RequestsIInv => RequestsInOrder
  <2> SUFFICES ASSUME RequestsIInv PROVE RequestsInOrder
    OBVIOUS
  <2>1. AnsweredOnce
    BY DEF RequestsIInv, OneOutstanding, AnsweredOnce
  <2>2. TimedWritesPrepared
    BY DEF RequestsIInv, TypeOK, OneWriteEach, TimedWritesPrepared
  <2> QED
    BY <2>1, <2>2 DEF RequestsIInv, RequestsInOrder
<1> QED
  BY <1>1, RequestsAlwaysIInv, PTL

\* A step that sends the answer of a request has an entry for everything that was asked for.
LEMMA AnswerCompleteStep ==
  ASSUME RequestsIInv, Next, NEW r \in Requests, sent[r] = 0, sent'[r] = 1, NEW c \in asked'
  PROVE  answer'[c] # "none" \/ c \notin present
<1>1. AnswersInv
  BY Parts
<1>2. ASSUME NEW q \in Requests, TimeOut(q)
      PROVE  answer'[c] # "none" \/ c \notin present
  <2>1. c \in asked /\ c \in Characteristics /\ timeout[q] # "none"
    BY <1>1, <1>2 DEF TimeOut, request, AnswersInv
  <2>2. c \in missing[q] \/ answer[c] # "none"
    BY <1>1, <2>1 DEF AnswersInv, MissingOrAnswered
  <2> QED
    BY <1>2, <2>1, <2>2 DEF TimeOut, TimedOutEntry
<1>3. ASSUME NEW q \in Requests, NEW d \in Characteristics, NEW entry \in {"value", "error"},
             Settle(q, d, entry)
      PROVE  answer'[c] # "none"
  <2>1. /\ timeout[q] # "none" /\ missing'[q] = {} /\ missing' = [missing EXCEPT ![q] = @ \ {d}]
        /\ answer' = [answer EXCEPT ![d] = entry]
    BY <1>3 DEF Settle, Settled
  <2>2. c \in asked /\ c \in Characteristics
    BY <1>1, <1>3 DEF Settle, request, AnswersInv
  <2>3. c \in missing[q] \/ answer[c] # "none"
    BY <1>1, <2>1, <2>2 DEF AnswersInv, MissingOrAnswered
  <2>4. c = d \/ c \notin missing[q]
    BY <1>1, <2>1 DEF AnswersInv
  <2> QED
    BY <1>1, <2>1, <2>2, <2>3, <2>4 DEF AnswersInv
<1>4. ASSUME ServerRefuses \/ \E pid \in Pids \cup {NoPid} : DuplicatesRefused(pid)
      PROVE  FALSE
  BY <1>4 DEF ServerRefuses, DuplicatesRefused
<1>5. ASSUME \/ \E pid \in Pids : PrepareWrite(pid)
             \/ \E n \in 1..MaxPrepares : PreparedWriteExpires(n)
             \/ \E S \in SUBSET Characteristics : GetCharacteristics(S)
             \/ \E S \in SUBSET Characteristics, pid \in Pids \cup {NoPid} :
                  SetCharacteristics(S, pid)
             \/ \E q \in Requests : Warn(q)
             \/ \E d \in Characteristics : RemoveCharacteristic(d) \/ AddCharacteristic(d)
             \/ Tick
      PROVE  UNCHANGED sent
  BY <1>5 DEF PrepareWrite, PreparedWriteExpires, GetCharacteristics, SetCharacteristics, Begin,
              Warn, RemoveCharacteristic, AddCharacteristic, Tick, requests, progress
<1> QED
  BY <1>2, <1>3, <1>4, <1>5 DEF Next

\* A step that gives a prepared write up belongs to a new request, or is the timer of that write.
LEMMA PreparedWriteHonouredStep ==
  ASSUME RequestsIInv, Next, timedWritePid # NoPid, timedWritePid' = NoPid
  PROVE  started' # started \/ prepares \in armed \ armed'
<1>1. started \in Nat /\ armed = {prepares}
  BY DEF RequestsIInv, TypeOK, ArmedIsLast
<1>2. ASSUME NEW n \in 1..MaxPrepares, PreparedWriteExpires(n)
      PROVE  prepares \in armed \ armed'
  BY <1>1, <1>2 DEF PreparedWriteExpires
<1>3. ASSUME \/ \E S \in SUBSET Characteristics, pid \in Pids \cup {NoPid} :
                  SetCharacteristics(S, pid)
             \/ \E pid \in Pids \cup {NoPid} : DuplicatesRefused(pid)
      PROVE  started' # started
  <2>1. started' = started + 1
    BY <1>3 DEF SetCharacteristics, Begin, DuplicatesRefused
  <2> QED
    BY <1>1, <2>1
<1>4. ASSUME NEW pid \in Pids, PrepareWrite(pid)
      PROVE  FALSE
  BY <1>4, RequestsAssumption DEF PrepareWrite
<1>5. ASSUME \/ \E S \in SUBSET Characteristics : GetCharacteristics(S)
             \/ ServerRefuses
             \/ \E r \in Requests, c \in Characteristics, entry \in {"value", "error"} :
                  Settle(r, c, entry)
             \/ \E r \in Requests : Warn(r) \/ TimeOut(r)
             \/ \E c \in Characteristics : RemoveCharacteristic(c) \/ AddCharacteristic(c)
             \/ Tick
      PROVE  UNCHANGED timedWritePid
  BY <1>5 DEF GetCharacteristics, ServerRefuses, Settle, Warn, TimeOut, RemoveCharacteristic,
              AddCharacteristic, Tick, connection
<1> QED
  BY <1>2, <1>3, <1>4, <1>5 DEF Next

\* No characteristic is missing from an answer, and no prepared write is given up but for a write,
\* its replacement or its own ttl, however the promises and the timers interleave.
THEOREM NothingEverLeftOut == Spec => NothingLeftOut
<1> DEFINE Complete == \A r \in Requests :
                         sent[r] = 0 /\ sent'[r] = 1
                           => \A c \in asked' : answer'[c] # "none" \/ c \notin present
           Honoured == timedWritePid # NoPid /\ timedWritePid' = NoPid
                         => started' # started \/ prepares \in armed \ armed'
<1>1. RequestsIInv /\ [Next]_vars => [Complete]_vars
  <2> SUFFICES ASSUME RequestsIInv, Next PROVE Complete
    OBVIOUS
  <2> QED
    BY AnswerCompleteStep
<1>2. RequestsIInv /\ [Next]_vars => [Honoured]_vars
  <2> SUFFICES ASSUME RequestsIInv, Next PROVE Honoured
    OBVIOUS
  <2> QED
    BY PreparedWriteHonouredStep
<1>3. Spec => AnswerComplete
  BY <1>1, RequestsAlwaysIInv, PTL DEF Spec, AnswerComplete
<1>4. Spec => PreparedWriteHonoured
  BY <1>2, RequestsAlwaysIInv, PTL DEF Spec, PreparedWriteHonoured
<1> QED
  BY <1>3, <1>4 DEF NothingLeftOut

-----------------------------------------------------------------------------
(* IdleConnections.                                                        *)

\* The timer is set for an hour at most, and for less than two less the time a connection it does not
\* close has been idle.
LEMMA NextTimeoutSoon ==
  ASSUME NEW idle \in [Clients -> 0..Forever], NEW S \in SUBSET Clients
  PROVE  /\ NextTimeout(S, idle) \in 0..MaxIdleTime
         /\ \A c \in S \ Idle(S, idle) : idle[c] + NextTimeout(S, idle) < 2 * MaxIdleTime
<1> DEFINE Left == {0} \cup {MaxIdleTime - idle[c] : c \in S \ Idle(S, idle)}
<1>1. \A c \in S \ Idle(S, idle) : idle[c] \in 0..(MaxIdleTime - 1)
  BY IdleAssumption DEF Idle
<1>2. Left \subseteq 0..MaxIdleTime /\ Left # {}
  <2>1. \A c \in S \ Idle(S, idle) : MaxIdleTime - idle[c] \in 0..MaxIdleTime
    BY <1>1, IdleAssumption
  <2> QED
    BY <2>1, IdleAssumption
<1>3. Max(Left) \in Left
  <2> HIDE DEF Left
  <2> QED
    BY <1>2, LargestExists, IdleAssumption
<1>4. Max(Left) \in 0..MaxIdleTime
  BY <1>2, <1>3
<1>5. ASSUME NEW c \in S \ Idle(S, idle)
      PROVE  idle[c] + Max(Left) < 2 * MaxIdleTime
  <2>1. idle[c] \in 0..(MaxIdleTime - 1)
    BY <1>1
  <2> HIDE DEF Left
  <2> QED
    BY <1>4, <2>1, IdleAssumption
<1> QED
  BY <1>4, <1>5 DEF NextTimeout

(***************************************************************************)
(* The inductive invariant of the registry.  The timer does not wait for   *)
(* the connection that is due next; what it has left and the time any of   *)
(* them was idle add up to less than twice the limit, at every moment.     *)
(***************************************************************************)
IdleIInv ==
  /\ IdleTypeOK
  /\ IsFiniteSet(registry)
  /\ ManyAreWatched
  /\ \A left \in idleTimeout, c \in registry \ ending : idleFor[c] + left < 2 * MaxIdleTime

\* A new server has no connections.
LEMMA IdleInitIInv == IdleInit => IdleIInv
<1> SUFFICES ASSUME IdleInit PROVE IdleIInv
  OBVIOUS
<1>1. IdleTypeOK
  BY IdleAssumption DEF IdleInit, IdleTypeOK
<1>2. IsFiniteSet(registry) /\ Cardinality(registry) = 0
  BY FS_EmptySet DEF IdleInit
<1>3. ManyAreWatched
  BY <1>2, IdleAssumption DEF ManyAreWatched
<1> QED
  BY <1>1, <1>2, <1>3 DEF IdleIInv, IdleInit

\* However many connections there are and however idle they were, scheduleNextConnectionIdleTimeout
\* leaves the invariant.
LEMMA ScheduleNextIInv ==
  ASSUME IdleTypeOK, IsFiniteSet(registry'), registry' \in SUBSET Clients, registry \subseteq registry',
         idleFor' \in [Clients -> 0..Forever], ScheduleNext(registry', idleFor')
  PROVE  IdleIInv'
<1>1. /\ NextTimeout(registry', idleFor') \in 0..MaxIdleTime
      /\ \A c \in registry' \ Idle(registry', idleFor') :
           idleFor'[c] + NextTimeout(registry', idleFor') < 2 * MaxIdleTime
  <2> PICK S, idle : S = registry' /\ idle = idleFor'
    OBVIOUS
  <2>1. S \in SUBSET Clients /\ idle \in [Clients -> 0..Forever]
    OBVIOUS
  <2>2. /\ NextTimeout(S, idle) \in 0..MaxIdleTime
        /\ \A c \in S \ Idle(S, idle) : idle[c] + NextTimeout(S, idle) < 2 * MaxIdleTime
    BY <2>1, NextTimeoutSoon
  <2> QED
    BY <2>2
<1>2. /\ ending' = ending \cup Idle(registry', idleFor')
      /\ idleTimeout' = IF Watched(registry') THEN {NextTimeout(registry', idleFor')} ELSE {}
  BY DEF ScheduleNext
<1>3. IdleTypeOK'
  <2>1. ending' \subseteq registry'
    BY <1>2 DEF IdleTypeOK, Idle
  <2>2. idleTimeout' \in {{}} \cup {{left} : left \in 0..MaxIdleTime}
    BY <1>1, <1>2
  <2> QED
    BY <2>1, <2>2 DEF IdleTypeOK
<1>4. ManyAreWatched'
  BY <1>2 DEF ManyAreWatched, Watched
<1>5. \A left \in idleTimeout', c \in registry' \ ending' : idleFor'[c] + left < 2 * MaxIdleTime
  BY <1>1, <1>2
<1> QED
  BY <1>3, <1>4, <1>5 DEF IdleIInv

\* Every step of the registry keeps the invariant.
LEMMA IdleNextIInv == IdleIInv /\ [IdleNext]_idleVars => IdleIInv'
<1> SUFFICES ASSUME IdleIInv, [IdleNext]_idleVars PROVE IdleIInv'
  OBVIOUS
<1> USE DEF IdleIInv
<1>1. ASSUME NEW c \in Clients, AcceptClient(c)
      PROVE  IdleIInv'
  <2>1. /\ registry' = registry \cup {c} /\ registry' \in SUBSET Clients
        /\ idleFor' = [idleFor EXCEPT ![c] = 0]
        /\ idleFor' \in [Clients -> 0..Forever]
    BY <1>1, IdleAssumption DEF AcceptClient, IdleTypeOK
  <2>2. IsFiniteSet(registry')
    BY <2>1, FS_AddElement
  <2>3. CASE Watched(registry') /\ idleTimeout = {}
    <3>1. ScheduleNext(registry', idleFor')
      BY <1>1, <2>3 DEF AcceptClient
    <3> QED
      BY <2>1, <2>2, <3>1, ScheduleNextIInv
  <2>4. CASE ~(Watched(registry') /\ idleTimeout = {})
    <3>1. UNCHANGED <<listening, ending, idleTimeout>> /\ c \notin registry
      BY <1>1, <2>4 DEF AcceptClient
    <3>2. IdleTypeOK'
      BY <2>1, <3>1 DEF IdleTypeOK
    <3>3. ManyAreWatched'
      BY <2>4, <3>1 DEF ManyAreWatched, Watched
    <3>4. ASSUME NEW left \in idleTimeout', NEW d \in registry' \ ending'
          PROVE  idleFor'[d] + left < 2 * MaxIdleTime
      <4>1. left \in 0..MaxIdleTime /\ left \in idleTimeout
        BY <3>1 DEF IdleTypeOK
      <4>2. CASE d = c
        BY <2>1, <4>1, <4>2, IdleAssumption DEF IdleTypeOK
      <4>3. CASE d # c
        BY <2>1, <3>1, <4>1, <4>3 DEF IdleTypeOK
      <4> QED
        BY <4>2, <4>3
    <3> QED
      BY <2>2, <3>2, <3>3, <3>4
  <2> QED
    BY <2>3, <2>4
<1>2. ASSUME NEW c \in Clients, SocketOperation(c)
      PROVE  IdleIInv'
  <2>1. /\ idleFor' = [idleFor EXCEPT ![c] = 0]
        /\ UNCHANGED <<listening, registry, ending, idleTimeout>>
    BY <1>2 DEF SocketOperation
  <2>2. IdleTypeOK'
    BY <2>1, IdleAssumption DEF IdleTypeOK
  <2>3. ManyAreWatched'
    BY <2>1 DEF ManyAreWatched
  <2>4. ASSUME NEW left \in idleTimeout', NEW d \in registry' \ ending'
        PROVE  idleFor'[d] + left < 2 * MaxIdleTime
    <3>1. left \in 0..MaxIdleTime /\ left \in idleTimeout /\ idleFor[d] \in Nat /\ d \in Clients
      BY <2>1 DEF IdleTypeOK
    <3>2. idleFor[d] + left < 2 * MaxIdleTime
      BY <2>1, <3>1
    <3>3. CASE d = c
      BY <2>1, <3>1, <3>3, IdleAssumption DEF IdleTypeOK
    <3>4. CASE d # c
      BY <2>1, <3>1, <3>2, <3>4 DEF IdleTypeOK
    <3> QED
      BY <3>3, <3>4
  <2> QED
    BY <2>1, <2>2, <2>3, <2>4
<1>3. ASSUME NEW c \in Clients, ClientClosed(c)
      PROVE  IdleIInv'
  <2>1. /\ registry' = registry \ {c} /\ ending' = ending \ {c}
        /\ UNCHANGED <<listening, idleFor, idleTimeout>>
    BY <1>3 DEF ClientClosed
  <2>2. IdleTypeOK'
    BY <2>1 DEF IdleTypeOK
  <2>3. IsFiniteSet(registry') /\ Cardinality(registry') <= Cardinality(registry)
    BY <2>1, FS_Subset
  <2>4. ManyAreWatched'
    <3>1. Cardinality(registry) \in Nat /\ Cardinality(registry') \in Nat
      BY <2>3, FS_CardinalityType
    <3>2. Cardinality(registry') >= TimeoutLimit => Cardinality(registry) >= TimeoutLimit
      BY <2>3, <3>1, IdleAssumption
    <3> QED
      BY <2>1, <3>2 DEF ManyAreWatched
  <2> QED
    BY <2>1, <2>2, <2>3, <2>4
<1>4. ASSUME IdleTimerFires
      PROVE  IdleIInv'
  <2>1. ScheduleNext(registry, idleFor) /\ UNCHANGED <<listening, registry, idleFor>>
    BY <1>4 DEF IdleTimerFires
  <2>2. ScheduleNext(registry', idleFor')
    BY <2>1
  <2> QED
    BY <2>1, <2>2, ScheduleNextIInv DEF IdleTypeOK
<1>5. ASSUME StopListening
      PROVE  IdleIInv'
  BY <1>5 DEF StopListening, IdleTypeOK, ManyAreWatched
<1>6. ASSUME IdleTick
      PROVE  IdleIInv'
  <2>1. /\ idleTimeout # {0}
        /\ idleTimeout' = {left - 1 : left \in idleTimeout}
        /\ UNCHANGED <<listening, registry, ending>>
    BY <1>6 DEF IdleTick
  <2>2. \A c \in Clients : idleFor'[c] \in 0..Forever /\ idleFor'[c] <= idleFor[c] + 1
    BY <1>6, IdleAssumption DEF IdleTick, IdleTypeOK
  <2>3. \A left \in idleTimeout : left \in 1..MaxIdleTime
    BY <2>1, IdleAssumption DEF IdleTypeOK
  <2>4. IdleTypeOK'
    <3>1. idleFor' \in [Clients -> 0..Forever]
      BY <1>6, <2>2 DEF IdleTick
    <3>2. CASE idleTimeout = {}
      BY <2>1, <3>1, <3>2 DEF IdleTypeOK
    <3>3. ASSUME NEW left \in 0..MaxIdleTime, idleTimeout = {left}
          PROVE  IdleTypeOK'
      <4>1. idleTimeout' = {left - 1} /\ left - 1 \in 0..MaxIdleTime
        BY <2>1, <2>3, <3>3, IdleAssumption
      <4> QED
        BY <2>1, <3>1, <4>1 DEF IdleTypeOK
    <3> QED
      BY <3>2, <3>3 DEF IdleTypeOK
  <2>5. ManyAreWatched'
    BY <2>1 DEF ManyAreWatched
  <2>6. ASSUME NEW left \in idleTimeout', NEW c \in registry' \ ending'
        PROVE  idleFor'[c] + left < 2 * MaxIdleTime
    <3>1. PICK before \in idleTimeout : left = before - 1
      BY <2>1
    <3>2. c \in Clients /\ idleFor[c] \in Nat /\ idleFor[c] + before < 2 * MaxIdleTime
      BY <2>1 DEF IdleTypeOK
    <3> QED
      BY <2>2, <2>3, <3>1, <3>2, IdleAssumption
  <2> QED
    BY <2>1, <2>4, <2>5, <2>6
<1>7. CASE UNCHANGED idleVars
  BY <1>7 DEF idleVars, IdleTypeOK, ManyAreWatched
<1> QED
  BY <1>1, <1>2, <1>3, <1>4, <1>5, <1>6, <1>7 DEF IdleNext

\* With many connections the timer runs, and none of them is idle for twice the time, for any limit,
\* any time and any connections (EventedHTTPServer.scheduleNextConnectionIdleTimeout).
THEOREM IdleConnectionsAlwaysEnd == IdleSpec => []IdleConnectionsEnd
<1>1. IdleIInv => IdleConnectionsEnd
  <2> SUFFICES ASSUME IdleIInv, NEW left \in idleTimeout, NEW c \in registry \ ending
               PROVE  idleFor[c] < 2 * MaxIdleTime
    BY DEF IdleConnectionsEnd, IdleIInv, IdleAreClosed
  <2>1. idleFor[c] + left < 2 * MaxIdleTime /\ idleFor[c] \in Nat /\ left \in Nat
    BY DEF IdleIInv, IdleTypeOK
  <2> QED
    BY <2>1, IdleAssumption
<1>2. IdleSpec => []IdleIInv
  BY IdleInitIInv, IdleNextIInv, PTL DEF IdleSpec
<1> QED
  BY <1>1, <1>2, PTL

-----------------------------------------------------------------------------
(***************************************************************************)
(* Reading the database.  The invariant says what the content of a service *)
(* lists at any moment: those of its characteristics that are no longer    *)
(* awaited, once each.  A handler that is late finds the timer off.        *)
(***************************************************************************)

EntryValues == {"undefined", "read", "default", "stored", "null"}
ReadEntries == [characteristic: AllCharacteristics, value: EntryValues]

\* e has one entry for each characteristic of S, and no other.
Lists(e, S) ==
  /\ e \in Seq(ReadEntries)
  /\ Len(e) = Cardinality(S)
  /\ \A i \in 1..Len(e) : e[i].characteristic \in S
  /\ \A c \in S : \E i \in 1..Len(e) : e[i].characteristic = c

\* An entry for one characteristic more.
LEMMA ListsAppend ==
  ASSUME NEW S \in SUBSET AllCharacteristics, IsFiniteSet(S), NEW e, Lists(e, S),
         NEW c \in AllCharacteristics, c \notin S, NEW v \in EntryValues
  PROVE  Lists(Append(e, Entry(c, v)), S \cup {c})
<1> DEFINE n == Entry(c, v)
           f == Append(e, n)
<1>1. n \in ReadEntries /\ n.characteristic = c
  BY DEF ReadEntries, Entry
<1>2. /\ f \in Seq(ReadEntries) /\ Len(f) = Len(e) + 1 /\ Len(e) \in Nat
      /\ \A i \in 1..Len(e) : f[i] = e[i]
      /\ f[Len(e) + 1] = n
  <2> HIDE DEF n
  <2> QED
    BY <1>1, AppendProperties DEF Lists
<1>3. Cardinality(S \cup {c}) = Cardinality(S) + 1
  BY FS_AddElement
<1> HIDE DEF f, n
<1>4. \A i \in 1..Len(f) : f[i].characteristic \in S \cup {c}
  <2> SUFFICES ASSUME NEW i \in 1..Len(f) PROVE f[i].characteristic \in S \cup {c}
    OBVIOUS
  <2>1. i = Len(e) + 1 \/ i \in 1..Len(e)
    BY <1>2
  <2> QED
    BY <1>1, <1>2, <2>1 DEF Lists
<1>5. ASSUME NEW d \in S \cup {c}
      PROVE  \E i \in 1..Len(f) : f[i].characteristic = d
  <2>1. CASE d = c
    <3>1. Len(e) + 1 \in 1..Len(f)
      BY <1>2
    <3> QED
      BY <1>1, <1>2, <2>1, <3>1
  <2>2. CASE d \in S
    <3>1. PICK i \in 1..Len(e) : e[i].characteristic = d
      BY <2>2 DEF Lists
    <3>2. i \in 1..Len(f)
      BY <1>2
    <3> QED
      BY <1>2, <3>1, <3>2
  <2> QED
    BY <2>1, <2>2
<1>6. Len(f) = Cardinality(S \cup {c})
  BY <1>2, <1>3 DEF Lists
<1> QED
  BY <1>2, <1>4, <1>5, <1>6 DEF Lists, f, n

\* The entries of those that timed out, one for each.
LEMMA TimedOutLists ==
  ASSUME NEW U \in SUBSET AllCharacteristics, IsFiniteSet(U)
  PROVE  Lists(TimedOutEntries(U), U)
<1> DEFINE T == {Entry(c, "null") : c \in U}
           n == Cardinality(T)
           e == SetToSeq(T)
<1>1. \A c \in U : Entry(c, "null") \in ReadEntries /\ Entry(c, "null").characteristic = c
  BY DEF ReadEntries, Entry, EntryValues
<1>2. IsFiniteSet(T) /\ n = Cardinality(U)
  <2> DEFINE b == [c \in U |-> Entry(c, "null")]
  <2>1. b \in [U -> T] /\ \A x, y \in U : b[x] = b[y] => x = y
    BY <1>1
  <2>2. \A t \in T : \E c \in U : b[c] = t
    OBVIOUS
  <2>3. b \in Bijection(U, T)
    <3> HIDE DEF b, T
    <3> QED
      BY <2>1, <2>2 DEF Bijection, Injection, Surjection, IsInjective
  <2>4. ExistsBijection(U, T)
    BY <2>3 DEF ExistsBijection
  <2> HIDE DEF T
  <2> QED
    BY <2>4, FS_Bijection
<1>3. n \in Nat /\ ExistsBijection(1..n, T)
  <2> HIDE DEF T
  <2> QED
    BY <1>2, FS_CardinalityType
<1>4. e \in [1..n -> T] /\ IsInjective(e)
  <2> HIDE DEF T
  <2>1. PICK f \in Bijection(1..n, T) : TRUE
    BY <1>3 DEF ExistsBijection
  <2>2. f \in [1..n -> T] /\ IsInjective(f)
    BY <2>1 DEF Bijection, Injection
  <2> QED
    BY <2>2 DEF SetToSeq
<1>5. \A t \in T : \E i \in 1..n : e[i] = t
  <2> HIDE DEF T, e
  <2>1. e \in Injection(1..n, T)
    BY <1>4 DEF Injection
  <2>2. IsFiniteSet(1..n) /\ Cardinality(1..n) = n
    BY <1>3, FS_Interval
  <2>3. e \in Surjection(1..n, T)
    BY <1>2, <2>1, <2>2, FS_Injection
  <2> QED
    BY <2>3 DEF Surjection
<1>6. e \in Seq(ReadEntries) /\ Len(e) = n
  <2>1. \A t \in T : t \in ReadEntries
    BY <1>1
  <2>2. e \in [1..n -> ReadEntries]
    <3> HIDE DEF T, e
    <3> QED
      BY <1>4, <2>1
  <2> HIDE DEF T, e
  <2> QED
    BY <1>3, <2>2
<1>7. \A t \in T : t.characteristic \in U
  BY <1>1
<1>8. \A c \in U : \E t \in T : t.characteristic = c
  BY <1>1
<1>9. e = TimedOutEntries(U)
  BY DEF TimedOutEntries
<1> HIDE DEF T, e
<1>10. Lists(e, U)
  <2>1. \A i \in 1..Len(e) : e[i].characteristic \in U
    BY <1>4, <1>6, <1>7
  <2>2. ASSUME NEW c \in U
        PROVE  \E i \in 1..Len(e) : e[i].characteristic = c
    <3>1. PICK t \in T : t.characteristic = c
      BY <1>8
    <3>2. PICK i \in 1..n : e[i] = t
      BY <1>5
    <3> QED
      BY <1>6, <3>1, <3>2
  <2> QED
    BY <1>2, <1>6, <2>1, <2>2 DEF Lists
<1> QED
  BY <1>9, <1>10

\* ReadEntries of disjoint sets, one after the other.
LEMMA ListsConcat ==
  ASSUME NEW S, NEW U, IsFiniteSet(S), IsFiniteSet(U), S \cap U = {},
         NEW e, Lists(e, S), NEW f, Lists(f, U)
  PROVE  Lists(e \o f, S \cup U)
<1> DEFINE g == e \o f
<1>1. /\ g \in Seq(ReadEntries) /\ Len(g) = Len(e) + Len(f) /\ Len(e) \in Nat /\ Len(f) \in Nat
      /\ \A i \in 1..(Len(e) + Len(f)) : g[i] = IF i <= Len(e) THEN e[i] ELSE f[i - Len(e)]
  <2>1. e \in Seq(ReadEntries) /\ f \in Seq(ReadEntries)
    BY DEF Lists
  <2>2. /\ g \in Seq(ReadEntries) /\ Len(g) = Len(e) + Len(f)
        /\ \A i \in 1..(Len(e) + Len(f)) : g[i] = IF i <= Len(e) THEN e[i] ELSE f[i - Len(e)]
    BY <2>1, ConcatProperties
  <2>3. Len(e) \in Nat /\ Len(f) \in Nat
    BY <2>1, LenProperties
  <2> QED
    BY <2>2, <2>3
<1>2. Cardinality(S \cup U) = Cardinality(S) + Cardinality(U)
  <2>1. Cardinality(S) \in Nat /\ Cardinality(U) \in Nat /\ Cardinality(S \cap U) = 0
    BY FS_CardinalityType, FS_EmptySet
  <2> QED
    <3>1. Cardinality(S \cup U) = Cardinality(S) + Cardinality(U) - Cardinality(S \cap U)
      BY FS_Union
    <3> QED
      BY <2>1, <3>1
<1> HIDE DEF g
<1>3. \A i \in 1..Len(g) : g[i].characteristic \in S \cup U
  <2> SUFFICES ASSUME NEW i \in 1..Len(g) PROVE g[i].characteristic \in S \cup U
    OBVIOUS
  <2>1. CASE i <= Len(e)
    <3>1. g[i] = e[i] /\ i \in 1..Len(e)
      BY <1>1, <2>1
    <3> QED
      BY <3>1 DEF Lists
  <2>2. CASE ~(i <= Len(e))
    <3>1. g[i] = f[i - Len(e)] /\ i - Len(e) \in 1..Len(f)
      BY <1>1, <2>2
    <3> QED
      BY <3>1 DEF Lists
  <2> QED
    BY <2>1, <2>2
<1>4. ASSUME NEW c \in S \cup U
      PROVE  \E i \in 1..Len(g) : g[i].characteristic = c
  <2>1. CASE c \in S
    <3>1. PICK i \in 1..Len(e) : e[i].characteristic = c
      BY <2>1 DEF Lists
    <3>2. i \in 1..Len(g) /\ g[i] = e[i]
      BY <1>1
    <3> QED
      BY <3>1, <3>2
  <2>2. CASE c \in U
    <3>1. PICK i \in 1..Len(f) : f[i].characteristic = c
      BY <2>2 DEF Lists
    <3>2. i + Len(e) \in 1..Len(g) /\ ~(i + Len(e) <= Len(e)) /\ (i + Len(e)) - Len(e) = i
      BY <1>1
    <3>3. g[i + Len(e)] = f[i]
      BY <1>1, <3>2
    <3> QED
      BY <3>1, <3>2, <3>3
  <2> QED
    BY <2>1, <2>2
<1>5. Len(g) = Cardinality(S \cup U)
  BY <1>1, <1>2 DEF Lists
<1> QED
  BY <1>1, <1>3, <1>4, <1>5 DEF Lists, g

ReadTypes ==
  /\ phase \in [ReadRequests -> {"none", "own", "bridged", "answered"}]
  /\ contact \in [ReadRequests -> BOOLEAN]
  /\ timer \in [ReadRequests -> [ServiceNames -> {"off", "warning", "late"}]]
  /\ unanswered \in [ReadRequests -> SUBSET AllCharacteristics]
  /\ content \in [ReadRequests -> [ServiceNames -> Seq(ReadEntries)]]
  /\ age \in [ReadRequests -> Nat] /\ phaseAge \in [ReadRequests -> Nat]
  /\ \A r \in ReadRequests : age[r] >= phaseAge[r]
  /\ sinceLast \in 0..(Recent + 1)

\* The services that were asked in a phase, and those of them that are in the content by now.
Begun(p) == IF p = "none" THEN {} ELSE IF p = "own" THEN OwnServices ELSE ServiceNames
Completed(r, s) == IF s \in Begun(phase[r]) THEN Characteristic[s] \ unanswered[r] ELSE {}

\* The content of a service lists those that answered, once each.  Its timer runs while some have
\* not; before it fires for the second time nobody timed out.
ServiceIsRead(r, s) ==
  /\ Lists(content[r][s], Completed(r, s))
  /\ timer[r][s] = "off" => unanswered[r] \cap Characteristic[s] = {}
  /\ timer[r][s] # "off" => /\ s \in Begun(phase[r])
                            /\ \A i \in 1..Len(content[r][s]) : content[r][s][i].value # "null"

\* A phase is over when its timers are off.
PhasesAreOver ==
  \A r \in ReadRequests, s \in ServiceNames :
    phase[r] = "answered" \/ (phase[r] = "bridged" /\ s \in OwnServices) => timer[r][s] = "off"

ReadIInv ==
  /\ ReadTypes
  /\ \A r \in ReadRequests, s \in ServiceNames : ServiceIsRead(r, s)
  /\ PhasesAreOver

\* A characteristic is of one service, and of finitely many.
LEMMA ServicesAreDisjoint ==
  /\ \A s \in ServiceNames : IsFiniteSet(Characteristic[s]) /\ Characteristic[s] \subseteq AllCharacteristics
  /\ \A s, t \in ServiceNames : s # t => Characteristic[s] \cap Characteristic[t] = {}
  /\ \A c \in AllCharacteristics : /\ ServiceOf(c) \in ServiceNames /\ c \in Characteristic[ServiceOf(c)]
                                   /\ \A s \in ServiceNames : c \in Characteristic[s] => s = ServiceOf(c)
<1>1. \A s \in ServiceNames : IsFiniteSet(Characteristic[s]) /\ Characteristic[s] \subseteq AllCharacteristics
  BY ReadAssumption DEF AllCharacteristics
<1>2. \A s, t \in ServiceNames : s # t => Characteristic[s] \cap Characteristic[t] = {}
  BY ReadAssumption
<1>3. ASSUME NEW c \in AllCharacteristics
      PROVE  ServiceOf(c) \in ServiceNames /\ c \in Characteristic[ServiceOf(c)]
  <2>1. \E s \in ServiceNames : c \in Characteristic[s]
    BY DEF AllCharacteristics
  <2> QED
    BY <2>1 DEF ServiceOf
<1> QED
  BY <1>1, <1>2, <1>3

\* Nothing is listed of nothing.
LEMMA ListsNothing ==
  /\ Lists(<<>>, {})
  /\ \A e : Lists(e, {}) => Len(e) = 0
BY FS_EmptySet DEF Lists

\* A server that was not asked.
LEMMA ReadInitIInv == ReadInit => ReadIInv
<1> SUFFICES ASSUME ReadInit PROVE ReadIInv
  OBVIOUS
<1> USE DEF ReadInit, Off, Empty
<1>1. ReadTypes
  <2>1. <<>> \in Seq(ReadEntries)
    OBVIOUS
  <2>2. sinceLast \in 0..(Recent + 1)
    BY ReadAssumption
  <2> QED
    BY <2>1, <2>2 DEF ReadTypes
<1>2. ASSUME NEW r \in ReadRequests, NEW s \in ServiceNames
      PROVE  ServiceIsRead(r, s)
  <2>1. content[r][s] = <<>> /\ timer[r][s] = "off" /\ unanswered[r] = {} /\ Completed(r, s) = {}
    BY DEF Completed, Begun
  <2> QED
    BY <2>1, ListsNothing DEF ServiceIsRead
<1>3. PhasesAreOver
  BY DEF PhasesAreOver
<1> QED
  BY <1>1, <1>2, <1>3 DEF ReadIInv

\* A phase begins: nothing of its services is in the content.
LEMMA PhaseBegins ==
  ASSUME ReadIInv, NEW r \in ReadRequests, NEW p \in {"own", "bridged"}, StartPhase(r, p),
         phase[r] = IF p = "own" THEN "none" ELSE "own",
         p = "bridged" => \A s \in OwnServices : timer[r][s] = "off",
         content' = content, contact' \in [ReadRequests -> BOOLEAN], age' = age, sinceLast' \in 0..(Recent + 1)
  PROVE  ReadIInv'
<1>0. ReadTypes
  BY DEF ReadIInv
<1>1. /\ phase' = [phase EXCEPT ![r] = p]
      /\ timer'[r] = [s \in ServiceNames |-> IF s \in ServicesIn(p) THEN "warning" ELSE "off"]
      /\ unanswered'[r] = UNION {Characteristic[s] : s \in ServicesIn(p)}
      /\ phaseAge'[r] = 0
      /\ \A q \in ReadRequests : q # r => phase'[q] = phase[q] /\ timer'[q] = timer[q] /\ unanswered'[q] = unanswered[q]
  BY <1>0 DEF StartPhase, ReadTypes
<1>2. ServicesIn(p) \subseteq ServiceNames /\ unanswered'[r] \subseteq AllCharacteristics
  BY <1>1, ReadAssumption DEF ServicesIn, AllCharacteristics
<1>3. ReadTypes'
  <2>1. /\ phase' \in [ReadRequests -> {"none", "own", "bridged", "answered"}]
        /\ timer' \in [ReadRequests -> [ServiceNames -> {"off", "warning", "late"}]]
    BY <1>0 DEF StartPhase, ReadTypes
  <2>2. unanswered' \in [ReadRequests -> SUBSET AllCharacteristics]
    BY <1>0, <1>1, <1>2 DEF StartPhase, ReadTypes
  <2>3. phaseAge' \in [ReadRequests -> Nat] /\ \A q \in ReadRequests : age'[q] >= phaseAge'[q]
    BY <1>0 DEF StartPhase, ReadTypes
  <2> QED
    BY <1>0, <2>1, <2>2, <2>3 DEF ReadTypes
<1>4. ASSUME NEW q \in ReadRequests, NEW s \in ServiceNames
      PROVE  ServiceIsRead(q, s)'
  <2>0. ServiceIsRead(q, s)
    BY DEF ReadIInv
  <2>1. CASE q # r
    <3>1. Completed(q, s)' = Completed(q, s)
      BY <1>1, <2>1 DEF Completed
    <3> QED
      BY <1>1, <2>0, <2>1, <3>1 DEF ServiceIsRead
  <2>2. CASE q = r
    <3>1. phase'[r] = p
      BY <1>0, <1>1 DEF ReadTypes
    <3>2. Begun(phase[r]) = (IF p = "own" THEN {} ELSE OwnServices) /\ Begun(p) = Begun(phase[r]) \cup ServicesIn(p)
          /\ Begun(phase[r]) \cap ServicesIn(p) = {}
      BY ReadAssumption DEF Begun, ServicesIn
    <3>3. timer[r][s] = "off"
      <4>1. timer[r][s] # "off" => s \in Begun(phase[r])
        BY <2>0, <2>2 DEF ServiceIsRead
      <4> QED
        BY <3>2, <4>1
    <3>4. unanswered[r] \cap Characteristic[s] = {}
      BY <2>0, <2>2, <3>3 DEF ServiceIsRead
    <3>5. s \notin ServicesIn(p) => unanswered'[r] \cap Characteristic[s] = {}
      BY <1>1, <1>2, ServicesAreDisjoint
    <3>6. s \in ServicesIn(p) => Characteristic[s] \subseteq unanswered'[r]
      BY <1>1
    <3>7. Completed(r, s)' = Completed(r, s)
      BY <3>1, <3>2, <3>4, <3>5, <3>6 DEF Completed
    <3>8. s \in ServicesIn(p) => Len(content[r][s]) = 0
      <4>1. s \in ServicesIn(p) => Completed(r, s) = {}
        BY <3>2 DEF Completed
      <4> QED
        BY <2>0, <2>2, <4>1, ListsNothing DEF ServiceIsRead
    <3>9. timer'[r][s] = IF s \in ServicesIn(p) THEN "warning" ELSE "off"
      BY <1>1
    <3> QED
      BY <2>0, <2>2, <3>1, <3>2, <3>5, <3>7, <3>8, <3>9 DEF ServiceIsRead
  <2> QED
    BY <2>1, <2>2
<1>5. PhasesAreOver'
  <2> SUFFICES ASSUME NEW q \in ReadRequests, NEW s \in ServiceNames,
                      phase'[q] = "answered" \/ (phase'[q] = "bridged" /\ s \in OwnServices)
               PROVE  timer'[q][s] = "off"
    BY DEF PhasesAreOver
  <2>1. CASE q # r
    BY <1>1, <2>1 DEF ReadIInv, PhasesAreOver
  <2>2. CASE q = r
    <3>1. phase'[r] = p
      BY <1>0, <1>1 DEF ReadTypes
    <3>2. p = "bridged" /\ s \in OwnServices
      BY <2>2, <3>1
    <3> QED
      BY <1>1, <2>2, <3>2 DEF ServicesIn
  <2> QED
    BY <2>1, <2>2
<1> QED
  BY <1>3, <1>4, <1>5 DEF ReadIInv

\* What is known of a service of a request stays while the request does.
LEMMA ServiceStays ==
  ASSUME NEW q \in ReadRequests, NEW t \in ServiceNames, ServiceIsRead(q, t),
         phase'[q] = phase[q], unanswered'[q] = unanswered[q],
         content'[q][t] = content[q][t], timer'[q][t] = timer[q][t]
  PROVE  ServiceIsRead(q, t)'
<1>1. Completed(q, t)' = Completed(q, t)
  BY DEF Completed
<1> QED
  BY <1>1 DEF ServiceIsRead

\* Nothing happens.
LEMMA ReadStutters ==
  ASSUME ReadIInv, UNCHANGED readVars
  PROVE  ReadIInv'
<1>1. UNCHANGED <<phase, contact, timer, unanswered, content, age, phaseAge, sinceLast>>
  BY DEF readVars
<1>2. ReadTypes'
  BY <1>1 DEF ReadIInv, ReadTypes
<1>3. \A q \in ReadRequests, t \in ServiceNames : ServiceIsRead(q, t)'
  BY <1>1, ServiceStays DEF ReadIInv
<1>4. PhasesAreOver'
  BY <1>1 DEF ReadIInv, PhasesAreOver
<1> QED
  BY <1>2, <1>3, <1>4 DEF ReadIInv

\* A handler answers in time, and its characteristic is listed; or too late, and nothing happens.
LEMMA HandlerAnswersIInv ==
  ASSUME ReadIInv, NEW r \in ReadRequests, NEW c \in AllCharacteristics, HandlerAnswers(r, c)
  PROVE  ReadIInv'
<1> DEFINE s == ServiceOf(c)
           left == unanswered[r] \ {c}
<1>0. ReadTypes /\ s \in ServiceNames /\ c \in Characteristic[s]
  BY ServicesAreDisjoint DEF ReadIInv
<1>1. UNCHANGED <<phase, contact, age, phaseAge, sinceLast>>
  BY DEF HandlerAnswers
<1>2. CASE ~Expected(r, c)
  <2>1. UNCHANGED <<unanswered, content, timer>>
    BY <1>2 DEF HandlerAnswers
  <2> QED
    BY <1>1, <2>1, ReadStutters DEF readVars
<1>3. CASE Expected(r, c)
  <2>1. PICK v \in ValueOf(r, c) :
          /\ unanswered' = [unanswered EXCEPT ![r] = left]
          /\ content' = [content EXCEPT ![r][s] = Append(content[r][s], Entry(c, v))]
          /\ timer' = [timer EXCEPT ![r][s] = IF left \cap Characteristic[s] = {} THEN "off" ELSE timer[r][s]]
    BY <1>0, <1>3 DEF HandlerAnswers, ReadTypes
  <2>2. v \in EntryValues /\ v # "null"
    BY DEF ValueOf, EntryValues
  <2>3. ServiceIsRead(r, s) /\ timer[r][s] # "off"
    BY <1>0, <1>3 DEF ReadIInv, Expected
  <2>4. /\ s \in Begun(phase[r]) /\ Lists(content[r][s], Completed(r, s))
        /\ \A i \in 1..Len(content[r][s]) : content[r][s][i].value # "null"
    BY <2>3 DEF ServiceIsRead
  <2>5. content[r][s] \in Seq(ReadEntries)
    BY <2>4 DEF Lists
  <2>6. c \in unanswered[r]
    <3> SUFFICES ASSUME NEW k \in DOMAIN content[r][s], content[r][s][k] = Entry(c, "null") PROVE FALSE
      BY DEF HandlerAnswers
    <3>1. content[r][s][k].value = "null"
      BY DEF Entry
    <3>2. k \in 1..Len(content[r][s])
      BY <2>5
    <3> QED
      BY <2>4, <3>1, <3>2
  <2>7. /\ Completed(r, s) = Characteristic[s] \ unanswered[r] /\ c \notin Completed(r, s)
        /\ Characteristic[s] \ left = Completed(r, s) \cup {c}
    BY <1>0, <2>4, <2>6 DEF Completed
  <2>8. Completed(r, s) \in SUBSET AllCharacteristics /\ IsFiniteSet(Completed(r, s))
    BY <1>0, <2>7, ServicesAreDisjoint, FS_Subset
  <2> DEFINE e == Append(content[r][s], Entry(c, v))
  <2>9. Lists(e, Completed(r, s) \cup {c})
    <3>1. PICK S \in SUBSET AllCharacteristics : S = Completed(r, s)
      BY <2>8
    <3>2. PICK f : f = content[r][s]
      OBVIOUS
    <3>3. IsFiniteSet(S) /\ Lists(f, S) /\ c \notin S
      BY <2>4, <2>7, <2>8, <3>1, <3>2
    <3>4. Lists(Append(f, Entry(c, v)), S \cup {c})
      BY <2>2, <3>3, ListsAppend
    <3> QED
      BY <3>1, <3>2, <3>4
  <2>10. \A i \in 1..Len(e) : e[i].value # "null"
    <3>1. Entry(c, v) \in ReadEntries /\ Entry(c, v).value = v
      BY <2>2 DEF Entry, ReadEntries
    <3>2. PICK n \in ReadEntries : n = Entry(c, v)
      BY <3>1
    <3>3. PICK f \in Seq(ReadEntries) : f = content[r][s]
      BY <2>5
    <3>4. /\ Len(Append(f, n)) = Len(f) + 1 /\ Len(f) \in Nat
          /\ \A i \in 1..Len(f) : Append(f, n)[i] = f[i]
          /\ Append(f, n)[Len(f) + 1] = n
      BY AppendProperties
    <3>5. \A i \in 1..Len(Append(f, n)) : i \in 1..Len(f) \/ i = Len(f) + 1
      BY <3>4
    <3>6. \A i \in 1..Len(f) : f[i].value # "null"
      BY <2>4, <3>3
    <3>7. n.value # "null"
      BY <2>2, <3>1, <3>2
    <3>8. \A i \in 1..Len(Append(f, n)) : Append(f, n)[i].value # "null"
      BY <3>4, <3>5, <3>6, <3>7
    <3> QED
      BY <3>2, <3>3, <3>8
  <2>11. e \in Seq(ReadEntries)
    BY <2>9 DEF Lists
  <2> HIDE DEF e
  <2>12. /\ content' = [content EXCEPT ![r] = [content[r] EXCEPT ![s] = e]]
         /\ content'[r][s] = e
         /\ \A q \in ReadRequests, t \in ServiceNames : q # r \/ t # s => content'[q][t] = content[q][t]
         /\ content' \in [ReadRequests -> [ServiceNames -> Seq(ReadEntries)]]
    BY <1>0, <2>1, <2>11 DEF ReadTypes, e
  <2>13. /\ timer'[r][s] = IF left \cap Characteristic[s] = {} THEN "off" ELSE timer[r][s]
         /\ \A q \in ReadRequests, t \in ServiceNames : q # r \/ t # s => timer'[q][t] = timer[q][t]
         /\ timer' \in [ReadRequests -> [ServiceNames -> {"off", "warning", "late"}]]
    BY <1>0, <2>1 DEF ReadTypes
  <2>14. /\ unanswered'[r] = left
         /\ \A q \in ReadRequests : q # r => unanswered'[q] = unanswered[q]
         /\ unanswered' \in [ReadRequests -> SUBSET AllCharacteristics]
    BY <1>0, <2>1 DEF ReadTypes
  <2>15. ReadTypes'
    BY <1>0, <1>1, <2>12, <2>13, <2>14 DEF ReadTypes
  <2>16. ASSUME NEW q \in ReadRequests, NEW t \in ServiceNames
         PROVE  ServiceIsRead(q, t)'
    <3>0. ServiceIsRead(q, t)
      BY DEF ReadIInv
    <3>1. CASE q # r
      <4>1. /\ phase'[q] = phase[q] /\ unanswered'[q] = unanswered[q]
            /\ content'[q][t] = content[q][t] /\ timer'[q][t] = timer[q][t]
        BY <1>1, <2>12, <2>13, <2>14, <3>1
      <4> QED
        BY <3>0, <4>1, ServiceStays
    <3>2. CASE q = r /\ t # s
      <4>1. c \notin Characteristic[t]
        BY <1>0, <3>2, ServicesAreDisjoint
      <4>2. Completed(q, t)' = Completed(q, t) /\ unanswered'[q] \cap Characteristic[t] = unanswered[q] \cap Characteristic[t]
        BY <1>1, <2>14, <3>2, <4>1 DEF Completed
      <4> QED
        BY <1>1, <2>12, <2>13, <3>0, <3>2, <4>2 DEF ServiceIsRead
    <3>3. CASE q = r /\ t = s
      <4>1. Completed(r, s)' = Completed(r, s) \cup {c}
        BY <1>1, <2>4, <2>7, <2>14 DEF Completed
      <4>2. timer'[r][s] = "off" => left \cap Characteristic[s] = {}
        BY <2>3, <2>13
      <4> QED
        BY <1>1, <2>4, <2>9, <2>10, <2>12, <2>14, <3>3, <4>1, <4>2 DEF ServiceIsRead
    <3> QED
      BY <3>1, <3>2, <3>3
  <2>17. PhasesAreOver'
    <3>1. \A q \in ReadRequests, t \in ServiceNames : timer[q][t] = "off" => timer'[q][t] = "off"
      BY <2>13
    <3> QED
      BY <1>1, <3>1 DEF ReadIInv, PhasesAreOver
  <2> QED
    BY <2>15, <2>16, <2>17 DEF ReadIInv
<1> QED
  BY <1>2, <1>3

\* A service is complete without those that did not answer in nine seconds.
LEMMA ReadTimesOutIInv ==
  ASSUME ReadIInv, NEW r \in ReadRequests, NEW s \in ServiceNames, ReadTimesOut(r, s)
  PROVE  ReadIInv'
<1> DEFINE U == unanswered[r] \cap Characteristic[s]
           e == content[r][s] \o TimedOutEntries(U)
<1>0. ReadTypes
  BY DEF ReadIInv
<1>1. /\ timer[r][s] = "late"
      /\ timer' = [timer EXCEPT ![r][s] = "off"]
      /\ content' = [content EXCEPT ![r][s] = e]
      /\ unanswered' = [unanswered EXCEPT ![r] = unanswered[r] \ Characteristic[s]]
      /\ UNCHANGED <<phase, contact, age, phaseAge, sinceLast>>
  BY <1>0 DEF ReadTimesOut, ReadTypes
<1>2. /\ s \in Begun(phase[r]) /\ Lists(content[r][s], Completed(r, s))
      /\ Completed(r, s) = Characteristic[s] \ unanswered[r]
  BY <1>1 DEF ReadIInv, ServiceIsRead, Completed
<1>3. Lists(e, Characteristic[s])
  <2>1. PICK S : S = Completed(r, s)
    OBVIOUS
  <2>2. PICK V \in SUBSET AllCharacteristics : V = U
    BY ServicesAreDisjoint
  <2>3. PICK f : f = content[r][s]
    OBVIOUS
  <2>4. PICK g : g = TimedOutEntries(V)
    OBVIOUS
  <2>5. IsFiniteSet(S) /\ IsFiniteSet(V) /\ S \cap V = {} /\ S \cup V = Characteristic[s]
    BY <1>2, <2>1, <2>2, ServicesAreDisjoint, FS_Subset
  <2>6. Lists(f, S) /\ Lists(g, V)
    BY <1>2, <2>1, <2>3, <2>4, <2>5, TimedOutLists
  <2>7. Lists(f \o g, S \cup V)
    BY <2>5, <2>6, ListsConcat
  <2> QED
    BY <2>2, <2>3, <2>4, <2>5, <2>7
<1>4. e \in Seq(ReadEntries)
  BY <1>3 DEF Lists
<1> HIDE DEF e
<1>5. /\ content'[r][s] = e
      /\ \A q \in ReadRequests, t \in ServiceNames : q # r \/ t # s => content'[q][t] = content[q][t]
      /\ content' \in [ReadRequests -> [ServiceNames -> Seq(ReadEntries)]]
  BY <1>0, <1>1, <1>4 DEF ReadTypes
<1>6. /\ timer'[r][s] = "off"
      /\ \A q \in ReadRequests, t \in ServiceNames : q # r \/ t # s => timer'[q][t] = timer[q][t]
      /\ timer' \in [ReadRequests -> [ServiceNames -> {"off", "warning", "late"}]]
  BY <1>0, <1>1 DEF ReadTypes
<1>7. /\ unanswered'[r] = unanswered[r] \ Characteristic[s]
      /\ \A q \in ReadRequests : q # r => unanswered'[q] = unanswered[q]
      /\ unanswered' \in [ReadRequests -> SUBSET AllCharacteristics]
  BY <1>0, <1>1 DEF ReadTypes
<1>8. ReadTypes'
  BY <1>0, <1>1, <1>5, <1>6, <1>7 DEF ReadTypes
<1>9. ASSUME NEW q \in ReadRequests, NEW t \in ServiceNames
      PROVE  ServiceIsRead(q, t)'
  <2>0. ServiceIsRead(q, t)
    BY DEF ReadIInv
  <2>1. CASE q # r
    <3>1. /\ phase'[q] = phase[q] /\ unanswered'[q] = unanswered[q]
          /\ content'[q][t] = content[q][t] /\ timer'[q][t] = timer[q][t]
      BY <1>1, <1>5, <1>6, <1>7, <2>1
    <3> QED
      BY <2>0, <3>1, ServiceStays
  <2>2. CASE q = r /\ t # s
    <3>1. Characteristic[s] \cap Characteristic[t] = {}
      BY <2>2, ServicesAreDisjoint
    <3>2. Completed(q, t)' = Completed(q, t) /\ unanswered'[q] \cap Characteristic[t] = unanswered[q] \cap Characteristic[t]
      BY <1>1, <1>7, <2>2, <3>1 DEF Completed
    <3> QED
      BY <1>1, <1>5, <1>6, <2>0, <2>2, <3>2 DEF ServiceIsRead
  <2>3. CASE q = r /\ t = s
    <3>1. Completed(r, s)' = Characteristic[s]
      BY <1>1, <1>2, <1>7 DEF Completed
    <3> QED
      BY <1>3, <1>5, <1>6, <1>7, <2>3, <3>1 DEF ServiceIsRead
  <2> QED
    BY <2>1, <2>2, <2>3
<1>10. PhasesAreOver'
  <2>1. \A q \in ReadRequests, t \in ServiceNames : timer[q][t] = "off" => timer'[q][t] = "off"
    BY <1>6
  <2> QED
    BY <1>1, <2>1 DEF ReadIInv, PhasesAreOver
<1> QED
  BY <1>8, <1>9, <1>10 DEF ReadIInv

\* A step that moves one request to a phase that follows, or its timer, and nothing that is listed.
LEMMA ReadMovesOn ==
  ASSUME ReadIInv, NEW r \in ReadRequests,
         phase' = phase \/ (phase[r] = "bridged" /\ phase' = [phase EXCEPT ![r] = "answered"]
                            /\ \A s \in ServiceNames : timer[r][s] = "off"),
         timer' \in [ReadRequests -> [ServiceNames -> {"off", "warning", "late"}]],
         \A q \in ReadRequests, s \in ServiceNames : timer'[q][s] = "off" <=> timer[q][s] = "off",
         UNCHANGED <<contact, unanswered, content>>,
         age' \in [ReadRequests -> Nat], phaseAge' \in [ReadRequests -> Nat],
         \A q \in ReadRequests : age'[q] >= phaseAge'[q],
         sinceLast' \in 0..(Recent + 1)
  PROVE  ReadIInv'
<1>0. ReadTypes
  BY DEF ReadIInv
<1>1. ReadTypes'
  BY <1>0 DEF ReadTypes
<1>2. \A q \in ReadRequests : Begun(phase'[q]) = Begun(phase[q])
  BY <1>0 DEF ReadTypes, Begun
<1>3. ASSUME NEW q \in ReadRequests, NEW s \in ServiceNames
      PROVE  ServiceIsRead(q, s)'
  <2>1. ServiceIsRead(q, s)
    BY DEF ReadIInv
  <2>2. Completed(q, s)' = Completed(q, s)
    BY <1>2 DEF Completed
  <2>3. timer'[q][s] = "off" <=> timer[q][s] = "off"
    OBVIOUS
  <2> QED
    BY <1>2, <2>1, <2>2, <2>3 DEF ServiceIsRead
<1>4. PhasesAreOver'
  <2> SUFFICES ASSUME NEW q \in ReadRequests, NEW s \in ServiceNames,
                      phase'[q] = "answered" \/ (phase'[q] = "bridged" /\ s \in OwnServices)
               PROVE  timer[q][s] = "off"
    BY DEF PhasesAreOver
  <2>1. CASE phase'[q] = phase[q]
    BY <2>1 DEF ReadIInv, PhasesAreOver
  <2>2. CASE phase'[q] # phase[q]
    BY <1>0, <2>2 DEF ReadTypes
  <2> QED
    BY <2>1, <2>2
<1> QED
  BY <1>1, <1>3, <1>4 DEF ReadIInv

\* Every step preserves the invariant.
LEMMA ReadPreserved ==
  ASSUME ReadIInv, [ReadNext]_readVars
  PROVE  ReadIInv'
<1>0. ReadTypes
  BY DEF ReadIInv
<1>1. ASSUME NEW r \in ReadRequests, HandleAccessoriesRead(r)
      PROVE  ReadIInv'
  <2>1. PICK p \in {"own", "bridged"} : p = "own"
    OBVIOUS
  <2>2. /\ StartPhase(r, p) /\ phase[r] = "none" /\ content' = content /\ age' = age
        /\ contact' \in [ReadRequests -> BOOLEAN] /\ sinceLast' \in 0..(Recent + 1)
    <3>1. contact' \in [ReadRequests -> BOOLEAN]
      <4>1. (sinceLast > Recent) \in BOOLEAN
        BY <1>0, ReadAssumption DEF ReadTypes
      <4> QED
        BY <1>0, <1>1, <4>1, Zenon DEF HandleAccessoriesRead, ReadTypes
    <3>2. sinceLast' \in 0..(Recent + 1)
      BY <1>1, ReadAssumption DEF HandleAccessoriesRead
    <3> QED
      BY <1>1, <2>1, <3>1, <3>2 DEF HandleAccessoriesRead
  <2> QED
    BY <2>1, <2>2, PhaseBegins
<1>2. ASSUME NEW r \in ReadRequests, AskBridged(r)
      PROVE  ReadIInv'
  <2>1. PICK p \in {"own", "bridged"} : p = "bridged"
    OBVIOUS
  <2>2. /\ StartPhase(r, p) /\ phase[r] = "own" /\ content' = content /\ age' = age
        /\ contact' \in [ReadRequests -> BOOLEAN] /\ sinceLast' \in 0..(Recent + 1)
        /\ \A s \in OwnServices : timer[r][s] = "off"
    BY <1>0, <1>2, <2>1 DEF AskBridged, PhaseDone, ServicesIn, ReadTypes
  <2> QED
    BY <2>1, <2>2, PhaseBegins
<1>3. ASSUME NEW r \in ReadRequests, AnswerAccessories(r)
      PROVE  ReadIInv'
  <2>1. \A s \in ServiceNames : timer[r][s] = "off"
    <3>1. phase[r] = "bridged" /\ \A s \in ServiceNames \ OwnServices : timer[r][s] = "off"
      BY <1>3 DEF AnswerAccessories, PhaseDone, ServicesIn
    <3>2. \A s \in OwnServices : timer[r][s] = "off"
      BY <3>1, ReadAssumption DEF ReadIInv, PhasesAreOver
    <3> QED
      BY <3>1, <3>2
  <2>2. /\ phase[r] = "bridged" /\ phase' = [phase EXCEPT ![r] = "answered"]
        /\ UNCHANGED <<contact, timer, unanswered, content, age, phaseAge, sinceLast>>
    BY <1>3 DEF AnswerAccessories
  <2>3. /\ timer' \in [ReadRequests -> [ServiceNames -> {"off", "warning", "late"}]]
        /\ age' \in [ReadRequests -> Nat] /\ phaseAge' \in [ReadRequests -> Nat]
        /\ \A q \in ReadRequests : age'[q] >= phaseAge'[q]
        /\ sinceLast' \in 0..(Recent + 1)
    BY <1>0, <2>2 DEF ReadTypes
  <2> QED
    BY <2>1, <2>2, <2>3, ReadMovesOn
<1>4. ASSUME NEW r \in ReadRequests, NEW c \in AllCharacteristics, HandlerAnswers(r, c)
      PROVE  ReadIInv'
  BY <1>4, HandlerAnswersIInv
<1>5. ASSUME NEW r \in ReadRequests, NEW s \in ServiceNames, WarnSlow(r, s)
      PROVE  ReadIInv'
  <2>1. /\ timer[r][s] = "warning" /\ timer' = [timer EXCEPT ![r][s] = "late"]
        /\ UNCHANGED <<phase, contact, unanswered, content, age, phaseAge, sinceLast>>
    BY <1>5 DEF WarnSlow
  <2>2. /\ timer' \in [ReadRequests -> [ServiceNames -> {"off", "warning", "late"}]]
        /\ \A q \in ReadRequests, t \in ServiceNames : timer'[q][t] = "off" <=> timer[q][t] = "off"
    BY <1>0, <2>1 DEF ReadTypes
  <2>3. /\ age' \in [ReadRequests -> Nat] /\ phaseAge' \in [ReadRequests -> Nat]
        /\ \A q \in ReadRequests : age'[q] >= phaseAge'[q]
        /\ sinceLast' \in 0..(Recent + 1)
    BY <1>0, <2>1 DEF ReadTypes
  <2> QED
    BY <2>1, <2>2, <2>3, ReadMovesOn
<1>6. ASSUME NEW r \in ReadRequests, NEW s \in ServiceNames, ReadTimesOut(r, s)
      PROVE  ReadIInv'
  BY <1>6, ReadTimesOutIInv
<1>7. CASE ReadTick
  <2>1. UNCHANGED <<phase, contact, timer, unanswered, content>>
    BY <1>7 DEF ReadTick
  <2>2. PICK r \in ReadRequests : TRUE
    BY <1>7 DEF ReadTick
  <2>3. timer' \in [ReadRequests -> [ServiceNames -> {"off", "warning", "late"}]]
    BY <1>0, <2>1 DEF ReadTypes
  <2>4. sinceLast' \in 0..(Recent + 1)
    BY <1>0, <1>7, ReadAssumption DEF ReadTick, ReadTypes
  <2>5. \A q \in ReadRequests :
          /\ age'[q] = age[q] + (IF Pending(q) THEN 1 ELSE 0)
          /\ phaseAge'[q] = phaseAge[q] + (IF Pending(q) THEN 1 ELSE 0)
    BY <1>7 DEF ReadTick
  <2>6. age' \in [ReadRequests -> Nat] /\ phaseAge' \in [ReadRequests -> Nat]
    <3>1. \A q \in ReadRequests : /\ age[q] + (IF Pending(q) THEN 1 ELSE 0) \in Nat
                                  /\ phaseAge[q] + (IF Pending(q) THEN 1 ELSE 0) \in Nat
      BY <1>0 DEF ReadTypes
    <3> QED
      BY <1>7, <3>1 DEF ReadTick
  <2>7. ASSUME NEW q \in ReadRequests
        PROVE  age'[q] >= phaseAge'[q]
    <3>1. PICK n \in Nat : n = IF Pending(q) THEN 1 ELSE 0
      OBVIOUS
    <3>2. age[q] \in Nat /\ phaseAge[q] \in Nat /\ age[q] >= phaseAge[q]
      BY <1>0 DEF ReadTypes
    <3>3. age'[q] = age[q] + n /\ phaseAge'[q] = phaseAge[q] + n
      BY <2>5, <3>1
    <3> QED
      BY <3>2, <3>3
  <2> QED
    BY <2>1, <2>3, <2>4, <2>6, <2>7, ReadMovesOn
<1>8. CASE UNCHANGED readVars
  BY <1>8, ReadStutters
<1> QED
  BY <1>1, <1>2, <1>3, <1>4, <1>5, <1>6, <1>7, <1>8 DEF ReadNext

\* Accessory.handleAccessories, Service.toHAP: an answer lists every characteristic exactly once,
\* whichever handlers answer in time, late or never, for any requests that overlap, services and timers.
THEOREM AnswersAreWhole == ReadSpec => []AnswerIsWhole
<1>1. ReadInit => ReadIInv
  BY ReadInitIInv
<1>2. ReadIInv /\ [ReadNext]_readVars => ReadIInv'
  BY ReadPreserved
<1>3. ReadIInv => AnswerIsWhole
  <2> SUFFICES ASSUME ReadIInv PROVE AnswerIsWhole
    OBVIOUS
  <2>1. ReadTypes
    BY DEF ReadIInv
  <2>2. ReadTypeOK
    BY <2>1 DEF ReadTypes, ReadTypeOK
  <2>3. ASSUME NEW r \in ReadRequests, phase[r] = "answered", NEW s \in ServiceNames
        PROVE  /\ Range(Named(content[r][s])) = Characteristic[s]
               /\ Len(content[r][s]) = Cardinality(Characteristic[s])
    <3>1. ServiceIsRead(r, s) /\ timer[r][s] = "off"
      BY <2>3 DEF ReadIInv, PhasesAreOver
    <3>2. Completed(r, s) = Characteristic[s]
      BY <2>3, <3>1 DEF ServiceIsRead, Completed, Begun
    <3>3. PICK e \in Seq(ReadEntries) : e = content[r][s]
      BY <3>1 DEF ServiceIsRead, Lists
    <3>4. Lists(e, Characteristic[s])
      BY <3>1, <3>2, <3>3 DEF ServiceIsRead
    <3>5. DOMAIN Named(e) = 1..Len(e) /\ \A i \in 1..Len(e) : Named(e)[i] = e[i].characteristic
      BY DEF Named
    <3>6. Range(Named(e)) = Characteristic[s]
      <4>1. Range(Named(e)) = {e[i].characteristic : i \in 1..Len(e)}
        BY <3>5 DEF Range
      <4> QED
        BY <3>4, <4>1 DEF Lists
    <3> QED
      BY <3>3, <3>4, <3>6 DEF Lists
  <2> QED
    BY <2>2, <2>3 DEF AnswerIsWhole
<1> QED
  BY <1>1, <1>2, <1>3, PTL DEF ReadSpec

-----------------------------------------------------------------------------
(* DataStream.                                                             *)

(***************************************************************************)
(* The inductive invariant.  serverState, tcpServer and the two reasons to *)
(* keep the server, sessions and sockets, change in different callbacks;   *)
(* that a timer never closes a server that is not there needs all of them. *)
(***************************************************************************)

\* The state tells what tcpServer holds; before it listens there is no socket.
StateTellsServer ==
  /\ serverState = "UNINITIALIZED" => tcpServer = "none"
  /\ serverState \in {"BINDING", "LISTENING"} => tcpServer = "open"
  /\ serverState = "CLOSING" => tcpServer # "open"
  /\ serverState = "CLOSING" /\ ~destroyed => tcpServer = "closed"
  /\ serverState \in {"UNINITIALIZED", "BINDING"} => Listed(linkState) = {}

\* A server that is there for nobody is closed in the step in which it lost the last one.
ServerForSomebody ==
  serverState \in {"BINDING", "LISTENING"} => prepared # {} \/ Listed(linkState) # {}

\* A setup write is under way while its session is prepared, and its answer precedes a connection.
SetupsInOrder ==
  /\ \A s \in Sessions : setup[s] \in {"listening", "close", "retry"} => s \in prepared
  /\ \A s \in Sessions : setup[s] = "new" => owner[s] = NoOne /\ s \notin prepared
  /\ \A c \in Connections : key[c] # NoSession => setup[key[c]] = "told"

\* Nobody waits for a server that does not come, while the accessory offers data streams.
ServerUp ==
  ~destroyed =>
    /\ ~crashed
    /\ \A s \in Sessions : /\ setup[s] # "lost"
                           /\ setup[s] = "listening" => serverState = "BINDING"
                           /\ setup[s] = "told" /\ s \in prepared => serverState = "LISTENING"

\* A connection has the session its peer encrypts for, and that one is not prepared any more.
SessionsTaken ==
  /\ \A c \in Connections : session[c] # NoSession => session[c] = key[c] /\ session[c] \notin prepared
  /\ \A c \in Connections : linkState[c] \in {"none", "UNIDENTIFIED"} => session[c] = NoSession

\* The handler of a request is stored while its timer is set, until it is called.
HandlerStored ==
  \A r \in RequestIds :
    /\ r \in responseTimer <=> requestOn[r] # NoOne
    /\ requestOn[r] # NoOne => concluded[r] = 0
    /\ concluded[r] <= 1

IInv ==
  /\ DataStreamTypeOK
  /\ StateTellsServer
  /\ ServerForSomebody
  /\ SetupsInOrder
  /\ ServerUp
  /\ SessionsTaken
  /\ HandlerStored

-----------------------------------------------------------------------------
(* The server.                                                             *)

\* The parts about the server.
ServerInv ==
  /\ StateTellsServer
  /\ ServerForSomebody
  /\ SetupsInOrder
  /\ ServerUp

LinkStates == {"none", "UNIDENTIFIED", "READY", "CLOSING", "CLOSED"}

\* close() of connections keeps them listed, and changes none that is new.
LEMMA ClosedStayListed ==
  ASSUME NEW st \in [Connections -> LinkStates], NEW C
  PROVE  /\ ClosedIn(st, C) \in [Connections -> LinkStates]
         /\ Listed(ClosedIn(st, C)) = Listed(st)
         /\ \A c \in Connections : ClosedIn(st, C)[c] \in {"none", "UNIDENTIFIED"}
                                     => /\ ClosedIn(st, C)[c] = st[c]
                                        /\ c \in C => st[c] = "none"
<1>1. \A c \in Connections : \/ (ClosedIn(st, C)[c] = st[c] /\ (c \in C => st[c] # "UNIDENTIFIED"))
                             \/ (ClosedIn(st, C)[c] = "CLOSING" /\ st[c] \in {"UNIDENTIFIED", "READY"})
  BY DEF ClosedIn
<1>2. ClosedIn(st, C) \in [Connections -> LinkStates]
  BY DEF ClosedIn, LinkStates
<1> QED
  BY <1>1, <1>2 DEF Listed

\* A setup write, or its retry, finds the server in whatever state: it is offered what listens,
\* or waits for what comes.
LEMMA EstablishPreserves ==
  ASSUME DataStreamTypeOK, ServerInv, NEW s \in Sessions, setup[s] \in {"new", "retry"},
         setup[s] = "new" => ~destroyed, Establish(s), prepared' = prepared \cup {s},
         \A q \in Sessions : q # s => owner'[q] = owner[q],
         UNCHANGED <<destroyed, linkState, key>>
  PROVE  ServerInv'
<1> DEFINE Becomes(status) == setup' = [setup EXCEPT ![s] = status]
<1>1. serverState \in ServerStates /\ setup \in [Sessions -> SetupStates]
      /\ key \in [Connections -> Sessions \cup {NoSession}]
  BY DEF DataStreamTypeOK
<1>2. \A c \in Connections : key[c] # NoSession => key[c] \in Sessions /\ key[c] # s
  BY <1>1 DEF ServerInv, SetupsInOrder
<1>3. ASSUME NEW status \in {"listening", "close", "told"}, Becomes(status)
      PROVE  SetupsInOrder'
  <2>1. \A q \in Sessions : setup'[q] = IF q = s THEN status ELSE setup[q]
    BY <1>1, <1>3
  <2> QED
    BY <1>2, <1>3, <2>1 DEF ServerInv, SetupsInOrder
<1>4. ASSUME UNCHANGED serverState, UNCHANGED tcpServer
      PROVE  StateTellsServer' /\ ServerForSomebody'
  BY <1>4 DEF ServerInv, StateTellsServer, ServerForSomebody
<1>5. CASE serverState = "UNINITIALIZED"
  <2>1. serverState' = "BINDING" /\ tcpServer' = "open" /\ Becomes("listening") /\ UNCHANGED crashed
    BY <1>5 DEF Establish
  <2>2. StateTellsServer' /\ ServerForSomebody'
    BY <1>5, <2>1 DEF ServerInv, StateTellsServer, ServerForSomebody
  <2>3. \A q \in Sessions : setup'[q] = IF q = s THEN "listening" ELSE setup[q]
    BY <1>1, <2>1
  <2>4. ServerUp'
    BY <1>5, <2>1, <2>3 DEF ServerInv, ServerUp
  <2> QED
    BY <1>3, <2>1, <2>2, <2>4 DEF ServerInv
<1>6. CASE serverState = "BINDING"
  <2>1. UNCHANGED <<serverState, tcpServer, crashed>> /\ Becomes("listening")
    BY <1>6 DEF Establish
  <2>2. \A q \in Sessions : setup'[q] = IF q = s THEN "listening" ELSE setup[q]
    BY <1>1, <2>1
  <2>3. ServerUp'
    BY <1>6, <2>1, <2>2 DEF ServerInv, ServerUp
  <2> QED
    BY <1>3, <1>4, <2>1, <2>3 DEF ServerInv
<1>7. CASE serverState = "LISTENING"
  <2>1. UNCHANGED <<serverState, tcpServer, crashed>> /\ Becomes("told")
    BY <1>7 DEF Establish
  <2>2. \A q \in Sessions : setup'[q] = IF q = s THEN "told" ELSE setup[q]
    BY <1>1, <2>1
  <2>3. ServerUp'
    BY <1>7, <2>1, <2>2 DEF ServerInv, ServerUp
  <2> QED
    BY <1>3, <1>4, <2>1, <2>3 DEF ServerInv
<1>8. CASE serverState = "CLOSING" /\ tcpServer # "none"
  <2>1. UNCHANGED <<serverState, tcpServer, crashed>> /\ Becomes("close")
    BY <1>8 DEF Establish
  <2>2. \A q \in Sessions : setup'[q] = IF q = s THEN "close" ELSE setup[q]
    BY <1>1, <2>1
  <2>3. ServerUp'
    BY <1>8, <2>1, <2>2 DEF ServerInv, ServerUp
  <2> QED
    BY <1>3, <1>4, <2>1, <2>3 DEF ServerInv
<1>9. CASE serverState = "CLOSING" /\ tcpServer = "none"
  <2>1. destroyed
    BY <1>9 DEF ServerInv, StateTellsServer
  <2>2. UNCHANGED <<serverState, tcpServer, setup>>
    BY <1>9 DEF Establish
  <2>3. setup[s] = "retry" /\ prepared' = prepared
    BY <2>1 DEF ServerInv, SetupsInOrder
  <2>4. SetupsInOrder'
    BY <2>2, <2>3 DEF ServerInv, SetupsInOrder
  <2>5. ServerUp'
    BY <2>1 DEF ServerUp
  <2> QED
    BY <1>4, <2>2, <2>4, <2>5 DEF ServerInv
<1> QED
  BY <1>1, <1>5, <1>6, <1>7, <1>8, <1>9 DEF ServerStates

\* A session or a socket is gone, and with the last one the server, which is there then.
LEMMA CheckCloseablePreserves ==
  ASSUME DataStreamTypeOK, ServerInv, CheckCloseable, UNCHANGED <<destroyed, setup, owner, key>>,
         prepared' \subseteq prepared, Listed(linkState') \subseteq Listed(linkState),
         \A s \in prepared \ prepared' : setup[s] \in {"told", "lost"},
         Listed(linkState) # {} \/ \E s \in prepared : setup[s] \in {"told", "lost"}
  PROVE  ServerInv'
<1>1. serverState \in ServerStates /\ tcpServer \in {"none", "open", "closed"}
      /\ prepared \subseteq Sessions
  BY DEF DataStreamTypeOK
<1>2. SetupsInOrder'
  BY DEF ServerInv, SetupsInOrder
<1>3. ~destroyed => serverState # "UNINITIALIZED"
  BY <1>1 DEF ServerInv, StateTellsServer, ServerUp
<1>4. ~destroyed => \A s \in Sessions : /\ setup[s] # "lost"
                                        /\ setup[s] = "listening" => serverState = "BINDING"
                                        /\ setup[s] = "told" /\ s \in prepared
                                             => serverState = "LISTENING"
  BY DEF ServerInv, ServerUp
<1>5. CASE Closeable(prepared', linkState')
  <2>1. serverState' = "CLOSING" /\ serverState # "CLOSING"
    BY <1>5 DEF CheckCloseable, Closeable
  <2>2. \/ tcpServer = "none" /\ tcpServer' = "none"
        \/ tcpServer # "none" /\ tcpServer' = "closed" /\ UNCHANGED crashed
    BY <1>5 DEF CheckCloseable
  <2>3. ~destroyed => tcpServer # "none"
    BY <1>1, <1>3, <2>1 DEF ServerInv, StateTellsServer, ServerStates
  <2>4. StateTellsServer' /\ ServerForSomebody'
    BY <2>1, <2>2, <2>3 DEF StateTellsServer, ServerForSomebody
  <2>5. \A s \in Sessions : setup[s] # "listening" /\ s \notin prepared'
    BY <1>5, <1>2 DEF SetupsInOrder, Closeable
  <2>6. ServerUp'
    BY <1>4, <2>2, <2>3, <2>5 DEF ServerInv, ServerUp
  <2> QED
    BY <1>2, <2>4, <2>6 DEF ServerInv
<1>6. CASE ~Closeable(prepared', linkState')
  <2>1. UNCHANGED <<serverState, tcpServer, crashed>>
    BY <1>6 DEF CheckCloseable
  <2>2. StateTellsServer'
    BY <2>1 DEF ServerInv, StateTellsServer
  <2>3. ServerForSomebody'
    BY <1>6, <2>1 DEF ServerForSomebody, Closeable
  <2>4. ServerUp'
    BY <2>1 DEF ServerInv, ServerUp
  <2> QED
    BY <1>2, <2>2, <2>3, <2>4 DEF ServerInv
<1> QED
  BY <1>5, <1>6

\* What connections do leaves the server alone; a session that is taken up has a connection instead.
LEMMA LinkStepPreserves ==
  ASSUME DataStreamTypeOK, ServerInv, UNCHANGED <<server, crashed, setup, owner, key>>,
         Listed(linkState') = Listed(linkState),
         \/ prepared' = prepared
         \/ \E c \in Listed(linkState) : key[c] \in prepared /\ prepared' = prepared \ {key[c]}
  PROVE  ServerInv'
<1> USE DEF server
<1>1. prepared' \subseteq prepared
  OBVIOUS
<1>2. \A s \in prepared \ prepared' : s \in Sessions /\ setup[s] = "told"
  <2> SUFFICES ASSUME NEW c \in Connections, key[c] \in prepared
               PROVE  key[c] \in Sessions /\ setup[key[c]] = "told"
    BY DEF Listed
  <2>1. key[c] \in Sessions /\ key[c] # NoSession
    BY DataStreamAssumption DEF DataStreamTypeOK
  <2> QED
    BY <2>1 DEF ServerInv, SetupsInOrder
<1>3. StateTellsServer'
  BY DEF ServerInv, StateTellsServer
<1>4. ServerForSomebody'
  BY DEF ServerInv, ServerForSomebody
<1>5. SetupsInOrder'
  BY <1>1, <1>2 DEF ServerInv, SetupsInOrder
<1>6. ServerUp'
  BY <1>1 DEF ServerInv, ServerUp
<1> QED
  BY <1>3, <1>4, <1>5, <1>6 DEF ServerInv

\* The state of a connection after a chunk of its data.
LEMMA Dispatched ==
  ASSUME DataStreamTypeOK, NEW c \in Connections, linkState[c] \in {"UNIDENTIFIED", "READY"},
         \/ linkState' = [linkState EXCEPT ![c] = "READY"]
         \/ linkState' = ClosedIn(linkState, {c})
  PROVE  /\ linkState' \in [Connections -> LinkStates]
         /\ Listed(linkState') = Listed(linkState)
         /\ linkState'[c] \in {"READY", "CLOSING"}
         /\ \A d \in Connections : d # c => linkState'[d] = linkState[d]
<1>1. linkState \in [Connections -> LinkStates]
  BY DEF DataStreamTypeOK, LinkStates
<1>2. CASE linkState' = [linkState EXCEPT ![c] = "READY"]
  BY <1>1, <1>2 DEF Listed, LinkStates
<1>3. CASE linkState' = ClosedIn(linkState, {c})
  <2>1. linkState'[c] = "CLOSING" /\ \A d \in Connections : d # c => linkState'[d] = linkState[d]
    BY <1>3 DEF ClosedIn
  <2> QED
    BY <1>1, <1>3, <2>1, ClosedStayListed
<1> QED
  BY <1>2, <1>3

\* Every action keeps the parts about the server.
LEMMA ServerPreserved ==
  DataStreamTypeOK /\ ServerInv /\ [DataStreamNext]_dataStreamVars => ServerInv'
<1> SUFFICES ASSUME DataStreamTypeOK, ServerInv, [DataStreamNext]_dataStreamVars PROVE ServerInv'
  OBVIOUS
<1> USE DEF server, sessions, connections
<1>0. /\ linkState \in [Connections -> LinkStates]
      /\ setup \in [Sessions -> SetupStates]
      /\ key \in [Connections -> Sessions \cup {NoSession}]
      /\ prepared \subseteq Sessions
      /\ tcpServer \in {"none", "open", "closed"}
      /\ serverState \in ServerStates
  BY DEF DataStreamTypeOK, LinkStates
<1>1. ASSUME NEW s \in Sessions, NEW h \in HapConnections, SetupWrite(s, h) PROVE ServerInv'
  <2>1. setup[s] = "new" /\ ~destroyed /\ Establish(s) /\ prepared' = prepared \cup {s}
        /\ UNCHANGED <<destroyed, linkState, key>>
    BY <1>1 DEF SetupWrite, PrepareSession
  <2>2. \A q \in Sessions : q # s => owner'[q] = owner[q]
    BY <1>1 DEF SetupWrite, PrepareSession, DataStreamTypeOK
  <2> QED
    BY <2>1, <2>2, EstablishPreserves
<1>2. ASSUME NEW s \in Sessions, RetryEstablish(s) PROVE ServerInv'
  <2>1. setup[s] = "retry" /\ Establish(s) /\ UNCHANGED <<destroyed, owner, prepared, linkState, key>>
    BY <1>2 DEF RetryEstablish
  <2>2. prepared' = prepared \cup {s}
    BY <2>1 DEF ServerInv, SetupsInOrder
  <2> QED
    BY <2>1, <2>2, EstablishPreserves
<1>3. CASE Listening
  <2>1. /\ serverState = "BINDING" /\ serverState' = "LISTENING"
        /\ setup' = [s \in Sessions |-> IF setup[s] = "listening" THEN "told" ELSE setup[s]]
        /\ UNCHANGED <<tcpServer, destroyed, crashed, owner, prepared, linkState, key>>
    BY <1>3 DEF Listening
  <2>2. \A c \in Connections : key[c] # NoSession => key[c] \in Sessions
    BY <1>0
  <2>3. SetupsInOrder'
    BY <2>1, <2>2 DEF ServerInv, SetupsInOrder
  <2>4. StateTellsServer' /\ ServerForSomebody'
    BY <2>1 DEF ServerInv, StateTellsServer, ServerForSomebody
  <2>5. ServerUp'
    BY <2>1 DEF ServerInv, ServerUp
  <2> QED
    BY <2>3, <2>4, <2>5 DEF ServerInv
<1>4. CASE ServerClosed
  <2>1. /\ tcpServer = "closed" /\ Listed(linkState) = {}
        /\ tcpServer' = "none" /\ serverState' = "UNINITIALIZED"
        /\ UNCHANGED <<destroyed, crashed, owner, prepared, linkState, key>>
    BY <1>4 DEF ServerClosed
  <2>2. serverState = "CLOSING"
    BY <1>0, <2>1 DEF ServerInv, StateTellsServer, ServerStates
  <2>3. \A s \in Sessions : \/ setup[s] = "close" /\ setup'[s] = "retry"
                            \/ setup[s] = "listening" /\ setup'[s] = "lost"
                            \/ setup[s] \notin {"close", "listening"} /\ setup'[s] = setup[s]
    BY <1>4 DEF ServerClosed
  <2>4. SetupsInOrder'
    BY <1>0, <2>1, <2>3 DEF ServerInv, SetupsInOrder
  <2>5. StateTellsServer' /\ ServerForSomebody'
    BY <2>1 DEF ServerInv, StateTellsServer, ServerForSomebody
  <2>6. ServerUp'
    BY <2>1, <2>2, <2>3 DEF ServerInv, ServerUp
  <2> QED
    BY <2>4, <2>5, <2>6 DEF ServerInv
<1>5. CASE Destroy
  <2>1. destroyed' /\ serverState' = "CLOSING" /\ UNCHANGED <<setup, owner, prepared, key>>
    BY <1>5 DEF Destroy
  <2>2. tcpServer' # "open"
    BY <1>0, <1>5 DEF Destroy, ServerInv, StateTellsServer, ServerStates
  <2>3. SetupsInOrder'
    BY <2>1 DEF ServerInv, SetupsInOrder
  <2> QED
    BY <2>1, <2>2, <2>3 DEF ServerInv, StateTellsServer, ServerForSomebody, ServerUp
<1>6. ASSUME NEW s \in Sessions, TimeoutPrepared(s) PROVE ServerInv'
  <2>1. /\ s \in prepared /\ setup[s] \in {"told", "lost"} /\ prepared' = prepared \ {s}
        /\ CheckCloseable /\ UNCHANGED <<destroyed, setup, owner, key, linkState>>
    BY <1>6 DEF TimeoutPrepared
  <2>2. Listed(linkState') = Listed(linkState)
    BY <2>1
  <2> QED
    BY <2>1, <2>2, CheckCloseablePreserves
<1>7. ASSUME NEW c \in Connections, OnSocketClose(c) PROVE ServerInv'
  <2>1. /\ c \in Listed(linkState) /\ linkState' = [linkState EXCEPT ![c] = "CLOSED"]
        /\ CheckCloseable /\ UNCHANGED <<prepared, destroyed, setup, owner, key>>
    BY <1>7 DEF OnSocketClose
  <2>2. Listed(linkState') \subseteq Listed(linkState)
    BY <1>0, <2>1 DEF Listed
  <2> QED
    BY <2>1, <2>2, CheckCloseablePreserves
<1>8. ASSUME NEW c \in Connections, NEW k \in Sessions \cup {NoSession}, OnConnection(c, k)
      PROVE  ServerInv'
  <2>1. /\ serverState = "LISTENING" /\ UNCHANGED <<server, crashed, setup, owner, prepared>>
        /\ k # NoSession => setup[k] = "told"
        /\ linkState' = [linkState EXCEPT ![c] = "UNIDENTIFIED"] /\ key' = [key EXCEPT ![c] = k]
    BY <1>8 DEF OnConnection
  <2>2. c \in Listed(linkState')
    BY <1>0, <2>1 DEF Listed
  <2>3. \A d \in Connections : key'[d] = IF d = c THEN k ELSE key[d]
    BY <1>0, <2>1
  <2>4. SetupsInOrder'
    BY <2>1, <2>3 DEF ServerInv, SetupsInOrder
  <2>5. StateTellsServer' /\ ServerForSomebody'
    BY <2>1, <2>2 DEF ServerInv, StateTellsServer, ServerForSomebody
  <2>6. ServerUp'
    BY <2>1 DEF ServerInv, ServerUp
  <2> QED
    BY <2>4, <2>5, <2>6 DEF ServerInv
<1>9. ASSUME NEW c \in Connections, NEW frames \in Chunks, Identification(c, frames)
      PROVE  ServerInv'
  <2>1. /\ c \in Listed(linkState) /\ key[c] \in prepared /\ prepared' = prepared \ {key[c]}
        /\ UNCHANGED <<server, crashed, setup, owner, key>>
    BY <1>9 DEF Identification, Identified, Listed
  <2>2. Listed(linkState') = Listed(linkState)
    BY <1>9, Dispatched DEF Identification, Dispatch
  <2> QED
    BY <2>1, <2>2, LinkStepPreserves
<1>10. ASSUME UNCHANGED <<server, crashed, setup, owner, key, prepared>>,
              Listed(linkState') = Listed(linkState)
       PROVE  ServerInv'
  BY <1>10, LinkStepPreserves
<1>11. ASSUME NEW c \in Connections, NEW frames \in Chunks, OnSocketData(c, frames)
       PROVE  ServerInv'
  <2>1. linkState[c] \in {"UNIDENTIFIED", "READY"} /\ Dispatch(c, frames)
    BY <1>11 DEF OnSocketData
  <2>2. Listed(linkState') = Listed(linkState)
    BY <2>1, Dispatched DEF Dispatch
  <2> QED
    BY <1>10, <1>11, <2>2 DEF OnSocketData
<1>12. ASSUME NEW C, linkState' = ClosedIn(linkState, C)
       PROVE  Listed(linkState') = Listed(linkState)
  BY <1>0, <1>12, ClosedStayListed
<1>13. ASSUME NEW c \in Connections,
              HelloTimeout(c) \/ \E frames \in Chunks : NotIdentified(c, frames)
       PROVE  ServerInv'
  <2>1. linkState' = ClosedIn(linkState, {c}) /\ UNCHANGED <<server, crashed, sessions, key>>
    BY <1>13 DEF HelloTimeout, NotIdentified
  <2> QED
    BY <1>10, <1>12, <2>1
<1>14. ASSUME NEW r \in RequestIds, RequestTimeout(r) PROVE ServerInv'
  BY <1>10, <1>12, <1>14 DEF RequestTimeout
<1>15. ASSUME NEW h \in HapConnections, HapClose(h) PROVE ServerInv'
  BY <1>10, <1>12, <1>15 DEF HapClose
<1>16. ASSUME \/ UNCHANGED dataStreamVars
              \/ \E c \in Connections : PeerEnds(c) \/ \E r \in RequestIds : SendRequest(c, r)
       PROVE  ServerInv'
  <2>1. UNCHANGED <<server, crashed, sessions, linkState, key, session, helloTimer>>
    BY <1>16 DEF dataStreamVars, SendRequest, PeerEnds
  <2>2. Listed(linkState') = Listed(linkState)
    BY <2>1
  <2> QED
    BY <1>10, <2>1, <2>2
<1> QED
  BY <1>1, <1>2, <1>3, <1>4, <1>5, <1>6, <1>7, <1>8, <1>9, <1>11, <1>13, <1>14, <1>15, <1>16
     DEF DataStreamNext

-----------------------------------------------------------------------------
(* Types.                                                                  *)

\* The types of what the server's callbacks write.
LEMMA ServerTypes ==
  ASSUME DataStreamTypeOK, NEW s \in Sessions, Establish(s)
  PROVE  /\ serverState' \in ServerStates
         /\ tcpServer' \in {"none", "open", "closed"}
         /\ crashed' \in BOOLEAN
         /\ setup' \in [Sessions -> SetupStates]
<1>1. /\ serverState \in ServerStates /\ tcpServer \in {"none", "open", "closed"}
      /\ crashed \in BOOLEAN /\ setup \in [Sessions -> SetupStates]
  BY DEF DataStreamTypeOK
<1>2. CASE serverState = "UNINITIALIZED"
  BY <1>1, <1>2 DEF Establish, ServerStates, SetupStates
<1>3. CASE serverState = "BINDING"
  BY <1>1, <1>3 DEF Establish, SetupStates
<1>4. CASE serverState = "LISTENING"
  BY <1>1, <1>4 DEF Establish, SetupStates
<1>5. CASE serverState = "CLOSING" /\ tcpServer = "none"
  BY <1>1, <1>5 DEF Establish
<1>6. CASE serverState = "CLOSING" /\ tcpServer # "none"
  BY <1>1, <1>6 DEF Establish, SetupStates
<1> QED
  BY <1>1, <1>2, <1>3, <1>4, <1>5, <1>6 DEF ServerStates

\* Every action keeps the types; the handler of a request is there to be called.
LEMMA TypePreserved ==
  DataStreamTypeOK /\ [DataStreamNext]_dataStreamVars => DataStreamTypeOK'
<1> SUFFICES ASSUME DataStreamTypeOK, [DataStreamNext]_dataStreamVars PROVE DataStreamTypeOK'
  OBVIOUS
<1> USE DEF server, sessions, connections, requestState
<1>0. linkState \in [Connections -> LinkStates]
  BY DEF DataStreamTypeOK, LinkStates
<1>1. ASSUME NEW s \in Sessions,
             RetryEstablish(s) \/ \E h \in HapConnections : SetupWrite(s, h)
      PROVE  DataStreamTypeOK'
  <2>1. Establish(s) /\ UNCHANGED <<destroyed, hapOpen, connections, requestState>>
    BY <1>1 DEF RetryEstablish, SetupWrite, PrepareSession
  <2>2. prepared' \subseteq Sessions /\ owner' \in [Sessions -> HapConnections \cup {NoOne}]
    BY <1>1 DEF RetryEstablish, SetupWrite, PrepareSession, DataStreamTypeOK
  <2>3. /\ serverState' \in ServerStates /\ tcpServer' \in {"none", "open", "closed"}
        /\ crashed' \in BOOLEAN /\ setup' \in [Sessions -> SetupStates]
    BY <2>1, ServerTypes
  <2> QED
    BY <2>1, <2>2, <2>3 DEF DataStreamTypeOK
<1>2. CASE Listening
  <2>1. setup' \in [Sessions -> SetupStates]
    BY <1>2 DEF Listening, DataStreamTypeOK, SetupStates
  <2> QED
    BY <1>2, <2>1 DEF Listening, DataStreamTypeOK, ServerStates
<1>3. CASE ServerClosed
  <2> DEFINE becomes(s) == CASE setup[s] = "close"     -> "retry"
                             [] setup[s] = "listening" -> "lost"
                             [] OTHER                  -> setup[s]
  <2>1. \A s \in Sessions : becomes(s) \in SetupStates
    BY DEF DataStreamTypeOK, SetupStates
  <2>2. setup' = [s \in Sessions |-> becomes(s)]
    BY <1>3 DEF ServerClosed
  <2> HIDE DEF becomes
  <2>3. setup' \in [Sessions -> SetupStates]
    BY <2>1, <2>2
  <2> QED
    BY <1>3, <2>3 DEF ServerClosed, DataStreamTypeOK, ServerStates
<1>4. ASSUME NEW C PROVE ClosedIn(linkState, C) \in [Connections -> LinkStates]
  BY <1>0, ClosedStayListed
<1>5. CASE Destroy
  <2>1. linkState' \in [Connections -> LinkStates]
    BY <1>0, <1>4, <1>5 DEF Destroy
  <2>2. tcpServer' \in {"none", "open", "closed"} /\ serverState' \in ServerStates
    BY <1>5 DEF Destroy, DataStreamTypeOK, ServerStates
  <2> QED
    BY <1>5, <2>1, <2>2 DEF Destroy, DataStreamTypeOK, LinkStates
<1>6. ASSUME CheckCloseable
      PROVE  /\ serverState' \in ServerStates /\ tcpServer' \in {"none", "open", "closed"}
             /\ crashed' \in BOOLEAN
  BY <1>6 DEF CheckCloseable, DataStreamTypeOK, ServerStates
<1>7. ASSUME NEW s \in Sessions, TimeoutPrepared(s) PROVE DataStreamTypeOK'
  <2>1. prepared' \subseteq Sessions
    BY <1>7 DEF TimeoutPrepared, DataStreamTypeOK
  <2> QED
    BY <1>6, <1>7, <2>1 DEF TimeoutPrepared, DataStreamTypeOK
<1>8. ASSUME NEW c \in Connections, OnSocketClose(c) PROVE DataStreamTypeOK'
  <2>1. linkState' \in [Connections -> LinkStates]
    BY <1>0, <1>8 DEF OnSocketClose, LinkStates
  <2> QED
    BY <1>6, <1>8, <2>1 DEF OnSocketClose, DataStreamTypeOK, LinkStates
<1>9. ASSUME NEW c \in Connections, NEW k \in Sessions \cup {NoSession}, OnConnection(c, k)
      PROVE  DataStreamTypeOK'
  BY <1>9 DEF OnConnection, DataStreamTypeOK
<1>10. ASSUME NEW c \in Connections, NEW frames \in Chunks, Answered(c, frames)
       PROVE  /\ requestOn' \in [RequestIds -> Connections \cup {NoOne}]
              /\ responseTimer' \subseteq RequestIds
              /\ concluded' \in [RequestIds -> Nat]
  BY <1>10 DEF Answered, DataStreamTypeOK
<1>11. ASSUME NEW c \in Connections, NEW frames \in Chunks, linkState[c] \in {"UNIDENTIFIED", "READY"},
              \/ Dispatch(c, frames)
              \/ linkState' = ClosedIn(linkState, {c}) /\ UNCHANGED <<helloTimer, requestState>>
       PROVE  /\ linkState' \in [Connections -> LinkStates] /\ helloTimer' \subseteq Connections
              /\ requestOn' \in [RequestIds -> Connections \cup {NoOne}]
              /\ responseTimer' \subseteq RequestIds
              /\ concluded' \in [RequestIds -> Nat]
  <2>1. linkState' \in [Connections -> LinkStates]
    BY <1>11, Dispatched DEF Dispatch
  <2>2. helloTimer' \subseteq Connections
    BY <1>11 DEF Dispatch, DataStreamTypeOK
  <2>3. \/ UNCHANGED requestState
        \/ Answered(c, frames)
    BY <1>11 DEF Dispatch
  <2> QED
    BY <1>10, <2>1, <2>2, <2>3 DEF DataStreamTypeOK
<1>12. ASSUME NEW c \in Connections, NEW frames \in Chunks, Identification(c, frames)
       PROVE  DataStreamTypeOK'
  <2>1. /\ linkState' \in [Connections -> LinkStates] /\ helloTimer' \subseteq Connections
        /\ requestOn' \in [RequestIds -> Connections \cup {NoOne}]
        /\ responseTimer' \subseteq RequestIds
        /\ concluded' \in [RequestIds -> Nat]
    BY <1>11, <1>12 DEF Identification
  <2>2. session' \in [Connections -> Sessions \cup {NoSession}] /\ prepared' \subseteq Sessions
    BY <1>12 DEF Identification, Identified, DataStreamTypeOK
  <2> QED
    BY <1>12, <2>1, <2>2 DEF Identification, DataStreamTypeOK, LinkStates
<1>13. ASSUME NEW c \in Connections, NEW frames \in Chunks, OnSocketData(c, frames)
       PROVE  DataStreamTypeOK'
  <2>1. linkState[c] \in {"UNIDENTIFIED", "READY"} /\ Dispatch(c, frames)
    BY <1>13 DEF OnSocketData
  <2>2. /\ linkState' \in [Connections -> LinkStates] /\ helloTimer' \subseteq Connections
        /\ requestOn' \in [RequestIds -> Connections \cup {NoOne}]
        /\ responseTimer' \subseteq RequestIds
        /\ concluded' \in [RequestIds -> Nat]
    BY <1>11, <2>1
  <2> QED
    BY <1>13, <2>2 DEF OnSocketData, DataStreamTypeOK, LinkStates
<1>14. ASSUME NEW c \in Connections,
              HelloTimeout(c) \/ \E frames \in Chunks : NotIdentified(c, frames)
       PROVE  DataStreamTypeOK'
  <2>1. linkState' \in [Connections -> LinkStates] /\ helloTimer' \subseteq Connections
    BY <1>4, <1>14 DEF HelloTimeout, NotIdentified, DataStreamTypeOK
  <2> QED
    BY <1>14, <2>1 DEF HelloTimeout, NotIdentified, DataStreamTypeOK, LinkStates
<1>15. ASSUME NEW c \in Connections, PeerEnds(c) \/ \E r \in RequestIds : SendRequest(c, r)
       PROVE  DataStreamTypeOK'
  BY <1>15 DEF SendRequest, PeerEnds, DataStreamTypeOK
<1>16. ASSUME NEW r \in RequestIds, RequestTimeout(r) PROVE DataStreamTypeOK'
  <2>1. linkState' \in [Connections -> LinkStates]
    BY <1>4, <1>16 DEF RequestTimeout
  <2>2. /\ requestOn' \in [RequestIds -> Connections \cup {NoOne}]
        /\ concluded' \in [RequestIds -> Nat]
    BY <1>16 DEF RequestTimeout, DataStreamTypeOK
  <2> QED
    BY <1>16, <2>1, <2>2 DEF RequestTimeout, DataStreamTypeOK, LinkStates
<1>17. ASSUME NEW h \in HapConnections, HapClose(h) PROVE DataStreamTypeOK'
  <2>1. linkState' \in [Connections -> LinkStates]
    BY <1>4, <1>17 DEF HapClose
  <2> QED
    BY <1>17, <2>1 DEF HapClose, DataStreamTypeOK, LinkStates
<1>18. CASE UNCHANGED dataStreamVars
  BY <1>18 DEF dataStreamVars, DataStreamTypeOK
<1> QED
  BY <1>1, <1>2, <1>3, <1>5, <1>7, <1>8, <1>9, <1>12, <1>13, <1>14, <1>15, <1>16, <1>17, <1>18
     DEF DataStreamNext

-----------------------------------------------------------------------------
(* Sessions and requests.                                                  *)

\* No connection has a session that was not offered.
LEMMA NewIsUntaken ==
  ASSUME DataStreamTypeOK, SetupsInOrder, SessionsTaken, NEW s \in Sessions, setup[s] = "new"
  PROVE  \A c \in Connections : session[c] # s
<1> SUFFICES ASSUME NEW c \in Connections, session[c] = s PROVE FALSE
  OBVIOUS
<1>1. session[c] # NoSession
  BY DataStreamAssumption
<1>2. key[c] = s
  BY <1>1 DEF SessionsTaken
<1> QED
  BY <1>1, <1>2 DEF SetupsInOrder

\* Every action keeps sessions with at most one connection.
LEMMA TakenPreserved ==
  DataStreamTypeOK /\ SetupsInOrder /\ SessionsTaken /\ [DataStreamNext]_dataStreamVars
    => SessionsTaken'
<1> SUFFICES ASSUME DataStreamTypeOK, SetupsInOrder, SessionsTaken, [DataStreamNext]_dataStreamVars
             PROVE  SessionsTaken'
  OBVIOUS
<1> USE DEF server, sessions, connections
<1>0. /\ linkState \in [Connections -> LinkStates] /\ prepared \subseteq Sessions
      /\ key \in [Connections -> Sessions \cup {NoSession}]
      /\ session \in [Connections -> Sessions \cup {NoSession}]
  BY DEF DataStreamTypeOK, LinkStates
<1>1. ASSUME UNCHANGED <<key, session>>, prepared' \subseteq prepared,
             \A c \in Connections : linkState'[c] \in {"none", "UNIDENTIFIED"}
                                      => linkState[c] \in {"none", "UNIDENTIFIED"}
      PROVE  SessionsTaken'
  BY <1>1 DEF SessionsTaken
<1>2. ASSUME NEW s \in Sessions, NEW h \in HapConnections, SetupWrite(s, h) PROVE SessionsTaken'
  <2>1. setup[s] = "new" /\ prepared' = prepared \cup {s} /\ UNCHANGED <<linkState, key, session>>
    BY <1>2 DEF SetupWrite, PrepareSession
  <2>2. \A c \in Connections : session[c] # s
    BY <2>1, NewIsUntaken
  <2> QED
    BY <2>1, <2>2 DEF SessionsTaken
<1>3. ASSUME NEW C, linkState' = ClosedIn(linkState, C), UNCHANGED <<key, session, prepared>>
      PROVE  SessionsTaken'
  <2>1. \A c \in Connections : linkState'[c] \in {"none", "UNIDENTIFIED"}
                                 => linkState[c] \in {"none", "UNIDENTIFIED"}
    BY <1>0, <1>3, ClosedStayListed
  <2> QED
    BY <1>1, <1>3, <2>1
<1>4. ASSUME NEW c \in Connections, OnSocketClose(c) PROVE SessionsTaken'
  <2>1. linkState' = [linkState EXCEPT ![c] = "CLOSED"] /\ UNCHANGED <<key, session, prepared>>
    BY <1>4 DEF OnSocketClose
  <2> QED
    BY <1>0, <1>1, <2>1
<1>5. ASSUME NEW c \in Connections, NEW k \in Sessions \cup {NoSession}, OnConnection(c, k)
      PROVE  SessionsTaken'
  <2>1. linkState[c] = "none" /\ linkState' = [linkState EXCEPT ![c] = "UNIDENTIFIED"]
        /\ key' = [key EXCEPT ![c] = k] /\ UNCHANGED <<session, prepared>>
    BY <1>5 DEF OnConnection
  <2>2. session[c] = NoSession
    BY <2>1 DEF SessionsTaken
  <2>3. \A d \in Connections : d # c => key'[d] = key[d] /\ linkState'[d] = linkState[d]
    BY <1>0, <2>1
  <2> QED
    BY <2>1, <2>2, <2>3 DEF SessionsTaken
<1>6. ASSUME NEW c \in Connections, NEW frames \in Chunks, Identification(c, frames)
      PROVE  SessionsTaken'
  <2>1. /\ linkState[c] = "UNIDENTIFIED" /\ key[c] \in prepared /\ prepared' = prepared \ {key[c]}
        /\ session' = [session EXCEPT ![c] = key[c]] /\ UNCHANGED key
    BY <1>6 DEF Identification, Identified
  <2>2. /\ linkState'[c] \in {"READY", "CLOSING"}
        /\ \A d \in Connections : d # c => linkState'[d] = linkState[d]
    BY <1>6, Dispatched DEF Identification, Dispatch
  <2>3. \A d \in Connections : session'[d] = IF d = c THEN key[c] ELSE session[d]
    BY <1>0, <2>1
  <2> QED
    BY <2>1, <2>2, <2>3 DEF SessionsTaken
<1>7. ASSUME NEW c \in Connections, NEW frames \in Chunks, OnSocketData(c, frames)
      PROVE  SessionsTaken'
  <2>1. /\ linkState'[c] \in {"READY", "CLOSING"}
        /\ \A d \in Connections : d # c => linkState'[d] = linkState[d]
    BY <1>7, Dispatched DEF OnSocketData, Dispatch
  <2>2. UNCHANGED <<key, session, prepared>>
    BY <1>7 DEF OnSocketData
  <2> QED
    BY <1>1, <2>1, <2>2
<1>8. ASSUME \/ \E c \in Connections :
                  HelloTimeout(c) \/ \E frames \in Chunks : NotIdentified(c, frames)
             \/ \E r \in RequestIds : RequestTimeout(r)
             \/ \E h \in HapConnections : HapClose(h)
      PROVE  SessionsTaken'
  <2>1. (\E C : linkState' = ClosedIn(linkState, C)) /\ UNCHANGED <<key, session, prepared>>
    BY <1>8 DEF HelloTimeout, NotIdentified, RequestTimeout, HapClose
  <2> QED
    BY <1>3, <2>1
<1>9. CASE Destroy
  <2>1. linkState' = ClosedIn(linkState, Connections) \/ UNCHANGED linkState
    BY <1>9 DEF Destroy
  <2>2. UNCHANGED <<key, session, prepared>>
    BY <1>9 DEF Destroy
  <2> QED
    BY <1>1, <1>3, <2>1, <2>2
<1>10. ASSUME \/ Listening \/ ServerClosed \/ UNCHANGED dataStreamVars
              \/ \E s \in Sessions : TimeoutPrepared(s) \/ RetryEstablish(s)
              \/ \E c \in Connections : PeerEnds(c) \/ \E r \in RequestIds : SendRequest(c, r)
       PROVE  UNCHANGED <<key, session, linkState>> /\ prepared' \subseteq prepared
  BY <1>10 DEF Listening, ServerClosed, dataStreamVars, TimeoutPrepared, RetryEstablish, SendRequest, PeerEnds
<1> QED
  BY <1>1, <1>2, <1>4, <1>5, <1>6, <1>7, <1>8, <1>9, <1>10 DEF DataStreamNext

\* Every action calls the handler of a request only while it is stored.
LEMMA HandlersPreserved ==
  DataStreamTypeOK /\ HandlerStored /\ [DataStreamNext]_dataStreamVars => HandlerStored'
<1> SUFFICES ASSUME DataStreamTypeOK, HandlerStored, [DataStreamNext]_dataStreamVars
             PROVE  HandlerStored'
  OBVIOUS
<1> USE DEF requestState
<1>0. /\ requestOn \in [RequestIds -> Connections \cup {NoOne}]
      /\ concluded \in [RequestIds -> Nat] /\ NoOne \notin Connections
  BY DataStreamAssumption DEF DataStreamTypeOK
<1>1. ASSUME UNCHANGED requestState PROVE HandlerStored'
  BY <1>1 DEF HandlerStored
<1>2. ASSUME NEW c \in Connections, NEW frames \in Chunks, Answered(c, frames) PROVE HandlerStored'
  <2> DEFINE done == {r \in RequestIds \cap ToSet(frames) : requestOn[r] = c}
  <2>1. /\ requestOn' = [r \in RequestIds |-> IF r \in done THEN NoOne ELSE requestOn[r]]
        /\ responseTimer' = responseTimer \ done
        /\ concluded' = [r \in RequestIds |-> IF r \in done THEN concluded[r] + 1 ELSE concluded[r]]
    BY <1>2 DEF Answered
  <2>2. \A r \in done : r \in RequestIds /\ concluded[r] = 0
    BY <1>0 DEF HandlerStored
  <2> HIDE DEF done
  <2>3. \A r \in RequestIds : /\ requestOn'[r] = IF r \in done THEN NoOne ELSE requestOn[r]
                              /\ concluded'[r] = IF r \in done THEN 1 ELSE concluded[r]
    BY <2>1, <2>2
  <2> QED
    BY <2>1, <2>3 DEF HandlerStored
<1>3. ASSUME NEW c \in Connections, NEW frames \in Chunks,
             Identification(c, frames) \/ OnSocketData(c, frames)
      PROVE  HandlerStored'
  <2>1. UNCHANGED requestState \/ Answered(c, frames)
    BY <1>3 DEF Identification, OnSocketData, Dispatch
  <2> QED
    BY <1>1, <1>2, <2>1
<1>4. ASSUME NEW c \in Connections, NEW r \in RequestIds, SendRequest(c, r) PROVE HandlerStored'
  <2>1. /\ concluded[r] = 0 /\ requestOn' = [requestOn EXCEPT ![r] = c]
        /\ responseTimer' = responseTimer \cup {r} /\ UNCHANGED concluded
    BY <1>4 DEF SendRequest
  <2> QED
    BY <1>0, <2>1 DEF HandlerStored
<1>5. ASSUME NEW r \in RequestIds, RequestTimeout(r) PROVE HandlerStored'
  <2>1. /\ r \in responseTimer /\ requestOn' = [requestOn EXCEPT ![r] = NoOne]
        /\ responseTimer' = responseTimer \ {r} /\ concluded' = [concluded EXCEPT ![r] = @ + 1]
    BY <1>5 DEF RequestTimeout
  <2>2. concluded[r] = 0
    BY <2>1 DEF HandlerStored
  <2>3. \A q \in RequestIds : concluded'[q] = IF q = r THEN 1 ELSE concluded[q]
    BY <1>0, <2>1, <2>2
  <2> QED
    BY <1>0, <2>1, <2>3 DEF HandlerStored
<1>6. ASSUME \/ Listening \/ ServerClosed \/ Destroy \/ UNCHANGED dataStreamVars
             \/ \E s \in Sessions : \/ TimeoutPrepared(s) \/ RetryEstablish(s)
                                    \/ \E h \in HapConnections : SetupWrite(s, h)
             \/ \E h \in HapConnections : HapClose(h)
             \/ \E c \in Connections :
                  \/ HelloTimeout(c) \/ PeerEnds(c) \/ OnSocketClose(c)
                  \/ \E k \in Sessions \cup {NoSession} : OnConnection(c, k)
                  \/ \E frames \in Chunks : NotIdentified(c, frames)
      PROVE  UNCHANGED requestState
  BY <1>6 DEF Listening, ServerClosed, Destroy, dataStreamVars, TimeoutPrepared, RetryEstablish,
              SetupWrite, HapClose, HelloTimeout, PeerEnds, OnSocketClose, OnConnection, NotIdentified
<1> QED
  BY <1>1, <1>3, <1>4, <1>5, <1>6 DEF DataStreamNext

-----------------------------------------------------------------------------
(* The theorems.                                                           *)

\* The accessory starts in the invariant.
LEMMA InitIInv == DataStreamInit => IInv
<1> SUFFICES ASSUME DataStreamInit PROVE IInv
  OBVIOUS
<1>1. DataStreamTypeOK
  BY DEF DataStreamInit, DataStreamTypeOK, ServerStates, SetupStates
<1>2. Listed(linkState) = {}
  BY DEF DataStreamInit, Listed
<1>3. StateTellsServer /\ ServerForSomebody /\ ServerUp
  BY <1>2 DEF DataStreamInit, StateTellsServer, ServerForSomebody, ServerUp
<1>4. SetupsInOrder /\ SessionsTaken /\ HandlerStored
  BY DEF DataStreamInit, SetupsInOrder, SessionsTaken, HandlerStored
<1> QED
  BY <1>1, <1>3, <1>4 DEF IInv

\* No step leaves it.
LEMMA NextIInv == IInv /\ [DataStreamNext]_dataStreamVars => IInv'
<1> SUFFICES ASSUME IInv, [DataStreamNext]_dataStreamVars PROVE IInv'
  OBVIOUS
<1>1. DataStreamTypeOK /\ ServerInv /\ SetupsInOrder /\ SessionsTaken /\ HandlerStored
  BY DEF IInv, ServerInv
<1> QED
  BY <1>1, TypePreserved, ServerPreserved, TakenPreserved, HandlersPreserved DEF IInv, ServerInv

\* Every behaviour stays in the invariant, fair or not.
THEOREM AlwaysIInv == DataStreamSpec => []IInv
  BY InitIInv, NextIInv, PTL DEF DataStreamSpec

\* The server listens for every session whose port was told, no timer closes a server that is not
\* there while data streams are offered, and no request is concluded twice, for any number of
\* sessions, connections and requests (prepareSession, checkCloseable, handleResponse).
THEOREM StreamsAlwaysServed == DataStreamSpec => []StreamsServed
<1>1. IInv => StreamsServed
  <2> SUFFICES ASSUME IInv PROVE StreamsServed
    OBVIOUS
  <2>1. ServerUpWhileNeeded
    <3>1. prepared \subseteq Sessions
      BY DEF IInv, DataStreamTypeOK
    <3> QED
      BY <3>1 DEF IInv, ServerUp, StateTellsServer, ServerForSomebody, ServerUpWhileNeeded
  <2>2. ConcludedOnce
    BY DEF IInv, HandlerStored, ConcludedOnce
  <2> QED
    BY <2>1, <2>2 DEF IInv, StreamsServed
<1> QED
  BY <1>1, AlwaysIInv, PTL

\* A step of the server and its connections is a step of the promise, or none.
LEMMA StepRefines ==
  IInv /\ [DataStreamNext]_dataStreamVars => [Promise!StreamNext]_(Promise!StreamVars)
<1> SUFFICES ASSUME IInv, [DataStreamNext]_dataStreamVars
             PROVE  [Promise!StreamNext]_(Promise!StreamVars)
  OBVIOUS
<1> DEFINE fresh == {s \in Sessions : owner[s] = NoOne}
           users == [s \in Sessions |-> {c \in Connections : session[c] = s}]
<1> USE DEF server, sessions, connections
<1>0. /\ owner \in [Sessions -> HapConnections \cup {NoOne}] /\ prepared \subseteq Sessions
      /\ session \in [Connections -> Sessions \cup {NoSession}]
  BY DEF IInv, DataStreamTypeOK
<1>1. ASSUME UNCHANGED <<owner, prepared, session>>
      PROVE  UNCHANGED Promise!StreamVars
  BY <1>1 DEF Promise!StreamVars
<1>2. ASSUME NEW s \in Sessions, NEW h \in HapConnections, SetupWrite(s, h)
      PROVE  Promise!Offer(s)
  <2>1. /\ setup[s] = "new" /\ owner' = [owner EXCEPT ![s] = h] /\ prepared' = prepared \cup {s}
        /\ UNCHANGED session
    BY <1>2 DEF SetupWrite, PrepareSession
  <2>2. owner[s] = NoOne /\ h # NoOne
    BY <2>1, DataStreamAssumption DEF IInv, SetupsInOrder
  <2>3. fresh' = fresh \ {s}
    BY <1>0, <2>1, <2>2
  <2>4. users' = users
    BY <2>1
  <2> QED
    BY <2>1, <2>2, <2>3, <2>4 DEF Promise!Offer
<1>3. ASSUME NEW s \in Sessions, TimeoutPrepared(s)
      PROVE  Promise!Withdraw(s)
  BY <1>3 DEF TimeoutPrepared, Promise!Withdraw
<1>4. ASSUME NEW c \in Connections, NEW frames \in Chunks, Identification(c, frames)
      PROVE  Promise!StreamNext
  <2>1. /\ linkState[c] = "UNIDENTIFIED" /\ key[c] \in prepared /\ prepared' = prepared \ {key[c]}
        /\ session' = [session EXCEPT ![c] = key[c]] /\ UNCHANGED owner
    BY <1>4 DEF Identification, Identified
  <2>2. key[c] \in Sessions /\ key[c] # NoSession
    BY <1>0, <2>1, DataStreamAssumption
  <2>3. session[c] = NoSession
    BY <2>1 DEF IInv, SessionsTaken
  <2>4. \A d \in Connections : session[d] # key[c]
    BY <2>1, <2>2 DEF IInv, SessionsTaken
  <2>5. \A d \in Connections : session'[d] = IF d = c THEN key[c] ELSE session[d]
    BY <1>0, <2>1
  <2>6. users' = [users EXCEPT ![key[c]] = {c}]
    <3>1. ASSUME NEW s \in Sessions
          PROVE  {d \in Connections : session'[d] = s} =
                   IF s = key[c] THEN {c} ELSE {d \in Connections : session[d] = s}
      BY <2>3, <2>4, <2>5, DataStreamAssumption
    <3> QED
      BY <2>2, <3>1
  <2>7. PICK s \in Sessions : s = key[c]
    BY <2>2
  <2>8. Promise!TakeUp(s, c)
    BY <2>1, <2>6, <2>7 DEF Promise!TakeUp
  <2> QED
    BY <2>8 DEF Promise!StreamNext
<1>5. ASSUME NEW s \in Sessions, RetryEstablish(s)
      PROVE  UNCHANGED <<owner, prepared, session>>
  BY <1>5 DEF RetryEstablish
<1>6. ASSUME \/ Listening \/ ServerClosed \/ Destroy \/ UNCHANGED dataStreamVars
             \/ \E h \in HapConnections : HapClose(h)
             \/ \E c \in Connections :
                  \/ HelloTimeout(c) \/ PeerEnds(c) \/ OnSocketClose(c)
                  \/ \E k \in Sessions \cup {NoSession} : OnConnection(c, k)
                  \/ \E frames \in Chunks : NotIdentified(c, frames) \/ OnSocketData(c, frames)
                  \/ \E r \in RequestIds : SendRequest(c, r)
             \/ \E r \in RequestIds : RequestTimeout(r)
      PROVE  UNCHANGED <<owner, prepared, session>>
  BY <1>6 DEF Listening, ServerClosed, Destroy, dataStreamVars, HapClose, HelloTimeout,
              PeerEnds, OnSocketClose, OnConnection, NotIdentified, OnSocketData, SendRequest, RequestTimeout
<1> QED
  <2>1. ASSUME NEW s \in Sessions,
               TimeoutPrepared(s) \/ \E h \in HapConnections : SetupWrite(s, h)
        PROVE  Promise!StreamNext
    BY <1>2, <1>3, <2>1 DEF Promise!StreamNext
  <2> QED
    BY <1>1, <1>4, <1>5, <1>6, <2>1 DEF DataStreamNext

\* The Data Stream server implements its promise: each session is offered once, taken up by one
\* connection at most and only while the offer stands, and no offer comes back (preparedSessions,
\* identification by the key of the first frame).
THEOREM StreamSessionsImplemented == DataStreamSpec => ImplementsStreamSessions
<1>1. DataStreamInit => Promise!StreamInit
  <2> SUFFICES ASSUME DataStreamInit PROVE Promise!StreamInit
    OBVIOUS
  <2>1. {s \in Sessions : owner[s] = NoOne} = Sessions /\ prepared = {}
    BY DEF DataStreamInit
  <2>2. \A s \in Sessions : {c \in Connections : session[c] = s} = {}
    BY DataStreamAssumption DEF DataStreamInit
  <2> QED
    BY <2>1, <2>2 DEF Promise!StreamInit
<1> QED
  BY <1>1, StepRefines, AlwaysIInv, PTL
     DEF DataStreamSpec, ImplementsStreamSessions, Promise!StreamSpec

-----------------------------------------------------------------------------
(***************************************************************************)
(* The encoding of data streams.  The writer goes through the elements of  *)
(* a container and the reader through the tokens, each with its own list   *)
(* of what was tracked.  The invariant relates the two lists: the reader's *)
(* is never the shorter one, and where writer and reader track the same    *)
(* values, it begins with what the writer's first MaxIndex + 1 stand for.  *)
(* What is written a second time since its index does not fit into a tag   *)
(* is tracked twice by the reader, but only behind those.                  *)
(***************************************************************************)

Sequence(s) == \E S : s \in Seq(S)

\* The tokens the writer tracks are those of scalars.
WriterTracks(w) ==
  /\ Sequence(w)
  /\ \A i \in 1..Len(w) : IsScalar(w[i].content) /\ w[i] = Token(TagOf(w[i].content), w[i].content)

\* A value that was read, and is no container.
Legible(x) == x # Thrown /\ ~IsContainer(x)

\* Every index of the writer is one of the reader.
ReaderTracks(t, w) ==
  /\ Sequence(t) /\ Len(w) <= Len(t)
  /\ \A i \in 1..Len(t) : Legible(t[i])

\* What an index stands for is the same for both.
TrackAlike(w, t) ==
  /\ \A i \in 1..Len(w) : i <= MaxIndex + 1 => t[i] = Plain(w[i].content)
  /\ Len(w) <= MaxIndex + 1 => Len(t) = Len(w)

Counted(v) == TagOf(v) \notin (BareTags \ {"null"}) \cup {"data"}

\* What is counted by both has no small number, hence none whose tag is unknown.
ReadAlike == \A k \in DOMAIN message : \A j \in DOMAIN Leaves(message[k]) : Counted(Leaves(message[k])[j])

IsReader(r) ==
  /\ r = [read |-> r.read, tracked |-> r.tracked, container |-> r.container]
  /\ Sequence(r.read)

\* The shape of one value.
ShapeOf(v) == IF IsContainer(v) THEN <<v.type, Len(v.elements)>> ELSE <<IF v = Thrown THEN "thrown" ELSE "scalar">>

\* Reader r has read the values of m, of which the writer tracks w.
HasRead(r, m, w) ==
  /\ IsReader(r)
  /\ r.container = NoContainer
  /\ ReaderTracks(r.tracked, w)
  /\ Len(r.read) = Len(m)
  /\ \A k \in 1..Len(m) : ShapeOf(r.read[k]) = ShapeOf(m[k])

HasReadAlike(r, m, w) ==
  /\ TrackAlike(w, r.tracked)
  /\ \A k \in 1..Len(m) : r.read[k] = PlainAll(m[k])

CodecIInv ==
  /\ message \in Seq(Values) /\ writeFailed \in BOOLEAN
  /\ Sequence(buffer) /\ \A k \in 1..Len(buffer) : DOMAIN buffer[k] = {"tag", "content"}
  /\ WriterTracks(writtenData)
  /\ ~writeFailed =>
       /\ TagsKnown => HasRead(Reader(buffer), message, writtenData)
       /\ ReadAlike => HasReadAlike(Reader(buffer), message, writtenData)

-----------------------------------------------------------------------------
\* Sequences of whatever they have.
LEMMA SequenceFacts ==
  ASSUME NEW s, Sequence(s)
  PROVE  /\ Len(s) \in Nat /\ DOMAIN s = 1..Len(s)
         /\ \A x : /\ Sequence(Append(s, x)) /\ Len(Append(s, x)) = Len(s) + 1
                   /\ \A i \in 1..Len(s) : Append(s, x)[i] = s[i]
                   /\ Append(s, x)[Len(s) + 1] = x
<1>1. PICK S : s \in Seq(S)
  BY DEF Sequence
<1>2. ASSUME NEW x
      PROVE  /\ Sequence(Append(s, x)) /\ Len(Append(s, x)) = Len(s) + 1
             /\ \A i \in 1..Len(s) : Append(s, x)[i] = s[i]
             /\ Append(s, x)[Len(s) + 1] = x
  <2> DEFINE T == S \cup {x}
  <2>1. s \in Seq(T) /\ x \in T
    BY <1>1, SeqMonotonic
  <2> HIDE DEF T
  <2>2. /\ Append(s, x) \in Seq(T) /\ Len(Append(s, x)) = Len(s) + 1
        /\ \A i \in 1..Len(s) : Append(s, x)[i] = s[i]
        /\ Append(s, x)[Len(s) + 1] = x
    BY <2>1
  <2> QED
    BY <2>2 DEF Sequence
<1> QED
  BY <1>1, <1>2, LenProperties

LEMMA ConcatFacts ==
  ASSUME NEW s, NEW t, Sequence(s), Sequence(t)
  PROVE  /\ Sequence(s \o t) /\ Len(s \o t) = Len(s) + Len(t)
         /\ \A i \in 1..Len(s) : (s \o t)[i] = s[i]
         /\ \A i \in 1..Len(t) : (s \o t)[Len(s) + i] = t[i]
         /\ \A x : s \o Append(t, x) = Append(s \o t, x)
<1>1. PICK S, T : s \in Seq(S) /\ t \in Seq(T)
  BY DEF Sequence
<1> DEFINE U == S \cup T
<1>2. s \in Seq(U) /\ t \in Seq(U)
  BY <1>1, SeqMonotonic
<1> HIDE DEF U
<1>3. Len(s) \in Nat /\ Len(t) \in Nat
  BY <1>2
<1>4. /\ s \o t \in Seq(U) /\ Len(s \o t) = Len(s) + Len(t)
      /\ \A i \in 1..(Len(s) + Len(t)) : (s \o t)[i] = IF i <= Len(s) THEN s[i] ELSE t[i - Len(s)]
  BY <1>2, ConcatProperties
<1>5. ASSUME NEW i \in 1..Len(t) PROVE (s \o t)[Len(s) + i] = t[i]
  <2>1. Len(s) + i \in 1..(Len(s) + Len(t)) /\ ~(Len(s) + i <= Len(s)) /\ Len(s) + i - Len(s) = i
    BY <1>3
  <2> QED
    BY <1>4, <2>1
<1>6. ASSUME NEW x PROVE s \o Append(t, x) = Append(s \o t, x)
  <2> DEFINE V == U \cup {x}
  <2>1. s \in Seq(V) /\ t \in Seq(V) /\ s \o t \in Seq(V) /\ x \in V
    BY <1>2, <1>4, SeqMonotonic
  <2> HIDE DEF V
  <2>2. Append(t, x) \in Seq(V) /\ Append(s \o t, x) \in Seq(V) /\ s \o Append(t, x) \in Seq(V)
    BY <2>1
  <2> QED
    BY <2>1, <2>2
<1> QED
  BY <1>3, <1>4, <1>5, <1>6 DEF Sequence

LEMMA EmptySequence == Sequence(<<>>) /\ Len(<<>>) = 0
  BY EmptySeq DEF Sequence

LEMMA EqualSequences ==
  ASSUME NEW s, NEW t, Sequence(s), Sequence(t), Len(s) = Len(t), \A i \in 1..Len(s) : s[i] = t[i]
  PROVE  s = t
<1>1. PICK S, T : s \in Seq(S) /\ t \in Seq(T)
  BY DEF Sequence
<1> DEFINE U == S \cup T
<1>2. s \in Seq(U) /\ t \in Seq(U)
  BY <1>1, SeqMonotonic
<1> HIDE DEF U
<1> QED
  BY <1>2, SeqEqual

-----------------------------------------------------------------------------
\* The writer has written the first n of vs after tracked.
Wrote(f, vs, tracked, n) ==
  f = [k \in 0..n |-> IF k = 0 THEN [tokens |-> <<>>, tracked |-> tracked]
                      ELSE [tokens  |-> Append(f[k - 1].tokens, Scalar(vs[k], f[k - 1].tracked).token),
                            tracked |-> Scalar(vs[k], f[k - 1].tracked).tracked]]

LEMMA WroteExists ==
  ASSUME NEW vs, NEW tracked, NEW N \in Nat
  PROVE  \E f : Wrote(f, vs, tracked, N)
<1> DEFINE Then(k, e) == [tokens |-> Append(e.tokens, Scalar(vs[k], e.tracked).token),
                          tracked |-> Scalar(vs[k], e.tracked).tracked]
           W(f, n) == f = [k \in 0..n |-> IF k = 0 THEN [tokens |-> <<>>, tracked |-> tracked]
                                          ELSE Then(k, f[k - 1])]
           Reached == {n \in 0..N : \E f : W(f, n)}
<1>1. \A f, n : W(f, n) <=> Wrote(f, vs, tracked, n)
  BY DEF Wrote
<1> HIDE DEF Then
<1>2. 0 \in Reached
  <2>1. W([k \in 0..0 |-> [tokens |-> <<>>, tracked |-> tracked]], 0)
    OBVIOUS
  <2> HIDE DEF W
  <2> QED
    BY <2>1
<1>3. ASSUME NEW n \in 1..N, n - 1 \in Reached PROVE n \in Reached
  <2>1. PICK f : W(f, n - 1)
    BY <1>3
  <2> DEFINE g == [k \in 0..n |-> IF k = n THEN Then(n, f[n - 1]) ELSE f[k]]
  <2>2. ASSUME NEW k \in 0..n
        PROVE  g[k] = IF k = 0 THEN [tokens |-> <<>>, tracked |-> tracked] ELSE Then(k, g[k - 1])
    <3>1. CASE k = 0
      BY <2>1, <3>1
    <3>2. CASE k # 0
      <4>1. k - 1 \in 0..(n - 1) /\ g[k - 1] = f[k - 1]
        BY <3>2
      <4>2. CASE k = n
        BY <3>2, <4>1, <4>2
      <4>3. CASE k # n
        <5>1. k \in 0..(n - 1)
          BY <4>3
        <5> QED
          BY <2>1, <3>2, <4>1, <4>3, <5>1
      <4> QED
        BY <4>2, <4>3
    <3> QED
      BY <3>1, <3>2
  <2>3. W(g, n)
    BY <2>2
  <2> HIDE DEF g, W
  <2> QED
    BY <2>3
<1>4. 0..N \subseteq Reached
  <2> HIDE DEF Reached
  <2> QED
    BY <1>2, <1>3, InductionUpTo
<1>5. N \in 0..N
  OBVIOUS
<1> HIDE DEF W
<1> QED
  BY <1>1, <1>4, <1>5

\* What Scalars computes, element by element.
Written(f, vs, tracked) ==
  /\ f[0] = [tokens |-> <<>>, tracked |-> tracked]
  /\ \A k \in 1..Len(vs) :
       f[k] = [tokens  |-> Append(f[k - 1].tokens, Scalar(vs[k], f[k - 1].tracked).token),
               tracked |-> Scalar(vs[k], f[k - 1].tracked).tracked]

LEMMA ScalarsComputed ==
  ASSUME NEW vs, NEW tracked, Len(vs) \in Nat
  PROVE  \E f : Scalars(vs, tracked) = f[Len(vs)] /\ Written(f, vs, tracked)
<1> DEFINE after == CHOOSE f : Wrote(f, vs, tracked, Len(vs))
<1>1. Wrote(after, vs, tracked, Len(vs))
  BY WroteExists
<1>2. Scalars(vs, tracked) = after[Len(vs)]
  BY DEF Scalars, Wrote
<1> HIDE DEF after
<1>3. \A k \in 0..Len(vs) :
        after[k] = IF k = 0 THEN [tokens |-> <<>>, tracked |-> tracked]
                   ELSE [tokens  |-> Append(after[k - 1].tokens, Scalar(vs[k], after[k - 1].tracked).token),
                         tracked |-> Scalar(vs[k], after[k - 1].tracked).tracked]
  BY <1>1 DEF Wrote
<1>4. 0 \in 0..Len(vs) /\ \A k \in 1..Len(vs) : k \in 0..Len(vs) /\ k # 0
  OBVIOUS
<1>5. Written(after, vs, tracked)
  BY <1>3, <1>4 DEF Written
<1> QED
  BY <1>2, <1>5

\* The reader has read the first n of tokens.
Start == [read |-> <<>>, tracked |-> <<>>, container |-> NoContainer]

Read(f, tokens, n) == f = [k \in 0..n |-> IF k = 0 THEN Start ELSE ReadToken(tokens[k], f[k - 1])]

LEMMA ReadExists ==
  ASSUME NEW tokens, NEW N \in Nat
  PROVE  \E f : Read(f, tokens, N)
<1> DEFINE Reached == {n \in 0..N : \E f : Read(f, tokens, n)}
<1>1. 0 \in Reached
  <2>1. Read([k \in 0..0 |-> Start], tokens, 0)
    BY DEF Read
  <2> QED
    BY <2>1
<1>2. ASSUME NEW n \in 1..N, n - 1 \in Reached PROVE n \in Reached
  <2>1. PICK f : Read(f, tokens, n - 1)
    BY <1>2
  <2>0. \A k \in 0..(n - 1) : f[k] = IF k = 0 THEN Start ELSE ReadToken(tokens[k], f[k - 1])
    BY <2>1 DEF Read
  <2> DEFINE g == [k \in 0..n |-> IF k = n THEN ReadToken(tokens[n], f[n - 1]) ELSE f[k]]
  <2>2. ASSUME NEW k \in 0..n
        PROVE  g[k] = IF k = 0 THEN Start ELSE ReadToken(tokens[k], g[k - 1])
    <3>1. CASE k = 0
      BY <2>0, <3>1
    <3>2. CASE k # 0
      <4>1. k - 1 \in 0..(n - 1) /\ g[k - 1] = f[k - 1]
        BY <3>2
      <4>2. CASE k = n
        BY <3>2, <4>1, <4>2
      <4>3. CASE k # n
        <5>1. k \in 0..(n - 1)
          BY <4>3
        <5> QED
          BY <2>0, <3>2, <4>1, <4>3, <5>1
      <4> QED
        BY <4>2, <4>3
    <3> QED
      BY <3>1, <3>2
  <2>3. Read(g, tokens, n)
    BY <2>2 DEF Read
  <2> HIDE DEF g
  <2> QED
    BY <2>3
<1>3. 0..N \subseteq Reached
  <2> HIDE DEF Reached
  <2> QED
    BY <1>1, <1>2, InductionUpTo
<1>4. N \in 0..N
  OBVIOUS
<1> QED
  BY <1>3, <1>4

\* What was read of the tokens so far does not depend on those that follow.
LEMMA ReadAgrees ==
  ASSUME NEW f, NEW g, NEW s, NEW t, NEW m \in Nat, NEW n \in 0..m,
         Read(f, s, m), Read(g, t, n), \A i \in 1..n : s[i] = t[i]
  PROVE  f[n] = g[n]
<1> DEFINE Same == {k \in 0..n : f[k] = g[k]}
<1>1. /\ \A k \in 0..m : f[k] = IF k = 0 THEN Start ELSE ReadToken(s[k], f[k - 1])
      /\ \A k \in 0..n : g[k] = IF k = 0 THEN Start ELSE ReadToken(t[k], g[k - 1])
  BY DEF Read
<1>2. 0 \in Same
  BY <1>1
<1>3. ASSUME NEW k \in 1..n, k - 1 \in Same PROVE k \in Same
  <2>1. k \in 0..m /\ k \in 0..n /\ k # 0 /\ f[k - 1] = g[k - 1] /\ s[k] = t[k]
    BY <1>3
  <2> QED
    BY <1>1, <2>1
<1>4. 0..n \subseteq Same
  <2> HIDE DEF Same
  <2> QED
    BY <1>2, <1>3, InductionUpTo
<1>5. n \in 0..n
  OBVIOUS
<1> QED
  BY <1>4, <1>5

\* The reader goes on where it was, token by token.
LEMMA ReaderGoesOn ==
  /\ Reader(<<>>) = Start
  /\ \A s, t : Sequence(s) => Reader(Append(s, t)) = ReadToken(t, Reader(s))
<1> DEFINE after(s) == CHOOSE f : Read(f, s, Len(s))
<1>1. ASSUME NEW s, Sequence(s)
      PROVE  Reader(s) = after(s)[Len(s)] /\ Read(after(s), s, Len(s))
  <2>1. Len(s) \in Nat
    BY <1>1, SequenceFacts
  <2>2. Read(after(s), s, Len(s))
    BY <2>1, ReadExists
  <2>3. Reader(s) = after(s)[Len(s)]
    BY DEF Reader, Read, Start
  <2> QED
    BY <2>2, <2>3
<1> HIDE DEF after
<1>2. Reader(<<>>) = Start
  <2>1. Reader(<<>>) = after(<<>>)[0] /\ Read(after(<<>>), <<>>, 0)
    BY <1>1, EmptySequence
  <2> QED
    BY <2>1 DEF Read
<1>3. ASSUME NEW s, NEW t, Sequence(s)
      PROVE  Reader(Append(s, t)) = ReadToken(t, Reader(s))
  <2> DEFINE a == Append(s, t)
             n == Len(s)
  <2>1. /\ Sequence(a) /\ n \in Nat /\ Len(a) = n + 1 /\ a[n + 1] = t
        /\ \A i \in 1..n : a[i] = s[i]
    BY <1>3, SequenceFacts
  <2> HIDE DEF a, n
  <2>2. Reader(a) = after(a)[n + 1] /\ Read(after(a), a, n + 1)
    BY <1>1, <2>1
  <2>3. Reader(s) = after(s)[n] /\ Read(after(s), s, n)
    BY <1>1, <1>3 DEF n
  <2>4. after(a)[n] = after(s)[n]
    BY <2>1, <2>2, <2>3, ReadAgrees
  <2>5. after(a)[n + 1] = ReadToken(a[n + 1], after(a)[n])
    <3>1. n + 1 \in 0..(n + 1) /\ n + 1 # 0 /\ n + 1 - 1 = n
      BY <2>1
    <3>2. \A k \in 0..(n + 1) : after(a)[k] = IF k = 0 THEN Start ELSE ReadToken(a[k], after(a)[k - 1])
      <4> DEFINE h == after(a)
      <4>1. h = [k \in 0..(n + 1) |-> IF k = 0 THEN Start ELSE ReadToken(a[k], h[k - 1])]
        BY <2>2 DEF Read
      <4> HIDE DEF h
      <4>2. \A k \in 0..(n + 1) : h[k] = IF k = 0 THEN Start ELSE ReadToken(a[k], h[k - 1])
        BY <4>1
      <4> QED
        BY <4>2 DEF h
    <3>3. PICK k \in 0..(n + 1) : k = n + 1
      BY <3>1
    <3>4. after(a)[k] = ReadToken(a[k], after(a)[k - 1])
      BY <2>1, <3>2, <3>3
    <3>5. k - 1 = n
      BY <2>1, <3>3
    <3> QED
      BY <3>3, <3>4, <3>5
  <2> QED
    BY <2>1, <2>2, <2>3, <2>4, <2>5 DEF a
<1> QED
  BY <1>2, <1>3

-----------------------------------------------------------------------------
\* The tag of a scalar is one of its own, and a scalar is read as no container.
LEMMA ScalarFacts ==
  ASSUME NEW v, IsScalar(v)
  PROVE  /\ TagOf(v) \notin {"compression", "array", "dictionary", "terminator"}
         /\ TagOf(v) = "null" => Plain(v) = v
         /\ Legible(v) /\ Legible(Plain(v))
<1>1. v.type \in {"string", "data", "null", "bool", "int", "int64", "float", "date", "uuid"}
  BY DEF IsScalar, IsText
<1>2. \A n : NumberTag(n) \in {"minusOne", "range", "int8", "int16", "int32", "int64"}
  BY DEF NumberTag
<1>3. /\ TagOf(v) \notin {"compression", "array", "dictionary", "terminator"}
      /\ TagOf(v) = "null" => v.type = "null"
  <2>1. CASE v.type = "int"
    <3>1. TagOf(v) = NumberTag(v.value)
      BY <2>1 DEF TagOf
    <3> QED
      BY <1>2, <3>1
  <2>2. CASE v.type # "int"
    BY <1>1, <2>2 DEF TagOf, LengthTag
  <2> QED
    BY <2>1, <2>2
<1>4. v.type = "null" => Plain(v) = v
  BY DEF Plain
<1>5. Legible(v)
  BY <1>1 DEF Legible, IsContainer, Thrown
<1>6. Legible(Plain(v))
  <2>1. CASE v.type = "int64"
    <3>1. v = [type |-> "int64", value |-> v.value]
      BY <2>1 DEF IsScalar
    <3>2. Plain(v) = [type |-> "int", value |-> v.value]
      BY <3>1 DEF Plain
    <3> QED
      BY <3>2 DEF Legible, IsContainer, Thrown
  <2>2. CASE v.type # "int64"
    BY <1>5, <2>2 DEF Plain
  <2> QED
    BY <2>1, <2>2
<1> QED
  BY <1>3, <1>4, <1>5, <1>6

\* Where a token was written before.
IndexOf(w, token) == (CHOOSE i \in DOMAIN w : w[i] = token) - 1

LEMMA IndexFound ==
  ASSUME NEW w, NEW token, Sequence(w), Contains(w, token)
  PROVE  IndexOf(w, token) \in 0..(Len(w) - 1) /\ w[IndexOf(w, token) + 1] = token
<1>1. Len(w) \in Nat /\ DOMAIN w = 1..Len(w)
  BY SequenceFacts
<1>2. \E i \in DOMAIN w : w[i] = token
  BY <1>1 DEF Contains
<1> DEFINE j == CHOOSE i \in DOMAIN w : w[i] = token
<1>3. j \in DOMAIN w /\ w[j] = token
  BY <1>2
<1>4. IndexOf(w, token) = j - 1
  BY DEF IndexOf
<1> HIDE DEF j
<1>5. j - 1 + 1 = j
  BY <1>1, <1>3
<1> QED
  BY <1>1, <1>3, <1>4, <1>5

\* The four ways of writing a scalar.
LEMMA ScalarCases ==
  ASSUME NEW v, NEW w
  PROVE  LET token == Token(TagOf(v), v)
             s == Scalar(v, w)
         IN  /\ token.tag \in BareTags => s = [token |-> token, tracked |-> w]
             /\ token.tag \notin BareTags /\ ~Contains(w, token) =>
                  s = [token |-> token, tracked |-> Append(w, token)]
             /\ token.tag \notin BareTags /\ Contains(w, token) /\ IndexOf(w, token) <= MaxIndex =>
                  s = [token |-> Token("compression", IndexOf(w, token)), tracked |-> w]
             /\ token.tag \notin BareTags /\ Contains(w, token) /\ ~(IndexOf(w, token) <= MaxIndex) =>
                  s = [token |-> token, tracked |-> w]
<1> DEFINE token == Token(TagOf(v), v)
<1> HIDE DEF token
<1>1. Scalar(v, w) = IF token.tag \in BareTags THEN [token |-> token, tracked |-> w]
                     ELSE IF ~Contains(w, token) THEN [token |-> token, tracked |-> Append(w, token)]
                     ELSE [token |-> IF IndexOf(w, token) <= MaxIndex
                                     THEN Token("compression", IndexOf(w, token)) ELSE token,
                           tracked |-> w]
  BY DEF Scalar, IndexOf, token
<1> QED
  BY <1>1 DEF token

LEMMA RangeTag ==
  ASSUME NEW n \in Int
  PROVE  NumberTag(n) = "range" <=> n \in 0..MaxSmall
<1>1. MaxSmall \in Nat
  BY CodecAssumption
<1> DEFINE inOne == n \notin -1..MaxSmall /\ Fits(n, MaxInt8)
           inTwo == ~Fits(n, MaxInt8) /\ Fits(n, MaxInt16)
           inFour == ~Fits(n, MaxInt16) /\ Fits(n, MaxInt32)
<1>2. NumberTag(n) =
        CASE n = -1 -> "minusOne" [] n \in 0..MaxSmall -> "range"
          [] inOne -> "int8" [] inTwo -> "int16" [] inFour -> "int32" [] OTHER -> "int64"
  BY DEF NumberTag
<1>3. n \in 0..MaxSmall => n # -1 /\ ~inOne /\ ~inTwo /\ ~inFour
  <2>1. n \in 0..MaxSmall => Fits(n, MaxInt8) /\ Fits(n, MaxInt16) /\ Fits(n, MaxInt32)
    BY CodecAssumption DEF Fits
  <2> QED
    BY <1>1, <2>1
<1> HIDE DEF inOne, inTwo, inFour
<1>4. CASE n \in 0..MaxSmall
  <2>1. n # -1 /\ ~inOne /\ ~inTwo /\ ~inFour
    BY <1>3, <1>4
  <2> QED
    BY <1>2, <1>4, <2>1
<1>5. CASE n \notin 0..MaxSmall
  <2>1. NumberTag(n) \in {"minusOne", "int8", "int16", "int32", "int64"}
    BY <1>2, <1>5
  <2> QED
    BY <1>5, <2>1
<1> QED
  BY <1>4, <1>5

\* The tag of a number is unknown only if it is a small number behind RangeStop;
\* such a number is not counted.
LEMMA KnownFacts ==
  ASSUME NEW v, IsScalar(v)
  PROVE  /\ Known(v) => ~UnknownTag(Token(TagOf(v), v))
         /\ Counted(v) => Known(v)
<1>1. MaxSmall \in Nat /\ RangeStop \in 0..MaxSmall
  BY CodecAssumption
<1>2. Token(TagOf(v), v).tag = TagOf(v) /\ Token(TagOf(v), v).content = v
  BY DEF Token
<1>3. v.type \in {"string", "data", "null", "bool", "int", "int64", "float", "date", "uuid"}
  BY DEF IsScalar, IsText
<1>4. CASE v.type = "int"
  <2>1. v.value \in Int /\ TagOf(v) = NumberTag(v.value)
    BY <1>4 DEF IsScalar, TagOf
  <2>2. NumberTag(v.value) = "range" <=> v.value \in 0..MaxSmall
    BY <2>1, RangeTag
  <2> QED
    BY <1>1, <1>2, <1>4, <2>1, <2>2 DEF Known, UnknownTag, Counted, BareTags
<1>5. CASE v.type # "int"
  <2>1. TagOf(v) # "range"
    BY <1>3, <1>5 DEF TagOf, LengthTag
  <2> QED
    BY <1>2, <1>5, <2>1 DEF Known, UnknownTag
<1> QED
  BY <1>4, <1>5

\* The reader of a token that is no index.
LEMMA ReadOfToken ==
  ASSUME NEW v, NEW t, IsScalar(v), Known(v)
  PROVE  LET d == ReadScalar(Token(TagOf(v), v), t)
         IN  /\ TagOf(v) = "null" => d = [value |-> v, tracked |-> t]
             /\ TagOf(v) = "data" => d = [value |-> Undefined, tracked |-> Append(t, Plain(v))]
             /\ TagOf(v) \notin {"null", "data"} => d = [value |-> Plain(v), tracked |-> Append(t, Plain(v))]
<1>1. TagOf(v) # "compression" /\ ~UnknownTag(Token(TagOf(v), v))
  BY ScalarFacts, KnownFacts
<1>2. Token(TagOf(v), v).tag = TagOf(v) /\ Token(TagOf(v), v).content = v
  BY DEF Token
<1> QED
  BY <1>1, <1>2 DEF ReadScalar

LEMMA IndexRead ==
  ASSUME NEW token, NEW t, token.tag = "compression"
  PROVE  ReadScalar(token, t) =
           [value |-> IF token.content < Len(t) THEN t[token.content + 1] ELSE Thrown, tracked |-> t]
<1>1. token.tag # "null" /\ ~UnknownTag(token)
  BY DEF UnknownTag
<1> DEFINE found == [value |-> IF token.content < Len(t) THEN t[token.content + 1] ELSE Thrown, tracked |-> t]
           other == [value |-> IF token.tag = "data" THEN Undefined ELSE Plain(token.content),
                     tracked |-> Append(t, Plain(token.content))]
<1>2. ReadScalar(token, t) =
        CASE token.tag = "compression" -> found
          [] token.tag = "null" -> [value |-> token.content, tracked |-> t]
          [] UnknownTag(token) -> [value |-> Thrown, tracked |-> t]
          [] OTHER -> other
  BY DEF ReadScalar
<1> HIDE DEF found, other
<1>3. ReadScalar(token, t) = found
  BY <1>1, <1>2
<1> QED
  BY <1>3 DEF found

\* What is written of a scalar is a token, and what is tracked of it a token of a scalar.
LEMMA ScalarTyped ==
  ASSUME NEW v, IsScalar(v), NEW w, WriterTracks(w)
  PROVE  WriterTracks(Scalar(v, w).tracked) /\ DOMAIN Scalar(v, w).token = {"tag", "content"}
<1> DEFINE token == Token(TagOf(v), v)
           s == Scalar(v, w)
<1>1. token = Token(TagOf(v), v) /\ token.content = v /\ \A x, y : DOMAIN Token(x, y) = {"tag", "content"}
  BY DEF Token
<1>2. \/ s = [token |-> token, tracked |-> w]
      \/ s = [token |-> token, tracked |-> Append(w, token)]
      \/ s = [token |-> Token("compression", IndexOf(w, token)), tracked |-> w]
  BY ScalarCases
<1> HIDE DEF token, s
<1>3. WriterTracks(Append(w, token))
  BY <1>1, SequenceFacts DEF WriterTracks
<1>4. s.tracked \in {w, Append(w, token)} /\ s.token \in {token, Token("compression", IndexOf(w, token))}
  BY <1>2
<1> QED
  BY <1>1, <1>3, <1>4 DEF s

\* What is written of a scalar is read as that scalar, or as no value at all
\* if it is short data, and writer and reader go on to track alike.
LEMMA ScalarIsRead ==
  ASSUME NEW v, IsScalar(v), Known(v), NEW w, WriterTracks(w), NEW t, ReaderTracks(t, w)
  PROVE  LET s == Scalar(v, w)
             d == ReadScalar(s.token, t)
         IN  /\ WriterTracks(s.tracked) /\ ReaderTracks(d.tracked, s.tracked)
             /\ Legible(d.value)
             /\ DOMAIN s.token = {"tag", "content"}
             /\ s.token.tag \notin {"array", "dictionary", "terminator"}
             /\ Counted(v) /\ TrackAlike(w, t) => d.value = Plain(v) /\ TrackAlike(s.tracked, d.tracked)
<1> DEFINE token == Token(TagOf(v), v)
           s == Scalar(v, w)
           d == ReadScalar(s.token, t)
           index == IndexOf(w, token)
           p == Plain(v)
<1>0. /\ token = Token(TagOf(v), v) /\ token.tag = TagOf(v) /\ token.content = v
      /\ \A x, y : Token(x, y).tag = x /\ Token(x, y).content = y /\ DOMAIN Token(x, y) = {"tag", "content"}
      /\ DOMAIN token = {"tag", "content"}
  BY DEF Token
<1>1. /\ Sequence(w) /\ Sequence(t) /\ Len(w) \in Nat /\ Len(t) \in Nat /\ Len(w) <= Len(t)
      /\ \A x : /\ Sequence(Append(w, x)) /\ Len(Append(w, x)) = Len(w) + 1
                /\ \A i \in 1..Len(w) : Append(w, x)[i] = w[i]
                /\ Append(w, x)[Len(w) + 1] = x
      /\ \A x : /\ Sequence(Append(t, x)) /\ Len(Append(t, x)) = Len(t) + 1
                /\ \A i \in 1..Len(t) : Append(t, x)[i] = t[i]
                /\ Append(t, x)[Len(t) + 1] = x
  BY SequenceFacts DEF WriterTracks, ReaderTracks
<1>2. /\ TagOf(v) \notin {"compression", "array", "dictionary", "terminator"}
      /\ TagOf(v) = "null" => p = v
      /\ Legible(v) /\ Legible(p)
  BY ScalarFacts
<1>3. /\ TagOf(v) = "null" => ReadScalar(token, t) = [value |-> v, tracked |-> t]
      /\ TagOf(v) = "data" => ReadScalar(token, t) = [value |-> Undefined, tracked |-> Append(t, p)]
      /\ TagOf(v) \notin {"null", "data"} => ReadScalar(token, t) = [value |-> p, tracked |-> Append(t, p)]
  BY ReadOfToken
<1>4. Legible(Undefined)
  BY DEF Legible, Undefined, Thrown, IsContainer
<1>5. MaxIndex \in Nat
  BY CodecAssumption
<1>6. ReaderTracks(Append(t, p), w)
  BY <1>1, <1>2 DEF ReaderTracks
<1>7. WriterTracks(Append(w, token)) /\ ReaderTracks(Append(t, p), Append(w, token))
  <2>1. WriterTracks(Append(w, token))
    BY <1>0, <1>1 DEF WriterTracks
  <2>2. ReaderTracks(Append(t, p), Append(w, token))
    BY <1>1, <1>2 DEF ReaderTracks
  <2> QED
    BY <2>1, <2>2
<1>8. /\ token.tag \in BareTags => s = [token |-> token, tracked |-> w]
      /\ token.tag \notin BareTags /\ ~Contains(w, token) => s = [token |-> token, tracked |-> Append(w, token)]
      /\ token.tag \notin BareTags /\ Contains(w, token) /\ index <= MaxIndex =>
           s = [token |-> Token("compression", index), tracked |-> w]
      /\ token.tag \notin BareTags /\ Contains(w, token) /\ ~(index <= MaxIndex) =>
           s = [token |-> token, tracked |-> w]
  BY ScalarCases
<1>9. Counted(v) <=> TagOf(v) \notin (BareTags \ {"null"}) \cup {"data"}
  BY DEF Counted
<1>10. "null" \in BareTags /\ "data" \notin BareTags
  BY DEF BareTags
<1> DEFINE Goal == /\ WriterTracks(s.tracked) /\ ReaderTracks(d.tracked, s.tracked)
                   /\ Legible(d.value)
                   /\ DOMAIN s.token = {"tag", "content"}
                   /\ s.token.tag \notin {"array", "dictionary", "terminator"}
                   /\ Counted(v) /\ TrackAlike(w, t) => d.value = p /\ TrackAlike(s.tracked, d.tracked)
<1>11. d = ReadScalar(s.token, t)
  OBVIOUS
<1> SUFFICES Goal
  OBVIOUS
<1> HIDE DEF token, s, d, index, p
<1>12. CASE token.tag \in BareTags
  <2>1. s.token = token /\ s.tracked = w
    BY <1>8, <1>12
  <2>2. CASE TagOf(v) = "null"
    <3>1. d.value = v /\ d.tracked = t
      BY <1>3, <1>11, <2>1, <2>2
    <3> QED
      BY <1>0, <1>2, <2>1, <2>2, <3>1
  <2>3. CASE TagOf(v) # "null"
    <3>1. TagOf(v) # "data" /\ ~Counted(v)
      BY <1>0, <1>9, <1>10, <1>12, <2>3
    <3>2. d.value = p /\ d.tracked = Append(t, p)
      BY <1>3, <1>11, <2>1, <2>3, <3>1
    <3> QED
      BY <1>0, <1>2, <1>6, <2>1, <3>1, <3>2
  <2> QED
    BY <2>2, <2>3
<1>13. CASE token.tag \notin BareTags /\ ~Contains(w, token)
  <2>1. s.token = token /\ s.tracked = Append(w, token)
    BY <1>8, <1>13
  <2>2. TagOf(v) # "null" /\ d.tracked = Append(t, p) /\ Legible(d.value) /\ (Counted(v) => d.value = p)
    BY <1>0, <1>2, <1>3, <1>4, <1>9, <1>10, <1>11, <1>13, <2>1
  <2>3. TrackAlike(w, t) => TrackAlike(Append(w, token), Append(t, p))
    BY <1>0, <1>1, <1>5 DEF TrackAlike, p
  <2> QED
    BY <1>0, <1>2, <1>7, <2>1, <2>2, <2>3
<1>14. CASE token.tag \notin BareTags /\ Contains(w, token) /\ index <= MaxIndex
  <2>1. s.token = Token("compression", index) /\ s.tracked = w
    BY <1>8, <1>14
  <2>2. index \in 0..(Len(w) - 1) /\ w[index + 1] = token
    BY <1>1, <1>14, IndexFound DEF index
  <2>3. index < Len(t) /\ index + 1 \in 1..Len(w) /\ index + 1 \in 1..Len(t) /\ index + 1 <= MaxIndex + 1
    BY <1>1, <1>5, <1>14, <2>2
  <2>4. d.value = t[index + 1] /\ d.tracked = t
    <3>1. s.token.tag = "compression" /\ s.token.content = index
      BY <1>0, <2>1
    <3>2. ReadScalar(s.token, t) = [value |-> IF s.token.content < Len(t) THEN t[s.token.content + 1] ELSE Thrown,
                                    tracked |-> t]
      BY <3>1, IndexRead
    <3> QED
      BY <1>11, <2>3, <3>1, <3>2
  <2>5. Legible(d.value)
    BY <2>3, <2>4 DEF ReaderTracks
  <2>6. TrackAlike(w, t) => d.value = p
    BY <1>0, <2>2, <2>3, <2>4 DEF TrackAlike, p
  <2>7. DOMAIN s.token = {"tag", "content"} /\ s.token.tag \notin {"array", "dictionary", "terminator"}
    BY <1>0, <2>1
  <2> QED
    BY <2>1, <2>4, <2>5, <2>6, <2>7
<1>15. CASE token.tag \notin BareTags /\ Contains(w, token) /\ ~(index <= MaxIndex)
  <2>1. s.token = token /\ s.tracked = w
    BY <1>8, <1>15
  <2>2. index \in 0..(Len(w) - 1)
    BY <1>1, <1>15, IndexFound DEF index
  <2>3. Len(w) > MaxIndex + 1
    BY <1>1, <1>5, <1>15, <2>2
  <2>4. TagOf(v) # "null" /\ d.tracked = Append(t, p) /\ Legible(d.value) /\ (Counted(v) => d.value = p)
    BY <1>0, <1>2, <1>3, <1>4, <1>9, <1>10, <1>11, <1>15, <2>1
  <2>5. TrackAlike(w, t) => TrackAlike(w, Append(t, p))
    BY <1>1, <1>5, <2>3 DEF TrackAlike
  <2> QED
    BY <1>0, <1>2, <1>6, <2>1, <2>4, <2>5
<1> QED
  BY <1>12, <1>13, <1>14, <1>15

-----------------------------------------------------------------------------
\* What a token does to a reader: it opens a container, ends one, or is a value
\* of the message or of the container that is open.
LEMMA TokenRead ==
  ASSUME NEW r, IsReader(r), r.container # Abandoned, NEW token
  PROVE  /\ token.tag \in {"array", "dictionary"} /\ token.content = 0 =>
              ReadToken(token, r) =
                [read |-> Append(r.read, [type |-> token.tag, elements |-> <<>>]),
                 tracked |-> r.tracked, container |-> r.container]
         /\ token.tag \in {"array", "dictionary"} /\ token.content # 0 =>
              ReadToken(token, r) =
                [read |-> r.read, tracked |-> r.tracked,
                 container |-> [type |-> token.tag, elements |-> <<>>,
                                left |-> IF token.tag = "array" THEN token.content ELSE 2 * token.content]]
         /\ token.tag = "terminator" =>
              ReadToken(token, r) =
                [read |-> Append(r.read, Closed(r.container)), tracked |-> r.tracked, container |-> NoContainer]
         /\ (/\ token.tag \notin {"array", "dictionary", "terminator"} /\ r.container = NoContainer
             /\ ReadScalar(token, r.tracked).value # Thrown) =>
              ReadToken(token, r) =
                [read |-> Append(r.read, ReadScalar(token, r.tracked).value),
                 tracked |-> ReadScalar(token, r.tracked).tracked, container |-> NoContainer]
<1> DEFINE tag == token.tag
           next == ReadToken(token, r)
           d0 == ReadScalar(token, r.tracked)
           Vacant == next = [read |-> Append(r.read, [type |-> tag, elements |-> <<>>]),
                            tracked |-> r.tracked, container |-> r.container]
           Open == next = [read |-> r.read, tracked |-> r.tracked,
                           container |-> [type |-> tag, elements |-> <<>>,
                                          left |-> IF tag = "array" THEN token.content ELSE 2 * token.content]]
           Ended == next = [read |-> Append(r.read, Closed(r.container)), tracked |-> r.tracked,
                            container |-> NoContainer]
           Single == next = [read |-> Append(r.read, d0.value), tracked |-> d0.tracked, container |-> NoContainer]
<1>1. r = [read |-> r.read, tracked |-> r.tracked, container |-> r.container]
  BY DEF IsReader
<1>2. NoContainer.type = "none"
  BY DEF NoContainer
<1> DEFINE opened == [type |-> token.tag, elements |-> <<>>,
                      left |-> IF token.tag = "array" THEN token.content ELSE 2 * token.content]
<1>3. tag \in {"array", "dictionary"} => (token.content = 0 => Vacant) /\ (token.content # 0 => Open)
  <2> SUFFICES ASSUME tag \in {"array", "dictionary"}
               PROVE  (token.content = 0 => Vacant) /\ (token.content # 0 => Open)
    OBVIOUS
  <2>0. token.tag \in {"array", "dictionary"}
    OBVIOUS
  <2>1. token.tag # "terminator"
    BY <2>0
  <2>2. ReadToken(token, r) = IF token.content = 0 THEN [r EXCEPT !.read = Append(@, Closed(opened))]
                              ELSE [r EXCEPT !.container = opened]
    BY <2>0, <2>1 DEF ReadToken
  <2>3. Closed(opened) = [type |-> token.tag, elements |-> <<>>]
    BY DEF Closed
  <2> HIDE DEF opened
  <2>4. token.content = 0 => ReadToken(token, r) =
          [read |-> Append(r.read, [type |-> token.tag, elements |-> <<>>]),
           tracked |-> r.tracked, container |-> r.container]
    BY <1>1, <2>2, <2>3
  <2>5. token.content # 0 => ReadToken(token, r) =
          [read |-> r.read, tracked |-> r.tracked, container |-> opened]
    BY <1>1, <2>2
  <2>6. (token.content = 0 => Vacant) /\ (token.content # 0 => Open)
    BY <2>4, <2>5 DEF opened
  <2> QED
    BY <2>6
<1>4. tag = "terminator" => Ended
  <2> SUFFICES ASSUME tag = "terminator" PROVE Ended
    OBVIOUS
  <2>1. token.tag = "terminator" /\ token.tag \notin {"array", "dictionary"}
    OBVIOUS
  <2>2. ReadToken(token, r) = [r EXCEPT !.read = Append(@, Closed(r.container)), !.container = NoContainer]
    BY <2>1 DEF ReadToken
  <2>3. ReadToken(token, r) =
          [read |-> Append(r.read, Closed(r.container)), tracked |-> r.tracked, container |-> NoContainer]
    BY <1>1, <2>2
  <2> QED
    BY <2>3
<1>5. (/\ tag \notin {"array", "dictionary", "terminator"} /\ r.container = NoContainer
       /\ d0.value # Thrown) => Single
  <2> SUFFICES ASSUME tag \notin {"array", "dictionary", "terminator"} /\ r.container = NoContainer,
                      d0.value # Thrown
               PROVE  Single
    OBVIOUS
  <2> DEFINE d == ReadScalar(token, r.tracked)
             c == [type |-> r.container.type, elements |-> Append(r.container.elements, d.value),
                   left |-> r.container.left - 1]
  <2>1. ReadToken(token, r) =
          CASE d.value = Thrown -> [r EXCEPT !.container = Abandoned]
            [] d.value # Thrown /\ r.container.type = "none" ->
                 [r EXCEPT !.tracked = d.tracked, !.read = Append(@, d.value)]
            [] d.value # Thrown /\ r.container.type # "none" /\ c.left = 0 ->
                 [r EXCEPT !.tracked = d.tracked, !.read = Append(@, Closed(c)), !.container = NoContainer]
            [] OTHER -> [r EXCEPT !.tracked = d.tracked, !.container = c]
    <3>1. token.tag \notin {"array", "dictionary", "terminator"}
      OBVIOUS
    <3> QED
      BY <3>1 DEF ReadToken
  <2> HIDE DEF c
  <2>2. d.value # Thrown
    OBVIOUS
  <2>3. ReadToken(token, r) = [r EXCEPT !.tracked = d.tracked, !.read = Append(@, d.value)]
    BY <1>2, <2>1, <2>2
  <2>4. ReadToken(token, r) = [read |-> Append(r.read, d.value), tracked |-> d.tracked, container |-> NoContainer]
    BY <1>1, <2>3
  <2> QED
    BY <2>4
<1> HIDE DEF Vacant, Open, Ended, Single
<1>6. /\ tag \in {"array", "dictionary"} /\ token.content = 0 => Vacant
      /\ tag \in {"array", "dictionary"} /\ token.content # 0 => Open
      /\ tag = "terminator" => Ended
      /\ (/\ tag \notin {"array", "dictionary", "terminator"} /\ r.container = NoContainer
          /\ d0.value # Thrown) => Single
  BY <1>3, <1>4, <1>5
<1> QED
  BY <1>6 DEF Vacant, Open, Ended, Single

LEMMA ElementRead ==
  ASSUME NEW r, IsReader(r), NEW token, NEW type, NEW elements, NEW left \in Int,
         token.tag \notin {"array", "dictionary", "terminator"},
         type \in {"array", "dictionary"}, r.container = [type |-> type, elements |-> elements, left |-> left],
         ReadScalar(token, r.tracked).value # Thrown
  PROVE  LET d == ReadScalar(token, r.tracked)
             more == Append(elements, d.value)
         IN  ReadToken(token, r) =
               IF left - 1 = 0
               THEN [read |-> Append(r.read, [type |-> type, elements |-> more]), tracked |-> d.tracked,
                     container |-> NoContainer]
               ELSE [read |-> r.read, tracked |-> d.tracked,
                     container |-> [type |-> type, elements |-> more, left |-> left - 1]]
<1> DEFINE d == ReadScalar(token, r.tracked)
           more == Append(elements, d.value)
           c == [type |-> r.container.type, elements |-> Append(r.container.elements, d.value),
                 left |-> r.container.left - 1]
<1>1. r = [read |-> r.read, tracked |-> r.tracked, container |-> r.container]
  BY DEF IsReader
<1>2. c = [type |-> type, elements |-> more, left |-> left - 1]
  <2> HIDE DEF d
  <2> QED
    OBVIOUS
<1>3. r.container.type # "none" /\ r.container # Abandoned /\ d.value # Thrown
  BY DEF Abandoned
<1>4. ReadToken(token, r) =
        CASE d.value = Thrown -> [r EXCEPT !.container = Abandoned]
          [] d.value # Thrown /\ r.container.type = "none" ->
               [r EXCEPT !.tracked = d.tracked, !.read = Append(@, d.value)]
          [] d.value # Thrown /\ r.container.type # "none" /\ c.left = 0 ->
               [r EXCEPT !.tracked = d.tracked, !.read = Append(@, Closed(c)), !.container = NoContainer]
          [] OTHER -> [r EXCEPT !.tracked = d.tracked, !.container = c]
  <2>1. r.container # Abandoned
    BY <1>3
  <2> QED
    BY <2>1 DEF ReadToken
<1> HIDE DEF c, d, more
<1>5. Closed(c) = [type |-> type, elements |-> more] /\ c.left = left - 1
  BY <1>2 DEF Closed
<1>6. CASE left - 1 = 0
  BY <1>1, <1>3, <1>4, <1>5, <1>6 DEF d, more
<1>7. CASE left - 1 # 0
  BY <1>1, <1>2, <1>3, <1>4, <1>5, <1>7 DEF d, more
<1> QED
  BY <1>6, <1>7

\* What was read of the first k scalars of vs; all of them if alike.
ElementsOf(es, vs, k, alike) ==
  /\ Sequence(es) /\ Len(es) = k
  /\ alike => \A j \in 1..k : es[j] = Plain(vs[j])

\* r0 read k elements of a container on, while it is open, and when it was closed by the last one.
StillOpen(r, r0, type, left, vs, k, alike) ==
  /\ r = [read |-> r0.read, tracked |-> r.tracked, container |-> r.container]
  /\ r.container = [type |-> type, elements |-> r.container.elements, left |-> left - k]
  /\ ElementsOf(r.container.elements, vs, k, alike)

ClosedBy(r, r0, type, vs, k, alike) ==
  \E es : /\ r = [read |-> Append(r0.read, [type |-> type, elements |-> es]), tracked |-> r.tracked,
                  container |-> NoContainer]
          /\ ElementsOf(es, vs, k, alike)

TokensTyped(tokens) == Sequence(tokens) /\ \A k \in 1..Len(tokens) : DOMAIN tokens[k] = {"tag", "content"}

\* Going on with tokens after s, the reader tracks what the writer does.
TracksOn(r, w, alike) == WriterTracks(w) /\ ReaderTracks(r.tracked, w) /\ (alike => TrackAlike(w, r.tracked))

LEMMA ElementsRead ==
  ASSUME NEW vs, Sequence(vs), \A j \in 1..Len(vs) : IsScalar(vs[j]) /\ Known(vs[j]),
         NEW w, NEW s, Sequence(s), NEW r0, r0 = Reader(s), IsReader(r0),
         NEW alike \in BOOLEAN, alike => \A j \in 1..Len(vs) : Counted(vs[j]),
         TracksOn(r0, w, alike),
         NEW type, type \in {"array", "dictionary"}, NEW left \in Int, left < 0 \/ left >= Len(vs), left # 0,
         r0.container = [type |-> type, elements |-> <<>>, left |-> left]
  PROVE  LET e == Scalars(vs, w)
             r == Reader(s \o e.tokens)
         IN  /\ TokensTyped(e.tokens) /\ TracksOn(r, e.tracked, alike)
             /\ left # Len(vs) => StillOpen(r, r0, type, left, vs, Len(vs), alike)
             /\ left = Len(vs) => ClosedBy(r, r0, type, vs, Len(vs), alike)
<1> DEFINE N == Len(vs)
<1>1. N \in Nat
  BY SequenceFacts
<1>2. PICK f : Scalars(vs, w) = f[N] /\ Written(f, vs, w)
  BY <1>1, ScalarsComputed
<1> DEFINE P(k) == LET r == Reader(s \o f[k].tokens)
                   IN  /\ TokensTyped(f[k].tokens) /\ TracksOn(r, f[k].tracked, alike)
                       /\ left # k => StillOpen(r, r0, type, left, vs, k, alike)
                       /\ left = k => ClosedBy(r, r0, type, vs, k, alike)
           Good == {k \in 0..N : P(k)}
<1>3. P(0)
  <2>1. f[0].tokens = <<>> /\ f[0].tracked = w
    BY <1>2 DEF Written
  <2>2. s \o <<>> = s
    BY ConcatEmptySeq DEF Sequence
  <2>3. TokensTyped(<<>>)
    BY EmptySequence DEF TokensTyped
  <2>4. StillOpen(r0, r0, type, left, vs, 0, alike)
    <3>1. r0 = [read |-> r0.read, tracked |-> r0.tracked, container |-> r0.container]
      BY DEF IsReader
    <3>2. ElementsOf(<<>>, vs, 0, alike)
      BY EmptySequence DEF ElementsOf
    <3>3. r0.container.elements = <<>> /\ left - 0 = left
      OBVIOUS
    <3> QED
      BY <3>1, <3>2, <3>3 DEF StillOpen
  <2> QED
    BY <2>1, <2>2, <2>3, <2>4
<1>4. ASSUME NEW k \in 1..N, P(k - 1) PROVE P(k)
  <2> DEFINE before == f[k - 1].tokens
             tracked == f[k - 1].tracked
             e == Scalar(vs[k], tracked)
             q == Reader(s \o before)
             d == ReadScalar(e.token, q.tracked)
             r == Reader(s \o f[k].tokens)
             es == q.container.elements
             more == Append(es, d.value)
  <2>1. f[k].tokens = Append(before, e.token) /\ f[k].tracked = e.tracked
    <3>1. f[k] = [tokens |-> Append(before, e.token), tracked |-> e.tracked]
      BY <1>2 DEF Written
    <3> HIDE DEF e, before
    <3> QED
      BY <3>1
  <2>2. left # k - 1
    BY <1>1
  <2>3. TokensTyped(before) /\ TracksOn(q, tracked, alike) /\ StillOpen(q, r0, type, left, vs, k - 1, alike)
    BY <1>4, <2>2
  <2>4. IsScalar(vs[k]) /\ Known(vs[k]) /\ (alike => Counted(vs[k]))
    OBVIOUS
  <2> HIDE DEF before, tracked, q, e
  <2>5. /\ WriterTracks(e.tracked) /\ ReaderTracks(d.tracked, e.tracked)
        /\ DOMAIN e.token = {"tag", "content"}
        /\ e.token.tag \notin {"array", "dictionary", "terminator"}
        /\ d.value # Thrown
        /\ alike => d.value = Plain(vs[k]) /\ TrackAlike(e.tracked, d.tracked)
    BY <2>3, <2>4, ScalarIsRead DEF TracksOn, e, Legible
  <2>6. Sequence(before) /\ Sequence(s \o before) /\ s \o Append(before, e.token) = Append(s \o before, e.token)
    BY <2>3, ConcatFacts DEF TokensTyped
  <2>7. r = ReadToken(e.token, q)
    BY <2>1, <2>6, ReaderGoesOn DEF q
  <2> HIDE DEF r
  <2>8. TokensTyped(f[k].tokens)
    BY <2>1, <2>3, <2>5, SequenceFacts DEF TokensTyped
  <2>9. /\ q = [read |-> r0.read, tracked |-> q.tracked, container |-> q.container]
        /\ q.container = [type |-> type, elements |-> es, left |-> left - (k - 1)]
        /\ ElementsOf(es, vs, k - 1, alike)
    BY <2>3 DEF StillOpen
  <2> HIDE DEF es, d
  <2>10. IsReader(q) /\ q.read = r0.read
    BY <2>9 DEF IsReader
  <2>11. left - (k - 1) - 1 = left - k
    BY <1>1
  <2>12. r = IF left - k = 0
             THEN [read |-> Append(r0.read, [type |-> type, elements |-> more]), tracked |-> d.tracked,
                   container |-> NoContainer]
             ELSE [read |-> r0.read, tracked |-> d.tracked,
                   container |-> [type |-> type, elements |-> more, left |-> left - k]]
    <3>1. ReadToken(e.token, q) =
            IF left - (k - 1) - 1 = 0
            THEN [read |-> Append(q.read, [type |-> type, elements |-> more]), tracked |-> d.tracked,
                  container |-> NoContainer]
            ELSE [read |-> q.read, tracked |-> d.tracked,
                  container |-> [type |-> type, elements |-> more, left |-> left - (k - 1) - 1]]
      <4> DEFINE l == left - (k - 1)
      <4>1. q.container = [type |-> type, elements |-> es, left |-> l]
        BY <2>9
      <4>a. left - (k - 1) - 1 = l - 1
        OBVIOUS
      <4>2. ReadToken(e.token, q) =
            IF l - 1 = 0
            THEN [read |-> Append(q.read, [type |-> type, elements |-> more]), tracked |-> d.tracked,
                  container |-> NoContainer]
            ELSE [read |-> q.read, tracked |-> d.tracked,
                  container |-> [type |-> type, elements |-> more, left |-> l - 1]]
        <5>0. l \in Int
          BY <1>1 DEF l
        <5>1. e.token.tag \notin {"array", "dictionary", "terminator"} /\ ReadScalar(e.token, q.tracked).value # Thrown
          BY <2>5 DEF d
        <5> HIDE DEF e, l
        <5> QED
          BY <2>10, <4>1, <5>0, <5>1, ElementRead DEF d, more
      <4> HIDE DEF l
      <4> QED
        BY <4>a, <4>2
    <3> QED
      BY <2>7, <2>10, <2>11, <3>1
  <2>13. ElementsOf(more, vs, k, alike)
    <3>1. /\ Sequence(es) /\ Len(es) = k - 1
          /\ alike => \A j \in 1..(k - 1) : es[j] = Plain(vs[j])
      BY <2>9 DEF ElementsOf
    <3>2. /\ Sequence(more) /\ Len(more) = k
          /\ \A j \in 1..(k - 1) : more[j] = es[j]
          /\ more[k] = d.value
      <4>1. Len(es) + 1 = k
        BY <1>1, <3>1
      <4> QED
        BY <3>1, <4>1, SequenceFacts
    <3>3. \A j \in 1..k : j = k \/ j \in 1..(k - 1)
      BY <1>1
    <3> QED
      BY <2>5, <3>1, <3>2, <3>3 DEF ElementsOf
  <2> HIDE DEF more
  <2>14. r.tracked = d.tracked /\ TracksOn(r, f[k].tracked, alike)
    BY <2>1, <2>5, <2>12 DEF TracksOn
  <2>15. left # k => StillOpen(r, r0, type, left, vs, k, alike)
    <3> SUFFICES ASSUME left # k PROVE StillOpen(r, r0, type, left, vs, k, alike)
      OBVIOUS
    <3>1. left - k # 0
      BY <1>1
    <3>2. r = [read |-> r0.read, tracked |-> d.tracked,
               container |-> [type |-> type, elements |-> more, left |-> left - k]]
      BY <2>12, <3>1
    <3> QED
      BY <2>13, <3>2 DEF StillOpen
  <2>16. left = k => ClosedBy(r, r0, type, vs, k, alike)
    <3> SUFFICES ASSUME left = k PROVE ClosedBy(r, r0, type, vs, k, alike)
      OBVIOUS
    <3>1. left - k = 0
      BY <1>1
    <3>2. r = [read |-> Append(r0.read, [type |-> type, elements |-> more]), tracked |-> d.tracked,
               container |-> NoContainer]
      BY <2>12, <3>1
    <3> QED
      BY <2>13, <2>14, <3>2 DEF ClosedBy
  <2> QED
    BY <2>8, <2>14, <2>15, <2>16 DEF r
<1>5. 0..N \subseteq Good
  <2>1. 0 \in Good /\ \A k \in 1..N : k - 1 \in Good => k \in Good
    BY <1>1, <1>3, <1>4
  <2> HIDE DEF Good
  <2> QED
    BY <1>1, <2>1, InductionUpTo
<1>6. P(N)
  <2>1. N \in 0..N
    BY <1>1
  <2> QED
    BY <1>5, <2>1
<1> QED
  BY <1>2, <1>6

-----------------------------------------------------------------------------
IsToken(t) == DOMAIN t = {"tag", "content"}
Headed(h, i) == <<h>> \o i
Enclosed(h, i, t) == <<h>> \o i \o <<t>>

LEMMA PutTogether ==
  ASSUME NEW s, Sequence(s), NEW i, TokensTyped(i), NEW h, NEW t, IsToken(h), IsToken(t)
  PROVE  /\ s \o Headed(h, i) = Append(s, h) \o i
         /\ s \o Enclosed(h, i, t) = Append(Append(s, h) \o i, t)
         /\ Sequence(Append(s, h)) /\ Sequence(Append(s, h) \o i)
         /\ TokensTyped(Headed(h, i)) /\ TokensTyped(Enclosed(h, i, t))
<1>1. PICK S, I : s \in Seq(S) /\ i \in Seq(I)
  BY DEF TokensTyped, Sequence
<1> DEFINE U == S \cup I \cup {h, t}
<1>2. s \in Seq(U) /\ i \in Seq(U) /\ h \in U /\ t \in U
  BY <1>1, SeqMonotonic
<1> HIDE DEF U
<1> DEFINE hi == <<h>> \o i
<1>3. <<h>> \in Seq(U) /\ <<t>> \in Seq(U) /\ hi \in Seq(U) /\ s \o <<h>> \in Seq(U) /\ Append(s, h) \in Seq(U)
  BY <1>2
<1>4. s \o (<<h>> \o i) = (s \o <<h>>) \o i
  BY <1>2, <1>3, ConcatAssociative
<1>5. s \o <<h>> = Append(s, h)
  BY <1>2
<1>6. hi \o <<t>> = Append(hi, t)
  <2> HIDE DEF hi
  <2> QED
    BY <1>2, <1>3
<1>7. s \o hi \in Seq(U) /\ s \o (hi \o <<t>>) = (s \o hi) \o <<t>> /\ (s \o hi) \o <<t>> = Append(s \o hi, t)
  <2> HIDE DEF hi
  <2>1. s \o hi \in Seq(U)
    BY <1>2, <1>3
  <2>2. s \o (hi \o <<t>>) = (s \o hi) \o <<t>>
    BY <1>2, <1>3, ConcatAssociative
  <2> DEFINE sh == s \o hi
  <2> HIDE DEF sh
  <2>3. sh \in Seq(U) => sh \o <<t>> = Append(sh, t)
    BY <1>2
  <2> QED
    BY <2>1, <2>2, <2>3 DEF sh
<1>8. Sequence(Append(s, h)) /\ Sequence(Append(s, h) \o i)
  BY <1>2, <1>3, ConcatProperties DEF Sequence
<1>9. TokensTyped(hi)
  <2>1. Sequence(hi)
    BY <1>3 DEF Sequence
  <2>2. Len(<<h>>) = 1 /\ <<h>>[1] = h /\ Len(i) \in Nat
    BY <1>2
  <2>3. Len(hi) = 1 + Len(i) /\ \A k \in 1..(1 + Len(i)) : hi[k] = IF k <= 1 THEN <<h>>[k] ELSE i[k - 1]
    BY <1>2, <1>3, <2>2, ConcatProperties
  <2>4. ASSUME NEW k \in 1..Len(hi) PROVE DOMAIN hi[k] = {"tag", "content"}
    <3>1. k \in 1..(1 + Len(i)) /\ (k <= 1 => k = 1) /\ (~(k <= 1) => k - 1 \in 1..Len(i))
      BY <2>2, <2>3
    <3>2. hi[k] = IF k <= 1 THEN <<h>>[k] ELSE i[k - 1]
      BY <2>3, <3>1
    <3> HIDE DEF hi
    <3> QED
      BY <2>2, <3>1, <3>2 DEF TokensTyped, IsToken
  <2> HIDE DEF hi
  <2> QED
    BY <2>1, <2>4 DEF TokensTyped
<1>10. TokensTyped(Append(hi, t))
  <2> HIDE DEF hi
  <2> QED
    BY <1>9, SequenceFacts DEF TokensTyped, IsToken
<1>11. hi = Headed(h, i) /\ hi \o <<t>> = Enclosed(h, i, t)
  BY DEF Headed, Enclosed
<1>12. s \o hi = Append(s, h) \o i
  BY <1>4, <1>5
<1> HIDE DEF hi
<1> QED
  BY <1>6, <1>7, <1>8, <1>9, <1>10, <1>11, <1>12

\* Known or not, what is written of a value are tokens.
LEMMA ScalarsTyped ==
  ASSUME NEW vs, Sequence(vs), \A j \in 1..Len(vs) : IsScalar(vs[j]), NEW w, WriterTracks(w)
  PROVE  TokensTyped(Scalars(vs, w).tokens) /\ WriterTracks(Scalars(vs, w).tracked)
<1> DEFINE N == Len(vs)
<1>1. N \in Nat
  BY SequenceFacts
<1>2. PICK f : Scalars(vs, w) = f[N] /\ Written(f, vs, w)
  BY <1>1, ScalarsComputed
<1> DEFINE P(k) == TokensTyped(f[k].tokens) /\ WriterTracks(f[k].tracked)
           Good == {k \in 0..N : P(k)}
<1>3. P(0)
  BY <1>2, EmptySequence DEF Written, TokensTyped
<1>4. ASSUME NEW k \in 1..N, P(k - 1) PROVE P(k)
  <2> DEFINE e == Scalar(vs[k], f[k - 1].tracked)
             before == f[k - 1].tokens
  <2>1. f[k].tokens = Append(before, e.token) /\ f[k].tracked = e.tracked
    <3>1. f[k] = [tokens |-> Append(before, e.token), tracked |-> e.tracked]
      BY <1>2 DEF Written
    <3> HIDE DEF e, before
    <3> QED
      BY <3>1
  <2>2. WriterTracks(e.tracked) /\ DOMAIN e.token = {"tag", "content"}
    BY <1>4, ScalarTyped
  <2>3. TokensTyped(before)
    BY <1>4
  <2> HIDE DEF e, before
  <2> QED
    BY <2>1, <2>2, <2>3, SequenceFacts DEF TokensTyped
<1>5. 0..N \subseteq Good
  <2>1. 0 \in Good /\ \A k \in 1..N : k - 1 \in Good => k \in Good
    BY <1>1, <1>3, <1>4
  <2> HIDE DEF Good
  <2> QED
    BY <1>1, <2>1, InductionUpTo
<1>6. P(N)
  <2>1. N \in 0..N
    BY <1>1
  <2> QED
    BY <1>5, <2>1
<1> QED
  BY <1>2, <1>6

LEMMA EncodeTyped ==
  ASSUME NEW v, WellFormed(v), NEW w, WriterTracks(w)
  PROVE  TokensTyped(Encode(v, w).tokens) /\ WriterTracks(Encode(v, w).tracked)
<1>1. CASE ~IsContainer(v)
  <2>1. Sequence(<<v>>) /\ \A j \in 1..Len(<<v>>) : IsScalar(<<v>>[j])
    <3>1. IsScalar(v)
      BY <1>1 DEF WellFormed
    <3>2. <<v>> \in Seq({v}) /\ Len(<<v>>) = 1 /\ <<v>>[1] = v
      OBVIOUS
    <3>3. Sequence(<<v>>)
      BY <3>2 DEF Sequence
    <3> QED
      BY <3>1, <3>2, <3>3
  <2> DEFINE one == <<v>>
  <2>2. Encode(v, w) = Scalars(one, w)
    BY <1>1 DEF Encode
  <2> HIDE DEF one
  <2> QED
    BY <2>1, <2>2, ScalarsTyped DEF one
<1>2. CASE IsContainer(v)
  <2> DEFINE vs == v.elements
             inner == Scalars(vs, w)
             counted == Token(v.type, Count(v))
             opening == Token(v.type, -1)
             terminator == Token("terminator", 0)
  <2>1. Sequence(vs) /\ \A j \in DOMAIN vs : IsScalar(vs[j])
    BY <1>2 DEF WellFormed, Sequence
  <2>2. DOMAIN vs = 1..Len(vs)
    BY <2>1, SequenceFacts
  <2>3. IsToken(counted) /\ IsToken(opening) /\ IsToken(terminator)
    BY DEF IsToken, Token
  <2>4. /\ Encode(v, w).tokens = Headed(counted, inner.tokens) \/ Encode(v, w).tokens = Enclosed(opening, inner.tokens, terminator)
        /\ Encode(v, w).tracked = inner.tracked
    BY <1>2 DEF Encode, Headed, Enclosed
  <2> HIDE DEF vs, inner, counted, opening, terminator
  <2>5. TokensTyped(inner.tokens) /\ WriterTracks(inner.tracked)
    BY <2>1, <2>2, ScalarsTyped DEF inner
  <2>6. TokensTyped(Headed(counted, inner.tokens)) /\ TokensTyped(Enclosed(opening, inner.tokens, terminator))
    BY <2>3, <2>5, EmptySequence, PutTogether
  <2> QED
    BY <2>4, <2>5, <2>6
<1> QED
  BY <1>1, <1>2

LEMMA PutInFront ==
  ASSUME NEW s, Sequence(s), NEW i, TokensTyped(i), NEW h, IsToken(h)
  PROVE  s \o Headed(h, i) = Append(s, h) \o i /\ Sequence(Append(s, h)) /\ TokensTyped(Headed(h, i))
<1>1. /\ s \o Headed(h, i) = Append(s, h) \o i
      /\ s \o Enclosed(h, i, h) = Append(Append(s, h) \o i, h)
      /\ Sequence(Append(s, h)) /\ Sequence(Append(s, h) \o i)
      /\ TokensTyped(Headed(h, i)) /\ TokensTyped(Enclosed(h, i, h))
  BY PutTogether
<1> QED
  BY <1>1

AlikeOf(v) == \A j \in DOMAIN Leaves(v) : Counted(Leaves(v)[j])
KnownOf(v) == \A j \in DOMAIN Leaves(v) : Known(Leaves(v)[j])

LEMMA NotAbandoned ==
  /\ NoContainer # Abandoned
  /\ \A e, l, type : type \in {"array", "dictionary"} => [type |-> type, elements |-> e, left |-> l] # Abandoned
<1>1. NoContainer.type = "none" /\ Abandoned.type = "thrown"
  BY DEF NoContainer, Abandoned
<1>2. ASSUME NEW e, NEW l, NEW type, type \in {"array", "dictionary"}
      PROVE  [type |-> type, elements |-> e, left |-> l] # Abandoned
  <2>1. [type |-> type, elements |-> e, left |-> l].type = type
    OBVIOUS
  <2> QED
    BY <1>1, <1>2, <2>1
<1> QED
  BY <1>1, <1>2

\* Reader r went on from r0 by value v.
ReadOn(r, r0, w, v, alike) ==
  /\ IsReader(r) /\ r.container = NoContainer
  /\ TracksOn(r, w, alike)
  /\ \E x : r.read = Append(r0.read, x) /\ ShapeOf(x) = ShapeOf(v) /\ (alike => x = PlainAll(v))

LEMMA AppendIsReader ==
  ASSUME NEW r0, IsReader(r0), NEW x, NEW t, NEW c
  PROVE  IsReader([read |-> Append(r0.read, x), tracked |-> t, container |-> c])
BY SequenceFacts DEF IsReader

LEMMA ScalarReadOn ==
  ASSUME NEW v, WellFormed(v), KnownOf(v), ~IsContainer(v), NEW w, NEW s, Sequence(s), NEW r0, r0 = Reader(s), IsReader(r0),
         r0.container = NoContainer, NEW alike \in BOOLEAN, alike => AlikeOf(v), TracksOn(r0, w, alike)
  PROVE  /\ TokensTyped(Encode(v, w).tokens)
         /\ ReadOn(Reader(s \o Encode(v, w).tokens), r0, Encode(v, w).tracked, v, alike)
<1> DEFINE vs == <<v>>
           e == Scalar(v, w)
           d == ReadScalar(e.token, r0.tracked)
<1>1. IsScalar(v) /\ Encode(v, w) = Scalars(vs, w) /\ Leaves(v) = vs
  BY DEF WellFormed, Encode, Leaves
<1>2. Known(v) /\ (alike => Counted(v))
  BY <1>1 DEF AlikeOf, KnownOf
<1>3. PICK f : Scalars(vs, w) = f[1] /\ Written(f, vs, w)
  <2>1. Len(vs) = 1 /\ Len(vs) \in Nat
    OBVIOUS
  <2> HIDE DEF vs
  <2> QED
    BY <2>1, ScalarsComputed
<1>4. f[1] = [tokens |-> Append(<<>>, e.token), tracked |-> e.tracked]
  <2>1. f[0].tokens = <<>> /\ f[0].tracked = w
    BY <1>3 DEF Written
  <2>2. 1 \in 1..Len(vs) /\ vs[1] = v /\ 1 - 1 = 0
    OBVIOUS
  <2> HIDE DEF vs
  <2>3. f[1] = [tokens |-> Append(f[0].tokens, Scalar(vs[1], f[0].tracked).token),
                tracked |-> Scalar(vs[1], f[0].tracked).tracked]
    BY <1>3, <2>2 DEF Written
  <2> QED
    BY <2>1, <2>2, <2>3
<1>5. /\ WriterTracks(e.tracked) /\ ReaderTracks(d.tracked, e.tracked)
      /\ Legible(d.value)
      /\ DOMAIN e.token = {"tag", "content"}
      /\ e.token.tag \notin {"array", "dictionary", "terminator"}
      /\ alike => d.value = Plain(v) /\ TrackAlike(e.tracked, d.tracked)
  BY <1>1, <1>2, ScalarIsRead DEF TracksOn
<1> HIDE DEF e, vs
<1>6. Encode(v, w).tokens = Append(<<>>, e.token) /\ Encode(v, w).tracked = e.tracked
  BY <1>1, <1>3, <1>4
<1>7. TokensTyped(Append(<<>>, e.token))
  <2> DEFINE a == Append(<<>>, e.token)
             token == e.token
  <2>1. Sequence(a) /\ Len(a) = 1 /\ a[1] = token
    <3> DEFINE none == <<>>
    <3>1. Len(none) = 0 /\ Sequence(none)
      BY EmptySequence
    <3> HIDE DEF token, none
    <3>2. Len(Append(none, token)) = 0 + 1 /\ Sequence(Append(none, token)) /\ Append(none, token)[0 + 1] = token
      BY <3>1, SequenceFacts
    <3>3. 0 + 1 = 1
      OBVIOUS
    <3> QED
      BY <3>2, <3>3 DEF none, token
  <2>3. DOMAIN token = {"tag", "content"}
    BY <1>5
  <2> HIDE DEF a, token
  <2>2. \A k \in 1..Len(a) : k = 1
    BY <2>1
  <2> QED
    BY <2>1, <2>2, <2>3 DEF TokensTyped, a, token
<1>8. s \o Append(<<>>, e.token) = Append(s, e.token)
  <2>1. s \o <<>> = s
    BY ConcatEmptySeq DEF Sequence
  <2> QED
    BY <2>1, EmptySequence, ConcatFacts
<1>9. Reader(s \o Encode(v, w).tokens) = ReadToken(e.token, r0)
  BY <1>6, <1>8, ReaderGoesOn
<1>10. ReadToken(e.token, r0) = [read |-> Append(r0.read, d.value), tracked |-> d.tracked, container |-> NoContainer]
  BY <1>5, NotAbandoned, TokenRead DEF Legible
<1>11. ShapeOf(d.value) = ShapeOf(v)
  BY <1>1, <1>5, ScalarFacts DEF ShapeOf, Legible
<1>12. PlainAll(v) = Plain(v)
  BY DEF PlainAll
<1> HIDE DEF d
<1>13. ReadOn(ReadToken(e.token, r0), r0, e.tracked, v, alike)
  <2> DEFINE r == ReadToken(e.token, r0)
  <2>1. IsReader(r)
    BY <1>10, AppendIsReader
  <2>2. r.container = NoContainer /\ r.tracked = d.tracked /\ r.read = Append(r0.read, d.value)
    BY <1>10
  <2> HIDE DEF r
  <2>3. TracksOn(r, e.tracked, alike)
    BY <1>5, <2>2 DEF TracksOn
  <2> QED
    BY <1>5, <1>11, <1>12, <2>1, <2>2, <2>3 DEF ReadOn, r
<1> QED
  BY <1>6, <1>7, <1>9, <1>13

\* Elements that were all read in order make the container they were taken from.
LEMMA ContainerRead ==
  ASSUME NEW v, WellFormed(v), IsContainer(v), NEW alike, NEW es, ElementsOf(es, v.elements, Len(v.elements), alike)
  PROVE  LET x == [type |-> v.type, elements |-> es]
         IN  ShapeOf(x) = ShapeOf(v) /\ (alike => x = PlainAll(v))
<1> DEFINE x == [type |-> v.type, elements |-> es]
<1>1. /\ v = [type |-> v.type, elements |-> v.elements] /\ Sequence(v.elements)
      /\ Sequence(es) /\ Len(es) = Len(v.elements)
      /\ alike => \A j \in 1..Len(v.elements) : es[j] = Plain(v.elements[j])
  BY DEF WellFormed, ElementsOf, Sequence
<1>2. IsContainer(x) /\ x.type = v.type /\ Len(x.elements) = Len(v.elements)
  BY <1>1 DEF IsContainer
<1>3. ShapeOf(x) = ShapeOf(v)
  BY <1>2 DEF ShapeOf
<1>4. ASSUME alike PROVE x = PlainAll(v)
  <2> DEFINE ps == [k \in DOMAIN v.elements |-> Plain(v.elements[k])]
  <2>1. PlainAll(v) = [type |-> v.type, elements |-> ps]
    BY <1>1 DEF PlainAll
  <2>2. es = ps
    <3>1. DOMAIN es = 1..Len(es) /\ DOMAIN v.elements = 1..Len(es)
      BY <1>1, SequenceFacts
    <3>2. es = [k \in 1..Len(es) |-> es[k]]
      <4>1. PICK S : es \in Seq(S)
        BY <1>1 DEF Sequence
      <4> QED
        BY <4>1, LenProperties
    <3> QED
      BY <1>1, <1>4, <3>1, <3>2
  <2> QED
    BY <2>1, <2>2
<1> QED
  BY <1>3, <1>4

LEMMA ContainerReadOn ==
  ASSUME NEW v, WellFormed(v), KnownOf(v), IsContainer(v), NEW w, NEW s, Sequence(s), NEW r0, r0 = Reader(s), IsReader(r0),
         r0.container = NoContainer, NEW alike \in BOOLEAN, alike => AlikeOf(v), TracksOn(r0, w, alike)
  PROVE  /\ TokensTyped(Encode(v, w).tokens)
         /\ ReadOn(Reader(s \o Encode(v, w).tokens), r0, Encode(v, w).tracked, v, alike)
<1> DEFINE vs == v.elements
           inner == Scalars(vs, w)
           n == Len(vs)
           counted == Token(v.type, Count(v))
           opening == Token(v.type, -1)
           terminator == Token("terminator", 0)
           e == Encode(v, w)
           r == Reader(s \o e.tokens)
<1>1. /\ v = [type |-> v.type, elements |-> vs] /\ Sequence(vs) /\ n \in Nat /\ DOMAIN vs = 1..n
      /\ \A j \in 1..n : IsScalar(vs[j]) /\ Known(vs[j])
      /\ alike => \A j \in 1..n : Counted(vs[j])
  <2>1. Sequence(vs) /\ v = [type |-> v.type, elements |-> vs] /\ \A j \in DOMAIN vs : IsScalar(vs[j])
    BY DEF WellFormed, Sequence
  <2>2. n \in Nat /\ DOMAIN vs = 1..n
    BY <2>1, SequenceFacts
  <2>3. Leaves(v) = vs
    BY DEF Leaves
  <2> QED
    BY <2>1, <2>2, <2>3 DEF AlikeOf, KnownOf
<1>2. /\ v.type \in {"array", "dictionary"}
      /\ v.type = "array" => Count(v) = n
      /\ v.type = "dictionary" => n % 2 = 0 /\ Count(v) = n \div 2
      /\ v.type # "none"
  BY DEF IsContainer, WellFormed, Count
<1>3. Count(v) \in Nat /\ (v.type = "array" => Count(v) = n) /\ (v.type = "dictionary" => 2 * Count(v) = n)
  <2>1. n \in Nat
    BY <1>1
  <2> HIDE DEF n
  <2> QED
    BY <1>2, <2>1
<1>4. /\ InTag(v) => e.tokens = Headed(counted, inner.tokens)
      /\ ~InTag(v) => e.tokens = Enclosed(opening, inner.tokens, terminator)
      /\ e.tracked = inner.tracked
  BY DEF Encode, Headed, Enclosed
<1>5. /\ counted.tag = v.type /\ counted.content = Count(v) /\ DOMAIN counted = {"tag", "content"}
      /\ opening.tag = v.type /\ opening.content = -1 /\ DOMAIN opening = {"tag", "content"}
      /\ terminator.tag = "terminator" /\ DOMAIN terminator = {"tag", "content"}
  BY DEF Token
<1>6. Sequence(s) /\ IsToken(counted) /\ IsToken(opening) /\ IsToken(terminator)
  BY <1>5 DEF IsToken
<1> HIDE DEF vs, inner, n, counted, opening, terminator, e
<1>7. CASE InTag(v) /\ Count(v) = 0
  <2>1. n = 0
    BY <1>2, <1>3, <1>7
  <2>2. inner.tokens = <<>> /\ inner.tracked = w
    <3>1. PICK f : inner = f[n] /\ Written(f, vs, w)
      BY <1>1, ScalarsComputed DEF inner, n
    <3> QED
      BY <2>1, <3>1 DEF Written
  <2> DEFINE i == inner.tokens
  <2>3. TokensTyped(i) /\ i = <<>>
    BY <2>2, EmptySequence DEF TokensTyped
  <2> HIDE DEF i
  <2>4. e.tokens = Headed(counted, i)
    BY <1>4, <1>7 DEF i
  <2>5. TokensTyped(e.tokens) /\ s \o e.tokens = Append(s, counted) \o i /\ Sequence(Append(s, counted))
    <3>1. /\ s \o Headed(counted, i) = Append(s, counted) \o i /\ Sequence(Append(s, counted))
          /\ TokensTyped(Headed(counted, i))
      BY <1>6, <2>3, PutInFront
    <3> QED
      BY <2>4, <3>1
  <2>6. Append(s, counted) \o i = Append(s, counted)
    <3> DEFINE a == Append(s, counted)
    <3>1. Sequence(a)
      BY <2>5
    <3> HIDE DEF a
    <3>2. a \o <<>> = a
      BY <3>1, ConcatEmptySeq DEF Sequence
    <3> QED
      BY <2>3, <3>2 DEF a
  <2>7. r = ReadToken(counted, r0)
    BY <2>5, <2>6, ReaderGoesOn
  <2> DEFINE x == [type |-> v.type, elements |-> <<>>]
  <2>8. r = [read |-> Append(r0.read, x), tracked |-> r0.tracked, container |-> NoContainer]
    BY <1>2, <1>5, <1>7, <2>7, NotAbandoned, TokenRead
  <2>9. ElementsOf(<<>>, vs, n, alike)
    BY <2>1, EmptySequence DEF ElementsOf
  <2>10. ShapeOf(x) = ShapeOf(v) /\ (alike => x = PlainAll(v))
    BY <2>9, ContainerRead DEF vs, n
  <2>11. TracksOn(r, e.tracked, alike)
    BY <1>4, <2>2, <2>8 DEF TracksOn
  <2>12. IsReader(r)
    BY <2>8, AppendIsReader
  <2> QED
    BY <2>5, <2>8, <2>10, <2>11, <2>12 DEF ReadOn, e
<1>8. CASE InTag(v) /\ Count(v) # 0
  <2> DEFINE i == inner.tokens
             a == Append(s, counted)
             q == Reader(a)
  <2>1. Sequence(a) /\ q = ReadToken(counted, r0)
    BY SequenceFacts, ReaderGoesOn
  <2>2. q = [read |-> r0.read, tracked |-> r0.tracked,
             container |-> [type |-> v.type, elements |-> <<>>, left |-> n]]
    <3>1. n = IF v.type = "array" THEN counted.content ELSE 2 * counted.content
      BY <1>2, <1>3, <1>5
    <3>2. ReadToken(counted, r0) =
                [read |-> r0.read, tracked |-> r0.tracked,
                 container |-> [type |-> counted.tag, elements |-> <<>>,
                                left |-> IF counted.tag = "array" THEN counted.content ELSE 2 * counted.content]]
      BY <1>2, <1>5, <1>8, NotAbandoned, TokenRead
    <3> QED
      BY <1>5, <2>1, <3>1, <3>2
  <2>3. IsReader(q) /\ TracksOn(q, w, alike) /\ n # 0 /\ q.read = r0.read
    BY <1>2, <1>3, <1>8, <2>2 DEF IsReader, TracksOn
  <2>4. q.container = [type |-> v.type, elements |-> <<>>, left |-> n]
    BY <2>2
  <2> HIDE DEF a, q
  <2>5. q = Reader(a)
    BY DEF q
  <2>6. /\ TokensTyped(i) /\ TracksOn(Reader(a \o i), inner.tracked, alike)
        /\ ClosedBy(Reader(a \o i), q, v.type, vs, n, alike)
    BY <1>1, <1>2, <2>1, <2>3, <2>4, <2>5, ElementsRead DEF inner, n
  <2> HIDE DEF i
  <2>7. e.tokens = Headed(counted, i)
    BY <1>4, <1>8 DEF i
  <2>8. TokensTyped(e.tokens) /\ s \o e.tokens = a \o i
    <3>1. s \o Headed(counted, i) = a \o i /\ TokensTyped(Headed(counted, i))
      BY <1>6, <2>6, PutInFront DEF a
    <3> QED
      BY <2>7, <3>1
  <2>9. PICK es : /\ r = [read |-> Append(q.read, [type |-> v.type, elements |-> es]), tracked |-> r.tracked,
                          container |-> NoContainer]
                  /\ ElementsOf(es, vs, n, alike)
    BY <2>6, <2>8 DEF ClosedBy
  <2> DEFINE x == [type |-> v.type, elements |-> es]
  <2>10. ShapeOf(x) = ShapeOf(v) /\ (alike => x = PlainAll(v))
    BY <2>9, ContainerRead DEF vs, n
  <2>11. r.read = Append(r0.read, x) /\ r.container = NoContainer
    BY <2>3, <2>9
  <2>12. IsReader(r)
    BY <2>3, <2>9, AppendIsReader
  <2> QED
    BY <1>4, <2>6, <2>8, <2>10, <2>11, <2>12 DEF ReadOn, e
<1>9. CASE ~InTag(v)
  <2> DEFINE i == inner.tokens
             a == Append(s, opening)
             q == Reader(a)
             left == IF v.type = "array" THEN -1 ELSE 2 * (-1)
  <2>1. Sequence(a) /\ q = ReadToken(opening, r0)
    BY SequenceFacts, ReaderGoesOn
  <2>2. q = [read |-> r0.read, tracked |-> r0.tracked,
             container |-> [type |-> v.type, elements |-> <<>>, left |-> left]]
    <3>1. opening.content # 0
      BY <1>5
    <3>2. ReadToken(opening, r0) =
                [read |-> r0.read, tracked |-> r0.tracked,
                 container |-> [type |-> opening.tag, elements |-> <<>>,
                                left |-> IF opening.tag = "array" THEN opening.content ELSE 2 * opening.content]]
      BY <1>2, <1>5, <3>1, NotAbandoned, TokenRead
    <3> QED
      BY <1>5, <2>1, <3>2
  <2>3. IsReader(q) /\ TracksOn(q, w, alike) /\ q.read = r0.read
    BY <2>2 DEF IsReader, TracksOn
  <2>4. q.container = [type |-> v.type, elements |-> <<>>, left |-> left]
    BY <2>2
  <2>5. left \in Int /\ left < 0 /\ left # 0 /\ left # n
    BY <1>1
  <2> HIDE DEF a, q, left
  <2>6. q = Reader(a)
    BY DEF q
  <2>7. /\ TokensTyped(i) /\ TracksOn(Reader(a \o i), inner.tracked, alike)
        /\ StillOpen(Reader(a \o i), q, v.type, left, vs, n, alike)
    BY <1>1, <1>2, <2>1, <2>3, <2>4, <2>5, <2>6, ElementsRead DEF inner, n
  <2> HIDE DEF i
  <2>8. e.tokens = Enclosed(opening, i, terminator)
    BY <1>4, <1>9 DEF i
  <2>9. TokensTyped(e.tokens) /\ s \o e.tokens = Append(a \o i, terminator) /\ Sequence(a \o i)
    <3>1. /\ s \o Enclosed(opening, i, terminator) = Append(a \o i, terminator) /\ Sequence(a \o i)
          /\ TokensTyped(Enclosed(opening, i, terminator))
      BY <1>6, <2>7, PutTogether DEF a
    <3> QED
      BY <2>8, <3>1
  <2> DEFINE p == Reader(a \o i)
             es == p.container.elements
             x == [type |-> v.type, elements |-> es]
  <2>10. r = ReadToken(terminator, p)
    BY <2>9, ReaderGoesOn
  <2>11. TracksOn(p, inner.tracked, alike) /\ StillOpen(p, q, v.type, left, vs, n, alike)
    BY <2>7
  <2> HIDE DEF p, es
  <2>12. /\ p = [read |-> q.read, tracked |-> p.tracked, container |-> p.container]
         /\ p.container = [type |-> v.type, elements |-> es, left |-> left - n]
         /\ ElementsOf(es, vs, n, alike)
    BY <2>11 DEF StillOpen, es
  <2>13. IsReader(p) /\ p.read = r0.read
    BY <2>3, <2>12 DEF IsReader
  <2>14. Closed(p.container) = x
    BY <2>12 DEF Closed
  <2>15. r = [read |-> Append(r0.read, x), tracked |-> p.tracked, container |-> NoContainer]
    <3>1. ReadToken(terminator, p) =
            [read |-> Append(p.read, Closed(p.container)), tracked |-> p.tracked, container |-> NoContainer]
      <4>1. p.container # Abandoned
        BY <1>2, <2>12, NotAbandoned
      <4> QED
        BY <1>5, <2>13, <4>1, TokenRead
    <3> QED
      BY <2>10, <2>13, <2>14, <3>1
  <2>16. ShapeOf(x) = ShapeOf(v) /\ (alike => x = PlainAll(v))
    BY <2>12, ContainerRead DEF vs, n
  <2>17. IsReader(r)
    BY <2>15, AppendIsReader
  <2>18. TracksOn(r, e.tracked, alike)
    BY <1>4, <2>11, <2>15 DEF TracksOn
  <2>19. r.container = NoContainer /\ r.read = Append(r0.read, x)
    BY <2>15
  <2> QED
    BY <2>9, <2>16, <2>17, <2>18, <2>19 DEF ReadOn, e
<1> QED
  BY <1>7, <1>8, <1>9

-----------------------------------------------------------------------------
LEMMA NumberAlikeRead == NumberAlike <=> ReadAlike
  BY DEF NumberAlike, ReadAlike, Counted

LEMMA CodecInitIInv == CodecInit => CodecIInv
<1> SUFFICES ASSUME CodecInit PROVE CodecIInv
  OBVIOUS
<1>1. message = <<>> /\ buffer = <<>> /\ writtenData = <<>> /\ writeFailed = FALSE
  BY DEF CodecInit
<1>2. Sequence(<<>>) /\ Len(<<>>) = 0
  BY EmptySequence
<1>3. Reader(buffer) = Start
  BY <1>1, ReaderGoesOn
<1>4. HasRead(Start, message, writtenData)
  <2>1. IsReader(Start) /\ Start.container = NoContainer /\ Start.tracked = <<>> /\ Start.read = <<>>
    BY <1>2 DEF Start, IsReader
  <2> QED
    BY <1>1, <1>2, <2>1 DEF HasRead, ReaderTracks
<1>5. HasReadAlike(Start, message, writtenData)
  BY <1>1, <1>2 DEF HasReadAlike, TrackAlike, Start
<1>6. message \in Seq(Values)
  BY <1>1
<1>7. WriterTracks(writtenData)
  BY <1>1, <1>2 DEF WriterTracks
<1>8. Sequence(buffer) /\ \A k \in 1..Len(buffer) : DOMAIN buffer[k] = {"tag", "content"}
  BY <1>1, <1>2
<1>9. writeFailed \in BOOLEAN
  BY <1>1
<1> QED
  BY <1>3, <1>4, <1>5, <1>6, <1>7, <1>8, <1>9 DEF CodecIInv

LEMMA ConcatTyped ==
  ASSUME NEW s, NEW t, TokensTyped(s), TokensTyped(t)
  PROVE  TokensTyped(s \o t)
<1> DEFINE b == s \o t
<1>1. Len(s) \in Nat /\ Len(t) \in Nat
  BY SequenceFacts DEF TokensTyped
<1>2. /\ Sequence(b) /\ Len(b) = Len(s) + Len(t)
      /\ \A i \in 1..Len(s) : b[i] = s[i]
      /\ \A i \in 1..Len(t) : b[Len(s) + i] = t[i]
  BY ConcatFacts DEF TokensTyped
<1> HIDE DEF b
<1>3. ASSUME NEW k \in 1..Len(b) PROVE DOMAIN b[k] = {"tag", "content"}
  <2>1. CASE k \in 1..Len(s)
    BY <1>2, <2>1 DEF TokensTyped
  <2>2. CASE k \notin 1..Len(s)
    <3>1. k - Len(s) \in 1..Len(t) /\ k = Len(s) + (k - Len(s))
      BY <1>1, <1>2, <2>2
    <3> QED
      BY <1>1, <1>2, <3>1 DEF TokensTyped
  <2> QED
    BY <2>1, <2>2
<1> QED
  BY <1>2, <1>3 DEF TokensTyped, b

\* A value that both sides count has no tag that is unknown.
LEMMA AlikeIsKnown ==
  ASSUME NEW v, WellFormed(v), AlikeOf(v)
  PROVE  KnownOf(v)
<1> SUFFICES ASSUME NEW j \in DOMAIN Leaves(v) PROVE Known(Leaves(v)[j])
  BY DEF KnownOf
<1>1. IsScalar(Leaves(v)[j])
  <2>1. CASE IsContainer(v)
    BY <2>1 DEF WellFormed, Leaves
  <2>2. CASE ~IsContainer(v)
    <3>1. Leaves(v) = <<v>> /\ IsScalar(v)
      BY <2>2 DEF WellFormed, Leaves
    <3> QED
      BY <3>1
  <2> QED
    BY <2>1, <2>2
<1> QED
  BY <1>1, KnownFacts DEF AlikeOf

LEMMA WriteIInv ==
  ASSUME CodecIInv, NEW v \in Values, WriteMessage(v)
  PROVE  CodecIInv'
<1>1. /\ ~writeFailed /\ message' = Append(message, v) /\ message \in Seq(Values)
      /\ Sequence(buffer) /\ WriterTracks(writtenData)
      /\ TokensTyped(buffer)
      /\ TagsKnown => HasRead(Reader(buffer), message, writtenData)
      /\ ReadAlike => HasReadAlike(Reader(buffer), message, writtenData)
  BY DEF CodecIInv, WriteMessage, TokensTyped
<1>2. /\ message' \in Seq(Values) /\ Len(message') = Len(message) + 1 /\ Len(message) \in Nat
      /\ \A k \in 1..Len(message) : message'[k] = message[k]
      /\ message'[Len(message) + 1] = v
      /\ DOMAIN message = 1..Len(message) /\ DOMAIN message' = 1..(Len(message) + 1)
  BY <1>1, AppendProperties, LenProperties
<1>3. CASE \E k \in DOMAIN Leaves(v) : Unwritable(Leaves(v)[k])
  <2>1. writeFailed' = TRUE /\ UNCHANGED <<buffer, writtenData>>
    BY <1>3 DEF WriteMessage
  <2> QED
    BY <1>1, <1>2, <2>1 DEF CodecIInv, TokensTyped
<1>5. TagsKnown' => TagsKnown /\ KnownOf(v)
  <2>1. \A k \in DOMAIN message : k \in DOMAIN message' /\ message'[k] = message[k]
    BY <1>2
  <2>2. Len(message) + 1 \in DOMAIN message'
    BY <1>2
  <2>3. TagsKnown' <=> \A k \in DOMAIN message' : KnownOf(message'[k])
    BY DEF TagsKnown, KnownOf, Known
  <2>4. TagsKnown <=> \A k \in DOMAIN message : KnownOf(message[k])
    BY DEF TagsKnown, KnownOf
  <2> QED
    BY <1>2, <2>1, <2>2, <2>3, <2>4
<1>6. WellFormed(v)
  BY CodecAssumption
<1>7. CASE ~(\E k \in DOMAIN Leaves(v) : Unwritable(Leaves(v)[k])) /\ ~TagsKnown'
  <2> DEFINE e == Encode(v, writtenData)
  <2>1. buffer' = buffer \o e.tokens /\ writtenData' = e.tracked /\ writeFailed' = writeFailed
    BY <1>7 DEF WriteMessage
  <2>2. TokensTyped(e.tokens) /\ WriterTracks(e.tracked)
    BY <1>1, <1>6, EncodeTyped
  <2> HIDE DEF e
  <2>3. TokensTyped(buffer')
    BY <1>1, <2>1, <2>2, ConcatTyped
  <2>4. ~ReadAlike'
    <3>1. ReadAlike' <=> \A k \in DOMAIN message' : AlikeOf(message'[k])
      BY DEF ReadAlike, AlikeOf, Counted
    <3>2. TagsKnown' <=> \A k \in DOMAIN message' : KnownOf(message'[k])
      BY DEF TagsKnown, KnownOf, Known
    <3>3. \A k \in DOMAIN message' : WellFormed(message'[k])
      <4>1. \A k \in DOMAIN message' : message'[k] \in Values
        BY <1>2
      <4> QED
        BY <4>1, CodecAssumption
    <3> QED
      BY <1>7, <3>1, <3>2, <3>3, AlikeIsKnown
  <2> QED
    BY <1>1, <1>2, <1>7, <2>1, <2>2, <2>3, <2>4 DEF CodecIInv, TokensTyped
<1>4. CASE ~(\E k \in DOMAIN Leaves(v) : Unwritable(Leaves(v)[k])) /\ TagsKnown'
  <2> DEFINE e == Encode(v, writtenData)
             r0 == Reader(buffer)
             r == Reader(buffer')
  <2>1. buffer' = buffer \o e.tokens /\ writtenData' = e.tracked /\ writeFailed' = writeFailed
    BY <1>4 DEF WriteMessage
  <2>2. ReadAlike' => ReadAlike /\ AlikeOf(v)
    <3>1. \A k \in DOMAIN message : k \in DOMAIN message' /\ message'[k] = message[k]
      BY <1>2
    <3>2. Len(message) + 1 \in DOMAIN message'
      BY <1>2
    <3>3. ReadAlike' <=> \A k \in DOMAIN message' : AlikeOf(message'[k])
      BY DEF ReadAlike, AlikeOf, Counted
    <3>4. ReadAlike <=> \A k \in DOMAIN message : AlikeOf(message[k])
      BY DEF ReadAlike, AlikeOf
    <3> QED
      BY <1>2, <3>1, <3>2, <3>3, <3>4
  <2> DEFINE alike == ReadAlike /\ AlikeOf(v)
  <2>4. IsReader(r0) /\ r0.container = NoContainer /\ (alike => AlikeOf(v)) /\ TracksOn(r0, writtenData, alike)
    BY <1>1, <1>4, <1>5 DEF HasRead, HasReadAlike, TracksOn
  <2>3. KnownOf(v)
    BY <1>4, <1>5
  <2>a. alike \in BOOLEAN
    BY DEF ReadAlike, AlikeOf
  <2> HIDE DEF alike
  <2>5. TokensTyped(e.tokens) /\ ReadOn(Reader(buffer \o e.tokens), r0, e.tracked, v, alike)
    BY <1>1, <1>6, <2>3, <2>4, <2>a, ScalarReadOn, ContainerReadOn
  <2>6. Sequence(buffer') /\ \A k \in 1..Len(buffer') : DOMAIN buffer'[k] = {"tag", "content"}
    BY <1>1, <2>1, <2>5, ConcatTyped DEF TokensTyped
  <2>7. ReadOn(r, r0, e.tracked, v, alike)
    BY <2>1, <2>5
  <2> HIDE DEF e, r0, r
  <2>8. /\ IsReader(r) /\ r.container = NoContainer
        /\ WriterTracks(writtenData') /\ ReaderTracks(r.tracked, writtenData')
        /\ alike => TrackAlike(writtenData', r.tracked)
    BY <2>1, <2>7 DEF ReadOn, TracksOn
  <2>9. PICK x : r.read = Append(r0.read, x) /\ ShapeOf(x) = ShapeOf(v) /\ (alike => x = PlainAll(v))
    BY <2>7 DEF ReadOn
  <2>10. /\ Sequence(r0.read) /\ Len(r0.read) = Len(message)
         /\ \A k \in 1..Len(message) : ShapeOf(r0.read[k]) = ShapeOf(message[k])
    BY <1>1, <1>4, <1>5 DEF HasRead, IsReader, r0
  <2>11. /\ Len(r.read) = Len(message')
         /\ \A k \in 1..Len(message) : r.read[k] = r0.read[k]
         /\ r.read[Len(message) + 1] = x
    <3> DEFINE q == r0.read
    <3>1. Sequence(q) /\ Len(q) = Len(message)
      BY <2>10
    <3> HIDE DEF q
    <3>2. /\ Len(Append(q, x)) = Len(q) + 1
          /\ \A k \in 1..Len(q) : Append(q, x)[k] = q[k]
          /\ Append(q, x)[Len(q) + 1] = x
      BY <3>1, SequenceFacts
    <3>3. r.read = Append(q, x)
      BY <2>9 DEF q
    <3> HIDE DEF r
    <3> QED
      BY <1>2, <3>1, <3>2, <3>3 DEF q
  <2>12. \A k \in 1..Len(message') : k \in 1..Len(message) \/ k = Len(message) + 1
    BY <1>2
  <2>13. \A k \in 1..Len(message') : ShapeOf(r.read[k]) = ShapeOf(message'[k])
    BY <1>2, <2>9, <2>10, <2>11, <2>12
  <2>14. HasRead(r, message', writtenData')
    BY <2>8, <2>11, <2>13 DEF HasRead
  <2>15. ReadAlike' => HasReadAlike(r, message', writtenData')
    <3> SUFFICES ASSUME ReadAlike' PROVE HasReadAlike(r, message', writtenData')
      OBVIOUS
    <3>1. alike /\ ReadAlike
      BY <2>2 DEF alike
    <3>2. \A k \in 1..Len(message) : r0.read[k] = PlainAll(message[k])
      BY <1>1, <3>1 DEF HasReadAlike, r0
    <3>3. \A k \in 1..Len(message') : r.read[k] = PlainAll(message'[k])
      BY <1>2, <2>9, <2>11, <2>12, <3>1, <3>2
    <3> QED
      BY <2>8, <3>1, <3>3 DEF HasReadAlike
  <2>16. Reader(buffer)' = r
    BY DEF r
  <2> HIDE DEF r
  <2> QED
    BY <1>1, <1>2, <2>1, <2>6, <2>8, <2>14, <2>15, <2>16 DEF CodecIInv
<1> QED
  BY <1>3, <1>4, <1>7

LEMMA CodecIInvSurvives == CodecIInv => MessagesSurvive
<1> SUFFICES ASSUME CodecIInv PROVE MessagesSurvive
  OBVIOUS
<1> DEFINE r == Reader(buffer)
<1>1. CodecTypeOK
  <2>1. DOMAIN buffer = 1..Len(buffer)
    BY SequenceFacts DEF CodecIInv
  <2> QED
    BY <2>1 DEF CodecIInv, CodecTypeOK
<1>2. /\ NumberAlike => TagsKnown
      /\ ~writeFailed /\ TagsKnown =>
           HasRead(r, message, writtenData) /\ (NumberAlike => HasReadAlike(r, message, writtenData))
  <2>1. NumberAlike => ReadAlike
    BY NumberAlikeRead
  <2>2. NumberAlike => TagsKnown
    <3>1. ReadAlike <=> \A k \in DOMAIN message : AlikeOf(message[k])
      BY DEF ReadAlike, AlikeOf
    <3>2. TagsKnown <=> \A k \in DOMAIN message : KnownOf(message[k])
      BY DEF TagsKnown, KnownOf
    <3>3. \A k \in DOMAIN message : WellFormed(message[k])
      <4>1. message \in Seq(Values)
        BY DEF CodecIInv
      <4>2. \A k \in DOMAIN message : message[k] \in Values
        BY <4>1
      <4> QED
        BY <4>2, CodecAssumption
    <3> QED
      BY <2>1, <3>1, <3>2, <3>3, AlikeIsKnown
  <2> QED
    BY <2>1, <2>2 DEF CodecIInv
<1>3. /\ ~writeFailed /\ TagsKnown => Decode(buffer) = r.read
      /\ DOMAIN message = 1..Len(message)
  <2>1. message \in Seq(Values)
    BY DEF CodecIInv
  <2>2. ~writeFailed /\ TagsKnown => r.container # Abandoned
    BY <1>2, NotAbandoned DEF HasRead
  <2> QED
    BY <2>1, <2>2, LenProperties DEF Decode
<1> HIDE DEF r
<1>4. ASSUME ~writeFailed, TagsKnown
      PROVE  /\ DOMAIN r.read = 1..Len(message) /\ r.read = [k \in 1..Len(message) |-> r.read[k]]
             /\ \A k \in 1..Len(message) : ShapeOf(r.read[k]) = ShapeOf(message[k])
             /\ NumberAlike => \A k \in 1..Len(message) : r.read[k] = PlainAll(message[k])
  <2>1. /\ Sequence(r.read) /\ Len(r.read) = Len(message)
        /\ \A k \in 1..Len(message) : ShapeOf(r.read[k]) = ShapeOf(message[k])
        /\ NumberAlike => \A k \in 1..Len(message) : r.read[k] = PlainAll(message[k])
    BY <1>2, <1>4 DEF HasRead, HasReadAlike, IsReader
  <2>2. PICK S : r.read \in Seq(S)
    BY <2>1 DEF Sequence
  <2>3. r.read \in [1..Len(message) -> S]
    BY <2>1, <2>2, LenProperties
  <2> QED
    BY <2>1, <2>3
<1>5. RoundTrip
  BY <1>2, <1>3, <1>4 DEF RoundTrip
<1>6. StructureKept
  <2> SUFFICES ASSUME ~writeFailed, TagsKnown PROVE Shape(r.read) = Shape(message)
    BY <1>3 DEF StructureKept
  <2>1. /\ Shape(r.read) = [k \in DOMAIN r.read |-> ShapeOf(r.read[k])]
        /\ Shape(message) = [k \in DOMAIN message |-> ShapeOf(message[k])]
    BY DEF Shape, ShapeOf
  <2> QED
    BY <1>3, <1>4, <2>1
<1> QED
  BY <1>1, <1>5, <1>6 DEF MessagesSurvive

\* What DataStreamWriter has written DataStreamReader reads again, container
\* for container if no number has the tag it does not know, and value for value
\* where both track the same values.
THEOREM MessagesAlwaysSurvive == CodecSpec => []MessagesSurvive
<1>1. CodecInit => CodecIInv
  BY CodecInitIInv
<1>2. CodecIInv /\ [CodecNext]_codecVars => CodecIInv'
  <2> SUFFICES ASSUME CodecIInv, [CodecNext]_codecVars PROVE CodecIInv'
    OBVIOUS
  <2>1. ASSUME NEW v \in Values, WriteMessage(v) PROVE CodecIInv'
    BY <2>1, WriteIInv
  <2>2. CASE UNCHANGED codecVars
    BY <2>2 DEF codecVars, CodecIInv, ReadAlike, TagsKnown
  <2> QED
    BY <2>1, <2>2 DEF CodecNext
<1>3. CodecIInv => MessagesSurvive
  BY CodecIInvSurvives
<1> QED
  BY <1>1, <1>2, <1>3, PTL DEF CodecSpec
==============================================================================
