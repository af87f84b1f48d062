------------------------------ MODULE AccessoriesRead ------------------------------
(***************************************************************************)
(* GET /accessories: the accessory asks the read handler of every          *)
(* characteristic of its own services, and when those are complete the     *)
(* bridged accessories'.  Each service gives its handlers two timers of    *)
(* their own (Service.toHAP); requests of several controllers overlap.     *)
(*                                                                         *)
(* Accessories that come and go meanwhile are the subject of               *)
(* AccessoryDatabase; here the structure stays.                            *)
(***************************************************************************)
EXTENDS Naturals, FiniteSets, Sequences, SequencesExt

CONSTANTS
  ReadRequests,      \* requests that may overlap
  Characteristic,    \* the characteristics of each service
  OwnServices,       \* the services of the published accessory; the others are bridged
  WriteOnly,         \* characteristics without PAIRED_READ
  Warning,           \* 3000 ms
  AfterWarning,      \* 6000 ms
  Recent             \* 5000 ms

ServiceNames == DOMAIN Characteristic

ASSUME ReadAssumption ==
  /\ OwnServices \subseteq ServiceNames /\ OwnServices # {}
  /\ \A s, t \in ServiceNames : Characteristic[s] # {} /\ (s # t => Characteristic[s] \cap Characteristic[t] = {})
  /\ \A s \in ServiceNames : IsFiniteSet(Characteristic[s])
  /\ Warning \in Nat \ {0} /\ AfterWarning \in Nat \ {0} /\ Recent \in Nat

VARIABLES
  phase,       \* per request: "none", "own", "bridged", "answered"
  contact,     \* per request: contactGetHandlers
  timer,     \* per request and service: the timer that runs, "off" for undefined
  unanswered,     \* per request: missingCharacteristics
  content,     \* per request and service: service.characteristics of the answer
  age,         \* per request: ticks since it came
  phaseAge,    \* per request: ticks since its phase began
  sinceLast    \* ticks since lastAccessoriesRequest, as far as they matter

readVars == <<phase, contact, timer, unanswered, content, age, phaseAge, sinceLast>>

AllCharacteristics == UNION {Characteristic[s] : s \in ServiceNames}
ServiceOf(c) == CHOOSE s \in ServiceNames : c \in Characteristic[s]
Entry(c, value) == [characteristic |-> c, value |-> value]
Empty == [s \in ServiceNames |-> <<>>]
Off == [s \in ServiceNames |-> "off"]

ReadInit ==
  /\ phase = [r \in ReadRequests |-> "none"]
  /\ contact = [r \in ReadRequests |-> FALSE]
  /\ timer = [r \in ReadRequests |-> Off]
  /\ unanswered = [r \in ReadRequests |-> {}]
  /\ content = [r \in ReadRequests |-> Empty]
  /\ age = [r \in ReadRequests |-> 0]
  /\ phaseAge = [r \in ReadRequests |-> 0]
  /\ sinceLast = Recent + 1

-----------------------------------------------------------------------------
ServicesIn(p) == IF p = "own" THEN OwnServices ELSE ServiceNames \ OwnServices

\* Service.toHAP of every service of a phase at once: the timers start, the handlers are called.
StartPhase(r, p) ==
  /\ phase' = [phase EXCEPT ![r] = p]
  /\ timer' = [timer EXCEPT ![r] =
       [s \in ServiceNames |-> IF s \in ServicesIn(p) THEN "warning" ELSE "off"]]
  /\ unanswered' = [unanswered EXCEPT ![r] = UNION {Characteristic[s] : s \in ServicesIn(p)}]
  /\ phaseAge' = [phaseAge EXCEPT ![r] = 0]

\* handleAccessories.  The time of the last request is kept whether or not it asked the handlers.
HandleAccessoriesRead(r) ==
  /\ phase[r] = "none"
  /\ contact' = [contact EXCEPT ![r] = sinceLast > Recent]
  /\ sinceLast' = 0
  /\ StartPhase(r, "own")
  /\ UNCHANGED <<content, age>>

Pending(r) == phase[r] \in {"own", "bridged"}

\* What Characteristic.toHAP has without asking a handler.
AtOnce(r, c) == c \in WriteOnly \/ ~contact[r]

\* handleGetRequest's outcome: the value, or the default value for an error.
ValueOf(r, c) == IF c \in WriteOnly THEN {"undefined"} ELSE IF contact[r] THEN {"read", "default"} ELSE {"stored"}

\* Mutant of Expected: an answer that comes after the timeout is added all the same.
ExpectedLate(r, c) == TRUE

\* "if timeout is undefined, response was already sent out".
Expected(r, c) == timer[r][ServiceOf(c)] # "off"

\* Handlers whose answer may still come: those that were asked in this request.
Asked(r) == UNION {Characteristic[s] : s \in IF phase[r] = "own" THEN OwnServices ELSE ServiceNames}

\* A handler answers, once, in time or late.  With the last one the service is complete.
HandlerAnswers(r, c) ==
  /\ phase[r] # "none"
  /\ c \in Asked(r)
  /\ c \in unanswered[r] \/ \E k \in DOMAIN content[r][ServiceOf(c)] :
                           content[r][ServiceOf(c)][k] = Entry(c, "null")
  /\ \E value \in ValueOf(r, c) :
       LET s == ServiceOf(c)
           left == unanswered[r] \ {c}
       IN IF Expected(r, c)
          THEN /\ unanswered' = [unanswered EXCEPT ![r] = left]
               /\ content' = [content EXCEPT ![r][s] = Append(@, Entry(c, value))]
               /\ timer' = [timer EXCEPT ![r][s] = IF left \cap Characteristic[s] = {} THEN "off" ELSE @]
          ELSE UNCHANGED <<unanswered, content, timer>>
  /\ UNCHANGED <<phase, contact, age, phaseAge, sinceLast>>

TimerDue(r, s) ==
  /\ Pending(r)
  /\ \/ timer[r][s] = "warning" /\ phaseAge[r] >= Warning
     \/ timer[r][s] = "late" /\ phaseAge[r] >= Warning + AfterWarning

\* Three seconds: the slow handlers are reported.
WarnSlow(r, s) ==
  /\ TimerDue(r, s)
  /\ timer[r][s] = "warning"
  /\ timer' = [timer EXCEPT ![r][s] = "late"]
  /\ UNCHANGED <<phase, contact, unanswered, content, age, phaseAge, sinceLast>>

TimedOutEntries(S) == SetToSeq({Entry(c, "null") : c \in S})

\* Nine seconds: the service is complete without them, their value is null.
ReadTimesOut(r, s) ==
  /\ TimerDue(r, s)
  /\ timer[r][s] = "late"
  /\ timer' = [timer EXCEPT ![r][s] = "off"]
  /\ content' = [content EXCEPT ![r][s] = @ \o TimedOutEntries(unanswered[r] \cap Characteristic[s])]
  /\ unanswered' = [unanswered EXCEPT ![r] = @ \ Characteristic[s]]
  /\ UNCHANGED <<phase, contact, age, phaseAge, sinceLast>>

\* Promise.all: the phase is over when each of its services is complete.
PhaseDone(r) == Pending(r) /\ \A s \in ServicesIn(phase[r]) : timer[r][s] = "off"

AskBridged(r) ==
  /\ phase[r] = "own"
  /\ PhaseDone(r)
  /\ StartPhase(r, "bridged")
  /\ UNCHANGED <<contact, content, age, sinceLast>>

\* The answer leaves; the connection may ask again.
AnswerAccessories(r) ==
  /\ phase[r] = "bridged"
  /\ PhaseDone(r)
  /\ phase' = [phase EXCEPT ![r] = "answered"]
  /\ UNCHANGED <<contact, timer, unanswered, content, age, phaseAge, sinceLast>>

Urgent(r) ==
  \/ PhaseDone(r)
  \/ \E s \in ServiceNames : TimerDue(r, s)
  \/ \E c \in unanswered[r] : AtOnce(r, c)

\* Time passes while nothing is due.
ReadTick ==
  /\ \A r \in ReadRequests : ~Urgent(r)
  /\ \E r \in ReadRequests : Pending(r) \/ sinceLast <= Recent
  /\ age' = [r \in ReadRequests |-> age[r] + IF Pending(r) THEN 1 ELSE 0]
  /\ phaseAge' = [r \in ReadRequests |-> phaseAge[r] + IF Pending(r) THEN 1 ELSE 0]
  /\ sinceLast' = IF sinceLast <= Recent THEN sinceLast + 1 ELSE sinceLast
  /\ UNCHANGED <<phase, contact, timer, unanswered, content>>

ReadNext ==
  \/ \E r \in ReadRequests :
       \/ HandleAccessoriesRead(r)
       \/ AskBridged(r)
       \/ AnswerAccessories(r)
       \/ \E c \in AllCharacteristics : HandlerAnswers(r, c)
       \/ \E s \in ServiceNames : WarnSlow(r, s) \/ ReadTimesOut(r, s)
  \/ ReadTick

ReadSpec == ReadInit /\ [][ReadNext]_readVars

-----------------------------------------------------------------------------
(* Properties.                                                             *)

ReadTypeOK ==
  /\ \A r \in ReadRequests :
       /\ phase[r] \in {"none", "own", "bridged", "answered"}
       /\ unanswered[r] \subseteq AllCharacteristics
       /\ \A s \in ServiceNames : timer[r][s] \in {"off", "warning", "late"}
       /\ age[r] >= phaseAge[r]
  /\ sinceLast \in 0..(Recent + 1)

Named(s) == [k \in DOMAIN s |-> s[k].characteristic]

\* An answer lists every characteristic exactly once, whichever handlers answer in time, late or
\* never: one that answers after its service timed out does not appear a second time while the
\* answer waits for other services (Service.toHAP).
AnswerIsWhole ==
  /\ ReadTypeOK
  /\ \A r \in ReadRequests : phase[r] = "answered" =>
       \A s \in ServiceNames :
         /\ Range(Named(content[r][s])) = Characteristic[s]
         /\ Len(content[r][s]) = Cardinality(Characteristic[s])

\* One timeout is enough for an answer.
AnsweredWithinOneTimeout ==
  \A r \in ReadRequests : Pending(r) => age[r] <= Warning + AfterWarning
=============================================================================
