----------------------------- MODULE AdaptiveLighting -----------------------------
(***************************************************************************)
(* Adaptive lighting of one lamp: AdaptiveLightingController in automatic  *)
(* and in manual mode.                                                     *)
(*                                                                         *)
(* A controller sends a transition curve and renews it; in automatic mode  *)
(* a timer looks up the current point of the curve and writes the colour   *)
(* temperature, in manual mode the plugin looks points up when it likes.   *)
(* The lookup starts where the last one ended (lastTransitionPointInfo).   *)
(* A write of the colour by anybody else ends adaptive lighting.  What is  *)
(* handed to the controller storage (stateChangeDelegate) survives a       *)
(* restart, see ControllerStorage.                                         *)
(***************************************************************************)
EXTENDS Integers, Sequences, FiniteSets, FiniteSetsExt

CONSTANTS
  Curves,      \* curves controllers send: sequences of [temperature, transitionTime, duration]
  MaxOffset,   \* bound on the time since a transition began
  MaxSetBack,  \* bound on the time before it, by a clock that was set back
  Modes,       \* subset of {"automatic", "manual"}
  NoCurve

ASSUME AdaptiveLightingAssumption ==
  /\ NoCurve \notin Curves
  /\ MaxOffset \in Nat /\ MaxSetBack \in Nat
  /\ Modes \subseteq {"automatic", "manual"}
  /\ Curves \subseteq Seq([temperature : Int, transitionTime : Nat, duration : Nat])
  /\ \A c \in Curves : \A k \in 2..Len(c) : c[k].transitionTime > 0

VARIABLES
  mode,
  activeTransition,      \* its curve, or NoCurve
  transitionOffset,      \* time since it began, by the clock of the accessory
  lastTransitionPointInfo,
  updateTimeout,         \* the timer of the next update is set
  listeners,             \* how often the listeners are registered on the colour
  activeTransitionCount,
  savedTransition,       \* the transition the storage has
  readPostponed,         \* a read has changed the brightness less than a second ago
  lookedUp               \* history: the last lookup, where it began and what it found

transition == <<activeTransition, lastTransitionPointInfo, updateTimeout, listeners,
                activeTransitionCount, savedTransition>>
lightingVars == <<mode, transitionOffset, transition, readPostponed, lookedUp>>

Offsets == (-MaxSetBack)..MaxOffset

NoPoint == [curveIndex |-> 0, lowerBoundTimeOffset |-> 0]

LightingTypeOK ==
  /\ mode \in Modes
  /\ activeTransition \in Curves \cup {NoCurve}
  /\ transitionOffset \in Offsets
  /\ lastTransitionPointInfo.curveIndex \in Nat /\ lastTransitionPointInfo.lowerBoundTimeOffset \in Nat
  /\ updateTimeout \in BOOLEAN
  /\ listeners \in Nat
  /\ activeTransitionCount \in {0, 1}
  /\ savedTransition \in Curves \cup {NoCurve}
  /\ readPostponed \in BOOLEAN

LightingInit ==
  /\ mode \in Modes
  /\ activeTransition = NoCurve
  /\ transitionOffset = 0
  /\ lastTransitionPointInfo = NoPoint
  /\ updateTimeout = FALSE
  /\ listeners = 0
  /\ activeTransitionCount = 0
  /\ savedTransition = NoCurve
  /\ readPostponed = FALSE
  /\ lookedUp = [curve |-> NoCurve, offset |-> 0, from |-> 1, index |-> 0, lower |-> 0]

-----------------------------------------------------------------------------
(* The current point of a curve.                                           *)

\* When the temperature of entry k is reached, from the beginning of the curve.
Reached(curve) ==
  LET at[k \in 1..Len(curve)] ==
        IF k = 1 THEN curve[1].transitionTime
        ELSE at[k - 1] + curve[k - 1].duration + curve[k].transitionTime
  IN at

\* Entry k is the lower bound at an offset, if it is reached at lower.
Within(curve, k, lower, offset) ==
  /\ offset >= lower
  /\ offset <= lower + curve[k].duration + curve[k + 1].transitionTime

PointFrom(k, lower, curve) ==
  [index |-> k, lower |-> lower, info |-> [curveIndex |-> k, lowerBoundTimeOffset |-> lower - curve[k].transitionTime]]

EndOfCurve == [index |-> 0, lower |-> 0, info |-> NoPoint]

\* Search from the first entry.
PointFromStart(curve, offset) ==
  LET found == {k \in 1..Len(curve) - 1 : Within(curve, k, Reached(curve)[k], offset)}
  IN IF found = {} THEN EndOfCurve ELSE PointFrom(Min(found), Reached(curve)[Min(found)], curve)

\* getCurrentAdaptiveLightingTransitionPoint: search from the last point; when that lies ahead, anew.
CurrentPoint(curve, offset, last) ==
  IF last = NoPoint THEN PointFromStart(curve, offset)
  ELSE LET lower(k) == last.lowerBoundTimeOffset + Reached(curve)[k]
                         - (Reached(curve)[last.curveIndex] - curve[last.curveIndex].transitionTime)
           stops    == {k \in last.curveIndex..Len(curve) - 1 :
                          Within(curve, k, lower(k), offset) \/ offset < lower(k)}
       IN CASE stops = {} -> EndOfCurve
            [] stops # {} /\ offset < lower(Min(stops)) -> PointFromStart(curve, offset)
            [] OTHER -> PointFrom(Min(stops), lower(Min(stops)), curve)

\* A lookup, for the record.
Lookup(curve, offset, last, point) ==
  [curve |-> curve, offset |-> offset, from |-> IF last = NoPoint THEN 1 ELSE last.curveIndex,
   index |-> point.index, lower |-> point.lower]

-----------------------------------------------------------------------------
(* Updates.                                                                *)

\* What is left by disableAdaptiveLighting.
Disabled ==
  /\ activeTransition' = NoCurve
  /\ lastTransitionPointInfo' = NoPoint
  /\ updateTimeout' = FALSE
  /\ listeners' = IF listeners > 0 THEN listeners - 1 ELSE 0
  /\ activeTransitionCount' = 0
  /\ savedTransition' = NoCurve

\* Mutant of Continues: the transition is not looked at again after the set handler.
ContinuesBlindly(curve, point, dryRun, disables) ==
  /\ activeTransition' = IF disables THEN NoCurve ELSE curve
  /\ savedTransition' = IF disables THEN NoCurve ELSE curve
  /\ activeTransitionCount' = IF disables THEN 0 ELSE 1
  /\ listeners' = IF disables THEN 0 ELSE 1
  /\ lastTransitionPointInfo' = IF disables THEN NoPoint ELSE point.info
  /\ updateTimeout' = (updateTimeout \/ ~dryRun)

\* The colour temperature is written; the set handler of the plugin may end adaptive lighting there.
Continues(curve, point, dryRun, disables) ==
  IF disables THEN Disabled
  ELSE /\ activeTransition' = curve
       /\ lastTransitionPointInfo' = point.info
       /\ updateTimeout' = (updateTimeout \/ ~dryRun)
       /\ listeners' = IF listeners = 0 THEN 1 ELSE listeners
       /\ activeTransitionCount' = 1
       /\ savedTransition' = curve

\* No point any more: a dry run leaves it at that, the timer ends adaptive lighting.
AtEnd(curve, dryRun) ==
  IF dryRun
  THEN /\ lastTransitionPointInfo' = NoPoint
       /\ UNCHANGED <<activeTransition, updateTimeout, listeners, activeTransitionCount, savedTransition>>
  ELSE Disabled

\* scheduleNextUpdate, by the timer, by a new or restored curve, or as a dry run.
ScheduleNextUpdate(curve, offset, last, dryRun) ==
  LET point == CurrentPoint(curve, offset, last)
  IN /\ lookedUp' = Lookup(curve, offset, last, point)
     /\ IF point.index = 0 THEN AtEnd(curve, dryRun)
        ELSE \E disables \in BOOLEAN : Continues(curve, point, dryRun, disables)

\* A curve is there: the timer takes over, or the plugin is told.
Activated(curve, offset, last) ==
  IF mode = "automatic" THEN ScheduleNextUpdate(curve, offset, last, FALSE)
  ELSE /\ activeTransition' = curve
       /\ activeTransitionCount' = 1
       /\ savedTransition' = curve
       /\ lastTransitionPointInfo' = last
       /\ UNCHANGED <<updateTimeout, listeners, lookedUp>>

-----------------------------------------------------------------------------
(* Steps.                                                                  *)

\* A controller enables adaptive lighting or renews the curve.
UpdateTransition(curve) ==
  /\ transitionOffset' = 0
  /\ Activated(curve, 0, lastTransitionPointInfo)
  /\ UNCHANGED <<mode, readPostponed>>

UpdateTimeout ==
  /\ updateTimeout
  /\ ScheduleNextUpdate(activeTransition, transitionOffset, lastTransitionPointInfo, FALSE)
  /\ UNCHANGED <<mode, transitionOffset, readPostponed>>

\* The brightness changes: the temperature follows at once, or a second later if a read found out.
BrightnessChanged(byRead) ==
  /\ listeners > 0
  /\ readPostponed' = (readPostponed \/ byRead)
  /\ IF byRead THEN UNCHANGED <<transition, lookedUp>>
     ELSE ScheduleNextUpdate(activeTransition, transitionOffset, lastTransitionPointInfo, TRUE)
  /\ UNCHANGED <<mode, transitionOffset>>

PostponedUpdate ==
  /\ readPostponed
  /\ readPostponed' = FALSE
  /\ IF activeTransition = NoCurve THEN UNCHANGED <<transition, lookedUp>>
     ELSE ScheduleNextUpdate(activeTransition, transitionOffset, lastTransitionPointInfo, TRUE)
  /\ UNCHANGED <<mode, transitionOffset>>

\* In manual mode the plugin asks for the current point.
GetCurrentPoint ==
  /\ mode = "manual" /\ activeTransition # NoCurve
  /\ LET point == CurrentPoint(activeTransition, transitionOffset, lastTransitionPointInfo)
     IN /\ lastTransitionPointInfo' = point.info
        /\ lookedUp' = Lookup(activeTransition, transitionOffset, lastTransitionPointInfo, point)
  /\ UNCHANGED <<mode, transitionOffset, readPostponed, activeTransition, updateTimeout, listeners,
                 activeTransitionCount, savedTransition>>

\* The colour is written by somebody else, the plugin or the controller disables adaptive lighting, a
\* write of the control point fails, the accessory is unpaired, or the controller is removed from it
\* (removeController resets it before).
DisableAdaptiveLighting ==
  /\ Disabled
  /\ UNCHANGED <<mode, transitionOffset, readPostponed, lookedUp>>

\* Time passes; the clock may also be set back, even before the start of the transition.
Clock(offset) ==
  /\ activeTransition # NoCurve
  /\ transitionOffset' = offset
  /\ UNCHANGED <<mode, transition, readPostponed, lookedUp>>

\* The process starts again, by whatever clock.
RestartLighting(offset) ==
  /\ transitionOffset' = offset
  /\ readPostponed' = FALSE
  /\ IF savedTransition = NoCurve
     THEN /\ activeTransition' = NoCurve
          /\ lastTransitionPointInfo' = NoPoint
          /\ updateTimeout' = FALSE
          /\ listeners' = 0
          /\ activeTransitionCount' = 0
          /\ UNCHANGED <<savedTransition, lookedUp>>
     ELSE Activated(savedTransition, offset, NoPoint)
  /\ UNCHANGED mode

LightingNext ==
  \/ \E c \in Curves : UpdateTransition(c)
  \/ UpdateTimeout \/ PostponedUpdate \/ GetCurrentPoint \/ DisableAdaptiveLighting
  \/ \E byRead \in BOOLEAN : BrightnessChanged(byRead)
  \/ \E offset \in Offsets : Clock(offset) \/ RestartLighting(offset)

LightingSpec == LightingInit /\ [][LightingNext]_lightingVars

-----------------------------------------------------------------------------
(* Properties.                                                             *)

\* However adaptive lighting was enabled, renewed, restored and ended: the count controllers read and
\* the stored transition agree with it, and in automatic mode the timer runs and the colour is watched
\* exactly while it is active ("tried scheduling transition when no transition was active!").
LightingConsistent ==
  /\ activeTransitionCount = (IF activeTransition # NoCurve THEN 1 ELSE 0)
  /\ savedTransition = activeTransition
  /\ updateTimeout <=> activeTransition # NoCurve /\ mode = "automatic"
  /\ listeners = (IF updateTimeout THEN 1 ELSE 0)

\* A lookup that found an entry found the one in force at the offset, and when it was reached; one that
\* found none was past the last entry, before the first, or began at an index that is not on the curve.
LookupIsRight ==
  lookedUp.curve # NoCurve =>
    LET c == lookedUp.curve
        k == lookedUp.index
    IN IF k # 0
       THEN /\ k \in 1..Len(c) - 1
            /\ lookedUp.lower = Reached(c)[k]
            /\ Within(c, k, Reached(c)[k], lookedUp.offset)
       ELSE \/ lookedUp.offset > Reached(c)[Len(c)]
            \/ lookedUp.offset < Reached(c)[1]
            \/ lookedUp.from >= Len(c)

\* In automatic mode, where a renewed curve is looked up at once, wherever the search begins and however
\* the clock is set; in manual mode the index may be one of another curve.
PointIsCurrent == mode = "automatic" => LookupIsRight

\* "Returns undefined if the current transition schedule reached its end", and only then: not kept where
\* the clock is before the first entry, or where a renewed curve is shorter.
UndefinedAtEnd ==
  lookedUp.curve # NoCurve /\ lookedUp.index = 0
    => lookedUp.offset > Reached(lookedUp.curve)[Len(lookedUp.curve)]

\* A search begins on the curve that is searched.
SearchStartsOnCurve == lookedUp.curve # NoCurve => lookedUp.from < Len(lookedUp.curve)

\* Transition, timer, listeners and point belong together.
LightingKept == LightingTypeOK /\ LightingConsistent /\ PointIsCurrent
=============================================================================
