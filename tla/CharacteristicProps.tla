------------------------- MODULE CharacteristicProps -------------------------
(***************************************************************************)
(* The restrictions of one characteristic and the value they restrict:     *)
(* setProps, the two validations (validateUserInput of what the plugin     *)
(* supplies, which repairs, and validateClientSuppliedValue of what a      *)
(* controller writes, which refuses), the default value, the iterator over *)
(* the valid values, and the form in which a read serves the value.        *)
(*                                                                         *)
(* A number is counted in ticks, One of them to 1, so that steps below 1   *)
(* exist; a text is its length.  A text of digits acts as the number it    *)
(* stands for; the texts here hold none.  The bounds of the formats are    *)
(* scaled down.  A property that may be absent is a set with at most one   *)
(* element, and an argument of setProps a function of the fields it has,   *)
(* the empty set being null.  Left out: the format-free properties (perms, *)
(* unit, description, adminOnlyAccess), the names whose texts may not be   *)
(* short, and that setProps writes its repairs into the caller's object.   *)
(***************************************************************************)
EXTENDS Integers, Sequences, SequencesExt

CONSTANTS
  One,             \* ticks in 1
  IntBound,        \* an int lies in -IntBound .. IntBound - One
  UintBound,       \* an unsigned number lies in 0 .. UintBound
  FloatBound,      \* a float in -FloatBound .. FloatBound: beyond every number used
  DefaultLen,      \* of a text without maxLen (64)
  LongestLen,      \* the most maxLen can be (256)
  UUIDKind,        \* "apple", "switchEvent" (ProgrammableSwitchEvent), "custom"
  Declarations,    \* the arguments of the constructor, each with a format
  Changes,         \* the arguments of setProps
  Supplied,        \* the values plugins and controllers supply
  MaxCalls         \* bound: calls of setProps

Number(n)  == [is |-> "number", n |-> n]
Boolean(n) == [is |-> "boolean", n |-> n]
Text(len)  == [is |-> "string", n |-> len]
Null       == [is |-> "null", n |-> 0]
NotANumber == [is |-> "NaN", n |-> 0]

IsValue(v) ==
  \/ v \in {Null, NotANumber, Boolean(0), Boolean(1)}
  \/ v.n \in Int /\ v = Number(v.n)
  \/ v.n \in Nat /\ v = Text(v.n)

Given(arg, field) == field \in DOMAIN arg
Optional(option, S) == option \subseteq S /\ \A x, y \in option : x = y

\* The fields of an argument; a step below 1 divides it, as 0.5 or 0.1 do.
IsArgument(arg) ==
  /\ Given(arg, "format") => \E f \in {"int", "float", "uint8", "bool", "string", "data"} : arg["format"] = {f}
  /\ \A field \in {"minValue", "maxValue"} : Given(arg, field) => Optional(arg[field], Int)
  /\ Given(arg, "minStep") =>
       Optional(arg["minStep"], {step \in Nat : step > 0 /\ (step < One => One % step = 0)})
  /\ \A field \in {"maxLen", "maxDataLen"} : Given(arg, field) => Optional(arg[field], Nat)
  /\ \A field \in {"validValues", "validValueRanges"} : Given(arg, field) => Optional(arg[field], Seq(Int))

ASSUME PropsAssumption ==
  /\ {One, UintBound, IntBound, FloatBound, DefaultLen, LongestLen, MaxCalls} \subseteq Nat
  /\ One > 0
  /\ UUIDKind \in {"apple", "switchEvent", "custom"}
  /\ \A arg \in Declarations : IsArgument(arg) /\ Given(arg, "format")
  /\ \A arg \in Changes : IsArgument(arg)
  /\ \A v \in Supplied : IsValue(v)

VARIABLES
  format, props,
  current,         \* this.value
  failing,         \* statusCode is not SUCCESS
  validated,       \* history: current passed a validation under the props as they are
  calls            \* number of calls of setProps so far

characteristicVars == <<format, props, current, failing, validated, calls>>

The(option) == CHOOSE x \in option : TRUE
Else(option, default) == IF option = {} THEN default ELSE The(option)
Least(S)    == CHOOSE x \in S : \A y \in S : x <= y
Greatest(S) == CHOOSE x \in S : \A y \in S : x >= y

IsNumeric(f)  == f \in {"int", "float", "uint8"}
IsUnsigned(f) == f = "uint8"
IsInteger(f)  == f \in {"int", "uint8"}
LowerBound(f) == CASE f = "int" -> -IntBound [] f = "float" -> -FloatBound [] OTHER -> 0
UpperBound(f) == CASE f = "int" -> IntBound - One [] f = "float" -> FloatBound [] OTHER -> UintBound

NumericMin(f, p) == Greatest(p.minValue \cup {LowerBound(f)})
NumericMax(f, p) == Least(p.maxValue \cup {UpperBound(f)})
Step(f, p)       == IF IsInteger(f) THEN {Greatest(p.minStep \cup {One})} ELSE p.minStep
Base(p)          == Else(p.minValue, 0)

RoundTo(step, base, n) == step * ((2 * (n - base) + step) \div (2 * step)) + base
FloorTo(step, base, n) == step * ((n - base) \div step) + base

(***************************************************************************)
(* validateUserInput for numbers: onto the grid, then between the bounds,  *)
(* then among the valid values or into the valid range.                    *)
(***************************************************************************)
LastOfGrid(f, p) ==
  IF Step(f, p) = {} THEN NumericMax(f, p) ELSE FloorTo(The(Step(f, p)), Base(p), NumericMax(f, p))

OntoGrid(f, p, n) == IF Step(f, p) = {} THEN n ELSE RoundTo(The(Step(f, p)), Base(p), n)

BetweenBounds(f, p, n) == Least({LastOfGrid(f, p), Greatest({NumericMin(f, p), n})})

\* Mutant: only the lower end of the range is looked at.
IntoRangeFromBelow(p, n) ==
  IF p.validValueRanges # {} /\ n < The(p.validValueRanges)[1] THEN The(p.validValueRanges)[1] ELSE n

IntoRange(p, n) ==
  IF p.validValueRanges = {} THEN n
  ELSE LET range == The(p.validValueRanges) IN
       IF n < range[1] THEN range[1] ELSE IF n > range[2] THEN range[2] ELSE n

AsNumber(p, last, v) ==
  CASE v.is = "number"  -> v.n
    [] v.is = "boolean" -> v.n * One
    [] OTHER            -> IF last.is = "number" THEN last.n ELSE Base(p)

RepairedNumber(f, p, last, v) ==
  LET n     == BetweenBounds(f, p, OntoGrid(f, p, AsNumber(p, last, v)))
      valid == Else(p.validValues, <<>>)
  IN  IF valid = <<>> \/ Contains(valid, n) THEN Number(IntoRange(p, n))
      ELSE IF last.is = "number" /\ Contains(valid, last.n) THEN last ELSE Number(valid[1])

RepairedBoolean(v) == IF v.is = "boolean" THEN v ELSE Boolean(IF v = Number(One) THEN 1 ELSE 0)

RepairedText(p, last, v) ==
  LET len == CASE v.is = "string"                        -> v.n
               [] v.is \notin {"number", "string"} /\ last.is = "string" -> last.n
               [] v.is = "number"                        -> 1    \* its digits
               [] OTHER                                  -> 4    \* "null", "true", ...
  IN  Text(Least({len, Else(p.maxLen, DefaultLen)}))

\* What is stored, or nothing when the validation throws.
UserInput(f, p, last, v) ==
  IF v = Null /\ f # "data" /\ UUIDKind # "apple" THEN {Null}
  ELSE IF v = Null /\ f # "data" /\ last # Null THEN {last}
  ELSE CASE IsNumeric(f) -> {RepairedNumber(f, p, last, v)}
         [] f = "bool"   -> {RepairedBoolean(v)}
         [] f = "string" -> {RepairedText(p, last, v)}
         [] OTHER        -> IF v = Null \/ (v.is = "string" /\ \A len \in p.maxDataLen : v.n <= len)
                            THEN {v} ELSE {}

(***************************************************************************)
(* validateClientSuppliedValue.                                            *)
(***************************************************************************)
NumberAccepted(f, p, n) ==
  /\ n \in NumericMin(f, p) .. NumericMax(f, p)
  /\ \A valid \in p.validValues : Contains(valid, n)
  /\ \A range \in p.validValueRanges : n \in range[1] .. range[2]

ClientSupplied(f, p, v) ==
  CASE IsNumeric(f) -> {Number(n) : n \in {m \in {AsNumber(p, Null, v)} :
                          v.is \in {"number", "boolean"} /\ NumberAccepted(f, p, m)}}
    [] f = "bool"   -> IF v.is = "boolean" THEN {v}
                       ELSE IF v.is = "number" /\ v.n \in {0, One} THEN {Boolean(v.n \div One)} ELSE {}
    [] f = "string" -> {w \in {v} : v.is = "string" /\ v.n <= Else(p.maxLen, DefaultLen)}
    [] OTHER        -> {w \in {v} : v.is = "string" /\ \A len \in p.maxDataLen : v.n <= len}

\* formatOutgoingCharacteristicValue, without the rounding to four digits.
Outgoing(p, v) ==
  CASE v.is = "boolean" -> Number(v.n * One)
    [] v.is = "number" /\ \E s \in p.minStep : s < One -> Number(RoundTo(The(p.minStep), Base(p), v.n))
    [] OTHER -> v

DefaultValue(f, p) ==
  CASE IsNumeric(f) -> Number(IF p.validValues # {} THEN The(p.validValues)[1] ELSE Base(p))
    [] f = "bool"   -> Boolean(0)
    [] OTHER        -> Text(0)

\* ValidValuesIterable; nothing when there is no strategy.
ValidValues(f, p) ==
  LET counted(from, to, step) == {n \in from .. to : (n - from) % step = 0} IN
  IF p.validValues # {} THEN {ToSet(The(p.validValues))}
  ELSE IF p.validValueRanges # {}
       THEN {counted(The(p.validValueRanges)[1], The(p.validValueRanges)[2], One)}
  ELSE IF p.minValue # {} /\ p.maxValue # {}
       THEN {counted(The(p.minValue), The(p.maxValue), Else(p.minStep, One))}
  ELSE IF IsUnsigned(f) THEN {counted(0, UpperBound(f), One)} ELSE {}

(***************************************************************************)
(* setProps.  A field may throw after those before it were assigned.       *)
(***************************************************************************)
\* minValue beyond either bound of the format becomes the lower one, maxValue the upper.
BoundAfter(arg, field, old, f, instead) ==
  IF ~Given(arg, field) THEN old
  ELSE IF ~IsNumeric(f) THEN {}
  ELSE {IF n \in LowerBound(f) .. UpperBound(f) THEN n ELSE instead : n \in arg[field]}

\* A field that the format does not have is not assigned, but null always removes it.
FieldAfter(arg, field, old, applies) ==
  IF Given(arg, field) /\ (applies \/ arg[field] = {}) THEN arg[field] ELSE old

PropsAfter(f, p, arg) ==
  LET noValues   == IsNumeric(f) /\ Given(arg, "validValues") /\ arg["validValues"] = {<<>>}
      badRange   == IsNumeric(f) /\ Given(arg, "validValueRanges")
                    /\ \E range \in arg["validValueRanges"] : Len(range) # 2
      minValue   == BoundAfter(arg, "minValue", p.minValue, f, LowerBound(f))
      maxValue   == BoundAfter(arg, "maxValue", p.maxValue, f, UpperBound(f))
      crossed    == ~noValues /\ ~badRange /\ \E a \in minValue, b \in maxValue : a > b
      maxLen     == FieldAfter(arg, "maxLen", p.maxLen, f = "string")
  IN [threw |-> noValues \/ badRange \/ crossed,
      props |-> [minValue   |-> IF crossed THEN {} ELSE minValue,
                 maxValue   |-> IF crossed THEN {} ELSE maxValue,
                 minStep    |-> FieldAfter(arg, "minStep", p.minStep, IsNumeric(f)),
                 maxLen     |-> {Least({len, LongestLen}) : len \in maxLen},
                 maxDataLen |-> FieldAfter(arg, "maxDataLen", p.maxDataLen, f = "data"),
                 validValues |-> FieldAfter(arg, "validValues", p.validValues,
                                            IsNumeric(f) /\ ~noValues),
                 validValueRanges |->
                   IF noValues \/ badRange THEN p.validValueRanges
                   ELSE FieldAfter(arg, "validValueRanges", p.validValueRanges, IsNumeric(f))]]

NoProps == [minValue |-> {}, maxValue |-> {}, minStep |-> {}, maxLen |-> {}, maxDataLen |-> {},
            validValues |-> {}, validValueRanges |-> {}]

Declared(arg) ==
  LET f == The(arg["format"])
      declared == PropsAfter(f, NoProps, arg)
  IN  /\ ~declared.threw
      /\ format = f /\ props = declared.props
      /\ current = DefaultValue(f, declared.props)
      /\ failing = FALSE /\ validated = FALSE /\ calls = 0

PropsInit == \E arg \in Declarations : Declared(arg)

\* The value is validated again, once more by updateValue when that changed it.
Corrected(f, p, v) ==
  LET once == The(UserInput(f, p, v, v))
  IN  IF once = v THEN v ELSE The(UserInput(f, p, v, once))

SetProps(arg) ==
  LET f     == IF Given(arg, "format") THEN The(arg["format"]) ELSE format
      after == PropsAfter(f, props, arg)
      corrects == /\ ~after.threw /\ f = format /\ ~failing /\ current # Null
                  /\ IsNumeric(f) \/ f = "string"
                  /\ UUIDKind # "switchEvent"
  IN  /\ calls < MaxCalls
      /\ calls' = calls + 1
      /\ format' = f
      /\ props' = after.props
      /\ current' = IF corrects THEN Corrected(f, after.props, current) ELSE current
      /\ validated' = (corrects \/ (validated /\ f = format /\ after.props = props))
      /\ UNCHANGED failing

\* updateValue with a value; a null keeps what was there without validating it.
UpdateWithProps(v) ==
  \E stored \in UserInput(format, props, current, v) :
    /\ current' = stored
    /\ failing' = FALSE
    /\ validated' = (validated \/ v # Null)
    /\ UNCHANGED <<format, props, calls>>

UpdateErrorWithProps ==
  /\ failing' = TRUE
  /\ UNCHANGED <<format, props, current, validated, calls>>

\* handleSetRequest with no handler that refuses.  A write that is refused has cleared the error too.
ClientWrite(v) ==
  LET accepted == ClientSupplied(format, props, v) IN
  /\ failing' = FALSE
  /\ IF accepted = {} THEN UNCHANGED <<current, validated>>
     ELSE current' = The(accepted) /\ validated' = TRUE
  /\ UNCHANGED <<format, props, calls>>

PropsNext ==
  \/ \E arg \in Changes : SetProps(arg)
  \/ \E v \in Supplied : UpdateWithProps(v)
  \/ UpdateErrorWithProps
  \/ \E v \in Supplied : ClientWrite(v)

PropsSpec == PropsInit /\ [][PropsNext]_characteristicVars

PropsTypeOK ==
  /\ current.is \in {"number", "boolean", "string", "null"} /\ current.n \in Int
  /\ {failing, validated} \subseteq BOOLEAN
  /\ calls \in 0..MaxCalls
  /\ props.minValue \cup props.maxValue \cup props.minStep \subseteq Int
  /\ props.maxLen \cup props.maxDataLen \subseteq Nat

(***************************************************************************)
(* What plugins may declare.  The declarations of one characteristic are   *)
(* Consistent when each kind of them leaves the others something to allow, *)
(* and Aligned when the numbers they name lie on the grid of the steps.    *)
(***************************************************************************)
Consistent(f, p) ==
  /\ NumericMin(f, p) <= LastOfGrid(f, p)
  /\ \A valid \in p.validValues : \A n \in ToSet(valid) :
       /\ n \in NumericMin(f, p) .. NumericMax(f, p)
       /\ \A range \in p.validValueRanges : n \in range[1] .. range[2]
  /\ \A range \in p.validValueRanges :
       range[1] <= range[2] /\ range[1] <= NumericMax(f, p) /\ range[2] >= NumericMin(f, p)

OnGrid(f, p, n) == \A step \in Step(f, p) : (n - Base(p)) % step = 0

Aligned(f, p) ==
  \A n \in {NumericMin(f, p), NumericMax(f, p)}
              \cup UNION {ToSet(list) : list \in p.validValues \cup p.validValueRanges} :
    OnGrid(f, p, n)

Sound(f, p) == IsNumeric(f) => Consistent(f, p) /\ Aligned(f, p)

Accepted(f, p, v) == ClientSupplied(f, p, v) # {}

\* What a read serves without an error is a value that a controller may write back: the repair
\* of what the plugin supplies (validateUserInput), the correction in setProps and the rounding
\* of formatOutgoingCharacteristicValue end where validateClientSuppliedValue accepts, as long
\* as the declarations are sound and the value went through one of them since they changed.
ServedIsAccepted ==
  validated /\ ~failing /\ current # Null /\ Sound(format, props)
    => Accepted(format, props, Outgoing(props, current))

\* A repair is final: validating the repaired value again changes nothing (setProps with nothing
\* new would otherwise send change events), and a value on the grid that a controller could
\* write is stored as it is.
RepairsAreFinal ==
  [][(\A v \in Supplied : Sound(format, props) /\ v # Null /\ UpdateWithProps(v) =>
        /\ UserInput(format, props, current', current') = {current'}
        /\ v.is = "number" /\ IsNumeric(format) /\ Accepted(format, props, v)
             /\ OnGrid(format, props, v.n) => current' = v)]_characteristicVars

\* setProps clamps the value into the allowed range.
PropsClampValue ==
  [][(\A arg \in Changes : SetProps(arg) /\ IsNumeric(format') /\ format' = format /\ current.is = "number"
        /\ ~failing /\ NumericMin(format', props') <= LastOfGrid(format', props')
        => current'.n \in NumericMin(format', props') .. NumericMax(format', props'))]_characteristicVars

\* The iterator loops over the values that are valid: a controller may write each of them.
IteratedAreAccepted ==
  IsNumeric(format) /\ Sound(format, props)
    => \A values \in ValidValues(format, props) : \A n \in values : NumberAccepted(format, props, n)

\* A characteristic serves values that its own props accept, and repairs a value once.
PropsKept == [](PropsTypeOK /\ ServedIsAccepted) /\ RepairsAreFinal
==============================================================================
