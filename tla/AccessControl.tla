------------------------------- MODULE AccessControl -------------------------------
(***************************************************************************)
(* AccessControlManagement of a television: the access level and the       *)
(* password a controller sets, and the events the plugin is told them by,  *)
(* one turn of the event loop after the write.                             *)
(***************************************************************************)
EXTENDS Naturals, Sequences, SequencesExt

CONSTANTS
  Passwords,         \* what controllers may choose
  NoPassword,        \* undefined
  MaxWrites          \* bound on the events that wait

ASSUME AccessAssumption ==
  /\ NoPassword \notin Passwords
  /\ MaxWrites \in Nat

VARIABLES
  passwordSetting,             \* whether the service listens to passwords
  accessLevel, password, passwordRequired,
  accessControlLevel, setting, \* the values of the two characteristics
  events,                      \* the timers that will emit, in order
  told,                        \* what the plugin's listeners were told last
  destroyed,
  thrown                       \* whether a set handler has thrown

accessVars == <<passwordSetting, accessLevel, password, passwordRequired, accessControlLevel, setting,
                events, told, destroyed, thrown>>

Levels == {0, 1}   \* ANYONE, HOME_MEMBERS_ONLY
Setting(p, required) == [password |-> p, required |-> required]
Chosen == Passwords \cup {NoPassword}
Settings == [password : Chosen, required : BOOLEAN]

\* The constructor, with setupServiceHandlers: both characteristics are reset.
AccessInit ==
  /\ passwordSetting \in BOOLEAN
  /\ accessLevel = 0
  /\ password = NoPassword
  /\ passwordRequired = FALSE
  /\ accessControlLevel = 0
  /\ setting = Setting(NoPassword, FALSE)
  /\ events = <<>>
  /\ told = [level |-> 0, password |-> NoPassword, required |-> FALSE]
  /\ destroyed = FALSE
  /\ thrown = FALSE

GetPassword == IF passwordRequired THEN password ELSE NoPassword

\* setTimeout(..., 0)
Defer(event) == events' = Append(events, event)
Handled == Len(events) < MaxWrites /\ ~destroyed

\* handleAccessLevelChange, called by the set handler.
AccessLevelChange(value) ==
  /\ Handled
  /\ accessLevel' = value
  /\ accessControlLevel' = value
  /\ Defer("level")
  /\ UNCHANGED <<passwordSetting, password, passwordRequired, setting, told, destroyed, thrown>>

\* Mutant of Password: a setting without a password leaves the old one.
PasswordKept(value) == IF value.password = NoPassword THEN password ELSE value.password

Password(value) == value.password

\* handlePasswordChange of a setting that says whether a password is required.
PasswordChange(value) ==
  /\ Handled
  /\ passwordSetting
  /\ password' = Password(value)
  /\ passwordRequired' = value.required
  /\ setting' = value
  /\ Defer("password")
  /\ UNCHANGED <<passwordSetting, accessLevel, accessControlLevel, told, destroyed, thrown>>

\* Without it the handler throws, after it took the password over: the write is refused.
PasswordChangeThrows(p) ==
  /\ ~destroyed
  /\ passwordSetting
  /\ password' = p
  /\ thrown' = TRUE
  /\ UNCHANGED <<passwordSetting, accessLevel, passwordRequired, accessControlLevel, setting, events, told, destroyed>>

\* After destroy() nothing listens: the characteristics take what they are given.
WriteUnheard(level, value) ==
  /\ destroyed
  /\ accessControlLevel' = level
  /\ setting' = value
  /\ UNCHANGED <<passwordSetting, accessLevel, password, passwordRequired, events, told, destroyed, thrown>>

\* A timer fires: the listeners are told what is current then.
Emit ==
  /\ events # <<>>
  /\ events' = Tail(events)
  /\ told' = CASE destroyed -> told
               [] ~destroyed /\ Head(events) = "level" -> [told EXCEPT !.level = accessLevel]
               [] OTHER -> [told EXCEPT !.password = password, !.required = passwordRequired]
  /\ UNCHANGED <<passwordSetting, accessLevel, password, passwordRequired, accessControlLevel, setting, destroyed, thrown>>

\* destroy(): removes the handlers and the plugin's listeners.
DestroyManagement ==
  /\ ~destroyed
  /\ destroyed' = TRUE
  /\ UNCHANGED <<passwordSetting, accessLevel, password, passwordRequired, accessControlLevel, setting, events, told, thrown>>

AccessNext ==
  \/ \E value \in Levels : AccessLevelChange(value)
  \/ \E value \in Settings : PasswordChange(value)
  \/ \E p \in Chosen : PasswordChangeThrows(p)
  \/ \E level \in Levels, value \in Settings : WriteUnheard(level, value)
  \/ Emit
  \/ DestroyManagement

AccessSpec == AccessInit /\ [][AccessNext]_accessVars

-----------------------------------------------------------------------------
(* Properties.                                                             *)

AccessTypeOK ==
  /\ accessLevel \in Levels /\ accessControlLevel \in Levels
  /\ password \in Chosen /\ passwordRequired \in BOOLEAN
  /\ setting \in Settings
  /\ Range(events) \subseteq {"level", "password"}
  /\ told \in [level : Levels, password : Chosen, required : BOOLEAN]

\* When nothing waits, the plugin knows what the controllers see, however many writes of either
\* kind came before the first event was delivered; of the password, as long as every setting was
\* taken over as a whole (handleAccessLevelChange, handlePasswordChange).
PluginKnowsSettings ==
  /\ AccessTypeOK
  /\ events = <<>> /\ ~destroyed =>
       /\ told.level = accessControlLevel
       /\ told.required = setting.required
       /\ ~thrown => told.password = setting.password

\* "the current password configured for the Home": a write that was refused changes nothing.
RefusedChangesNothing == [][thrown' /\ ~thrown => GetPassword' = GetPassword]_accessVars
=============================================================================
